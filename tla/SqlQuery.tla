------------------------------ MODULE SqlQuery ------------------------------
(***************************************************************************)
(* The life of one SQL statement in src/observer: the parse tree is bound  *)
(* and checked (sql/stmt, sql/parser/expression_binder.cpp), planned       *)
(* (sql/optimizer), opened, stepped row by row and closed by the           *)
(* communicator (sql/executor/sql_result.cpp, net/plain_communicator.cpp). *)
(* The operators themselves are in SqlPlan.                                *)
(*                                                                         *)
(* A parse tree names columns and tables by strings; a select is           *)
(* [k, es, from, where, conj, on, group, having, order, limit], `from' a   *)
(* sequence of <<alias, table>> with the joined tables last.  A list of    *)
(* conditions is joined by AND or by OR throughout (conj), which is all    *)
(* the planner supports.                                                   *)
(***************************************************************************)
EXTENDS SqlPlan, FiniteSets

CONSTANTS Queries,      \* the parse trees that may be submitted
          Databases,    \* the contents the tables may have
          MaxFails      \* the call to the transaction that fails is at most this one

VARIABLES db,           \* table -> slots
          query,        \* the parse tree
          phase,        \* the stage that handles it next
          stmt,         \* the resolved statement
          oper,         \* the physical operator of the SqlResult
          rows,         \* rows written to the client so far
          rc,           \* return code of the SqlResult
          calls,        \* <<kind, rid>> of the transaction calls that succeeded
          trx           \* "idle", "running" or "committed"

vars == <<db, query, phase, stmt, oper, rows, rc, calls, trx>>

(***************************************************************************)
(* Parse trees.                                                            *)
(***************************************************************************)
Col(tab, col) == [k |-> "unboundfield", tab |-> tab, col |-> col]
Star == [k |-> "star"]
Agg(f, e) == [k |-> "unboundaggregation", f |-> f, e |-> e]
SubQuery(q) == [k |-> "unboundsubselect", q |-> q]
Cond(op, l, r) == [op |-> op, l |-> l, r |-> r]
Select(es, from) == [k |-> "select", es |-> es, from |-> from, where |-> <<>>, conj |-> "AND",
                     on |-> <<>>, group |-> <<>>, having |-> <<>>, order |-> <<>>, limit |-> -1]

\* condition_list of yacc_sql.y: built from its end, the last condition always marked AND.
ConditionList(conds, conj) ==
    LET n == Len(conds)
    IN  [i \in 1..n |-> conds[n + 1 - i] @@ [conj |-> IF i = 1 THEN "AND" ELSE conj]]

(***************************************************************************)
(* Binding.  A context is the sequence of <<alias, table>> in scope.       *)
(***************************************************************************)
Bound(es) == [rc |-> OK, es |-> es]
BindFailed(code) == [rc |-> code, es |-> <<>>]
\* What follows a step that must succeed, and a sequence of steps that all must.
IfOk(x, Then(_)) == IF x.rc # OK THEN x ELSE Then(x)
IfAllOk(xs, Then(_)) ==
    IF \A i \in DOMAIN xs : xs[i].rc = OK THEN Then(xs) ELSE xs[SelectInSeq(xs, LAMBDA x : x.rc # OK)]
IfOne(b, Then(_)) == IfOk(b, LAMBDA x : IF Len(x.es) # 1 THEN BindFailed("INVALID_ARGUMENT") ELSE Then(x.es[1]))

WildcardFields(ref) ==
    LET cols == Catalog[ref[2]]
    IN  [i \in DOMAIN cols |-> FieldExpr(ref[2], ref[1], cols[i].name, cols[i].ty)]

BindStar(ctx) == Bound(FlattenSeq([i \in DOMAIN ctx |-> WildcardFields(ctx[i])]))

\* An unqualified name is looked up in the first table of the context and nowhere else.
FieldOf(u, ref, c) ==
    IF c = 0 THEN BindFailed("SCHEMA_FIELD_MISSING")
    ELSE Bound(<<FieldExpr(ref[2], ref[1], u.col, Catalog[ref[2]][c].ty)>>)

TableFound(u, ctx, i) ==
    IF i = 0 THEN BindFailed("SCHEMA_TABLE_NOT_EXIST")
    ELSE FieldOf(u, ctx[i], SelectInSeq(Catalog[ctx[i][2]], LAMBDA m : m.name = u.col))

BindUnboundField(u, ctx) ==
    TableFound(u, ctx, IF u.tab = "" THEN 1 ELSE SelectInSeq(ctx, LAMBDA r : r[1] = u.tab))

RECURSIVE HasAggregate(_)
HasAggregate(e) ==
    e.k = "aggregation" \/ \E i \in DOMAIN ChildExprs(e) : HasAggregate(ChildExprs(e)[i])

RECURSIVE Bind(_, _), SelectStmtCreate(_, _), SelectPlan(_, _), CreatePhysical(_)

BindArithmetic(u, ctx) ==
    IfOne(Bind(u.l, ctx), LAMBDA l :
        IF u.op = "NEGATIVE" THEN Bound(<<ArithmeticExpr(u.op, l, ValueExpr(Null))>>)
        ELSE IfOne(Bind(u.r, ctx), LAMBDA r : Bound(<<ArithmeticExpr(u.op, l, r)>>)))

\* check_aggregate_expression
AggregateAllowed(f, e) ==
    /\ f \in {"SUM", "AVG"} => ValueType(e) \in {"ints", "floats"}
    /\ ~HasAggregate(e)

BindAggregate(u, ctx) ==
    IfOne(IF u.e.k = "star" /\ u.f = "COUNT" THEN Bound(<<ValueExpr(Ints(1))>>) ELSE Bind(u.e, ctx),
          LAMBDA e : IF ~AggregateAllowed(u.f, e) THEN BindFailed("INVALID_ARGUMENT")
                     ELSE Bound(<<AggregateExpr(u.f, e, u)>>))

\* The sub-select is planned while it is bound; a plan that cannot be made is dereferenced all the same.
PlanSubSelect(p) ==
    IF p.rc # OK THEN BindFailed("CRASH") ELSE Bound(<<SubSelectExpr(CreatePhysical(p.o))>>)
BindSubSelect(u, ctx) ==
    IfOk(SelectStmtCreate(u.q, ctx), LAMBDA s : PlanSubSelect(SelectPlan(s, TRUE)))

Bind(u, ctx) ==
    CASE u.k = "star" -> BindStar(ctx)
      [] u.k = "unboundfield" -> BindUnboundField(u, ctx)
      [] u.k = "unboundaggregation" -> BindAggregate(u, ctx)
      [] u.k = "unboundsubselect" -> BindSubSelect(u, ctx)
      [] u.k = "arithmetic" -> BindArithmetic(u, ctx)
      [] u.k = "value" -> Bound(<<u>>)

\* Expressions bound one after the other into one list, up to the first that cannot be.
BindAll(us, ctx) ==
    IfAllOk([i \in DOMAIN us |-> Bind(us[i], ctx)],
            LAMBDA bs : Bound(FlattenSeq([i \in DOMAIN bs |-> bs[i].es])))

(***************************************************************************)
(* Statements.                                                             *)
(***************************************************************************)
FilterUnit(c, ctx) ==
    IfOk(Bind(c.l, ctx), LAMBDA l :
        IfOk(Bind(c.r, ctx), LAMBDA r :
            [rc |-> OK, op |-> c.op, l |-> l.es[1], r |-> r.es[1], conj |-> c.conj]))

FilterStmtCreate(conds, ctx) ==
    IfAllOk([i \in DOMAIN conds |-> FilterUnit(conds[i], ctx)], LAMBDA us : [rc |-> OK, units |-> us])

\* `ps': the select list, the GROUP BY list, the WHERE and HAVING filters, the ORDER BY list.
SelectStmt(q, ps) ==
    [rc |-> OK, k |-> "select", tables |-> q.from, es |-> ps[1].es, group |-> ps[2].es,
     units |-> ps[3].units, having |-> ps[4].units, limit |-> q.limit,
     order |-> [i \in DOMAIN q.order |-> [e |-> ps[5].es[i], by |-> q.order[i].by]]]

\* The conditions of a join follow those of the WHERE clause in one list.
SelectParts(q, ctx) ==
    << BindAll(q.es, ctx), BindAll(q.group, ctx),
       FilterStmtCreate(ConditionList(q.where, q.conj) \o ConditionList(q.on, "AND"), ctx),
       FilterStmtCreate(ConditionList(q.having, "AND"), ctx),
       BindAll([i \in DOMAIN q.order |-> q.order[i].e], ctx) >>

SelectStmtCreate(q, father) ==
    IF \E i \in DOMAIN q.from : q.from[i][2] \notin DOMAIN Catalog THEN [rc |-> "SCHEMA_TABLE_NOT_EXIST"]
    ELSE IF \E i, j \in DOMAIN q.from : i < j /\ q.from[i][1] = q.from[j][1] THEN [rc |-> "ERROR"]
    ELSE IfAllOk(SelectParts(q, q.from \o father), LAMBDA ps : SelectStmt(q, ps))

InsertStmtCreate(q) ==
    IF q.table \notin DOMAIN Catalog THEN [rc |-> "SCHEMA_TABLE_NOT_EXIST"]
    ELSE IF Len(q.vals) # Len(Catalog[q.table]) THEN [rc |-> "SCHEMA_FIELD_MISSING"]
    ELSE [rc |-> OK, k |-> "insert", table |-> q.table, vals |-> q.vals]

DeleteStmtCreate(q) ==
    IF q.table \notin DOMAIN Catalog THEN [rc |-> "SCHEMA_TABLE_NOT_EXIST"]
    ELSE IfOk(FilterStmtCreate(ConditionList(q.where, q.conj), <<<<q.table, q.table>>>>),
              LAMBDA f : [rc |-> OK, k |-> "delete", table |-> q.table, units |-> f.units])

RECURSIVE TryGetValue(_, _)
TryGetValue(e, d) ==
    LET calc(l, r) == IF "undefined" \in {l.t, r.t} THEN Undefined ELSE CalcValue(e, l, r)
    IN  CASE e.k \in {"value", "subselect"} -> Eval(e, <<>>, d).v
          [] e.k = "arithmetic" -> calc(TryGetValue(e.l, d), TryGetValue(e.r, d))
          [] OTHER -> Undefined

\* The value of one assignment, computed before any row is read: none means `stmt stage failed'.
CastOrNone(c) == IF c.rc = OK THEN <<c.v>> ELSE <<>>
SetTo(m, x) ==
    CASE x.t = "nulls" -> IF m.nullable THEN <<Null>> ELSE <<>>
      [] OTHER -> CastOrNone(CastTo(x, m.ty))
SetValue(m, x) ==
    CASE x.t # "valueslists" -> SetTo(m, x)
      [] x.t = "valueslists" /\ Len(x.l) > 1 -> <<>>
      [] OTHER -> SetTo(m, IF x.l = <<>> THEN Null ELSE x.l[1])

\* `ps': the bound values and the filter; `pos': the columns set, 0 for one that is missing.
UpdateStmt(q, ps, pos, d) ==
    LET vals == [i \in DOMAIN pos |-> SetValue(Catalog[q.table][pos[i]], TryGetValue(ps[1].es[i], d))]
        sets(vs) == IF \E i \in DOMAIN vs : vs[i] = <<>> THEN <<>>
                    ELSE [i \in DOMAIN vs |-> [i |-> pos[i], v |-> vs[i][1]]]
    IN  IF \E i \in DOMAIN pos : pos[i] = 0 THEN [rc |-> "SCHEMA_FIELD_NOT_EXIST"]
        ELSE [rc |-> OK, k |-> "update", table |-> q.table, units |-> ps[2].units, sets |-> sets(vals)]

UpdateParts(q, ctx) ==
    <<BindAll([i \in DOMAIN q.sets |-> q.sets[i].e], ctx),
      FilterStmtCreate(ConditionList(q.where, q.conj), ctx)>>

UpdateStmtCreate(q, d) ==
    LET pos(i) == SelectInSeq(Catalog[q.table], LAMBDA m : m.name = q.sets[i].col)
    IN  IF q.table \notin DOMAIN Catalog THEN [rc |-> "SCHEMA_TABLE_NOT_EXIST"]
        ELSE IfAllOk(UpdateParts(q, <<<<q.table, q.table>>>>),
                     LAMBDA ps : UpdateStmt(q, ps, [i \in DOMAIN q.sets |-> pos(i)], d))

RECURSIVE CreateStmt(_, _)
CreateStmt(q, d) ==
    CASE q.k = "select" -> SelectStmtCreate(q, <<>>)
      [] q.k = "insert" -> InsertStmtCreate(q)
      [] q.k = "delete" -> DeleteStmtCreate(q)
      [] q.k = "update" -> UpdateStmtCreate(q, d)
      [] q.k = "calc" -> [rc |-> OK, k |-> "calc", es |-> q.es]
      [] q.k = "explain" -> IfOk(CreateStmt(q.q, d), LAMBDA s : [rc |-> OK, k |-> "explain", s |-> s])

(***************************************************************************)
(* Logical plans.                                                          *)
(***************************************************************************)
Planned(o) == [rc |-> OK, o |-> o]
TableGet(ref) == [k |-> "table_get", table |-> ref[2], alias |-> ref[1]]
Over(k, e, c) == [k |-> k, e |-> e, c |-> c]
JoinOf(l, r) == IF l = None THEN r ELSE [k |-> "join", l |-> l, r |-> r]

Comparison(op, l, r) == [rc |-> OK, e |-> ComparisonExpr(op, l, r)]
Unsupported == [rc |-> "UNSUPPORTED", e |-> None]

CastSide(e, ty) ==
    IF e.k = "value" THEN IfOk(CastTo(e.v, ty), LAMBDA c : [rc |-> OK, e |-> ValueExpr(c.v)])
    ELSE [rc |-> OK, e |-> CastExpr(e, ty)]

\* The cheaper side, of type lt or rt, is cast to the other's type.
CastComparison(u, lt, rt) ==
    LET lr == CastCost(lt, rt)
        rl == CastCost(rt, lt)
    IN  IF lt = rt \/ {lt, rt} \cap {"nulls", "valueslists"} # {} THEN Comparison(u.op, u.l, u.r)
        ELSE IF lr <= rl /\ lr # IntMax THEN IfOk(CastSide(u.l, rt), LAMBDA l : Comparison(u.op, l.e, u.r))
        ELSE IF rl < lr THEN IfOk(CastSide(u.r, lt), LAMBDA r : Comparison(u.op, u.l, r.e))
        ELSE Unsupported

FilterComparison(u) ==
    CASE u.op \in {"IS_NULL", "IS_NOT"} -> Comparison(u.op, u.l, u.r)
      [] u.op \in {"IN", "NOT_IN"} ->
            IF ValueType(u.r) = "valueslists" THEN Comparison(u.op, u.l, u.r) ELSE Unsupported
      [] OTHER -> CastComparison(u, ValueType(u.l), ValueType(u.r))

\* create_plan(FilterStmt): the last unit says whether the list is an AND or an OR.
FilterOver(cs, conj, child) ==
    Planned(Over("predicate", ConjunctionExpr(conj, [i \in DOMAIN cs |-> cs[i].e]), child))
FilterPlan(units, child) ==
    IF units = <<>> THEN Planned(child)
    ELSE IfAllOk([i \in DOMAIN units |-> FilterComparison(units[i])],
                 LAMBDA cs : FilterOver(cs, units[Len(units)].conj, child))

\* The conditions a prefix of the tables decides: plain columns and constants, the columns'
\* real table among the aliases seen so far.
Decided(u, seen) ==
    \A e \in {u.l, u.r} : e.k = "value" \/ (e.k = "field" /\ e.s[2] \in seen)

\* Each table in turn: joined to the ones before it, under the conditions it completes.
RECURSIVE TablesPlan(_, _, _, _, _)
TablesPlan(tables, i, units, seen, p) ==
    IF i > Len(tables) \/ p.rc # OK THEN p @@ [units |-> units]
    ELSE LET now == seen \cup {tables[i][1]}
         IN  TablesPlan(tables, i + 1, SelectSeq(units, LAMBDA u : ~Decided(u, now)), now,
                        FilterPlan(SelectSeq(units, LAMBDA u : Decided(u, now)),
                                   JoinOf(p.o, TableGet(tables[i]))))

RECURSIVE EqualExpr(_, _)
EqualExpr(a, b) ==
    a.k = b.k /\ CASE a.k = "field" -> a.s[2] = b.s[2] /\ a.s[4] = b.s[4]
                   [] a.k = "value" -> a.v = b.v
                   [] a.k = "arithmetic" -> a.op = b.op /\ EqualExpr(a.l, b.l) /\ EqualExpr(a.r, b.r)
                   [] OTHER -> FALSE

RECURSIVE UnboundColumn(_, _)
UnboundColumn(e, group) ==
    /\ e.k # "aggregation"
    /\ ~\E i \in DOMAIN group : EqualExpr(e, group[i])
    /\ e.k = "field" \/ \E i \in DOMAIN ChildExprs(e) : UnboundColumn(ChildExprs(e)[i], group)

RECURSIVE Aggregates(_)
Aggregates(e) ==
    IF e.k = "aggregation" THEN <<e>>
    ELSE FlattenSeq([i \in DOMAIN ChildExprs(e) |-> Aggregates(ChildExprs(e)[i])])

GroupByOver(s, aggs, child) ==
    IF s.group = <<>> /\ aggs = <<>> THEN Planned(child)
    ELSE IF \E i \in DOMAIN s.es : UnboundColumn(s.es[i], s.group) THEN [rc |-> "INVALID_ARGUMENT"]
    ELSE Planned([k |-> "group_by", keys |-> s.group, aggs |-> aggs, c |-> child])

GroupByPlan(s, child) ==
    LET used == s.es \o FlattenSeq([i \in DOMAIN s.having |-> <<s.having[i].l, s.having[i].r>>])
    IN  GroupByOver(s, FlattenSeq([i \in DOMAIN used |-> Aggregates(used[i])]), child)

\* Bottom up: tables, outer row, remaining conditions, ORDER BY, LIMIT, GROUP BY, HAVING, columns.
JoinFather(sub, o) == IF sub THEN JoinOf([k |-> "father"], o) ELSE o
OrderOver(s, o) == IF s.order = <<>> THEN o ELSE Over("sort", s.order, o)
LimitOver(s, o) == IF s.limit < 0 THEN o ELSE Over("limit", s.limit, o)

SelectPlan(s, sub) ==
    IfOk(TablesPlan(s.tables, 1, s.units, {}, Planned(None)), LAMBDA ts :
    IfOk(FilterPlan(ts.units, JoinFather(sub, ts.o)), LAMBDA ws :
    IfOk(GroupByPlan(s, LimitOver(s, OrderOver(s, ws.o))), LAMBDA gs :
    IfOk(FilterPlan(s.having, gs.o), LAMBDA hs : Planned(Over("project", s.es, hs.o))))))

DeletePlan(s) ==
    IfOk(FilterPlan(s.units, TableGet(<<s.table, s.table>>)),
         LAMBDA p : Planned([k |-> "delete", table |-> s.table, c |-> p.o]))

UpdatePlan(s) ==
    IfOk(FilterPlan(s.units, TableGet(<<s.table, s.table>>)),
         LAMBDA p : Planned([k |-> "update", table |-> s.table, sets |-> s.sets, c |-> p.o]))

RECURSIVE LogicalPlan(_)
LogicalPlan(s) ==
    CASE s.k = "select" -> SelectPlan(s, FALSE)
      [] s.k = "delete" -> DeletePlan(s)
      [] s.k = "update" -> UpdatePlan(s)
      [] s.k = "insert" -> Planned([k |-> "insert", table |-> s.table, vals |-> s.vals])
      [] s.k = "calc" -> Planned([k |-> "calc", es |-> s.es])
      [] s.k = "explain" -> IfOk(LogicalPlan(s.s), LAMBDA p : Planned([k |-> "explain", c |-> p.o]))

\* ann_optimize takes the sort expression of LIMIT over ORDER BY over a bare table for a
\* distance function without looking: with any other expression that is undefined behaviour.
Misread(l) == l.k = "project" /\ l.c.k = "limit" /\ l.c.c.k = "sort" /\ l.c.c.c.k = "table_get"

(***************************************************************************)
(* Physical plans.                                                         *)
(***************************************************************************)
PhysicalTableGet(l) == TableScan(l.table, l.alias)
PhysicalJoin(l)    == NestedLoopJoin(CreatePhysical(l.l), CreatePhysical(l.r))
PhysicalPredicate(l) == Predicate(l.e, CreatePhysical(l.c))
PhysicalSort(l)    == SortOper(l.e, CreatePhysical(l.c))
PhysicalLimit(l)   == LimitOper(l.e, CreatePhysical(l.c))
PhysicalGroupBy(l) == GroupBy(l.keys, l.aggs, CreatePhysical(l.c))
PhysicalProject(l) == Project(l.e, CreatePhysical(l.c))
\* DELETE, UPDATE and EXPLAIN stand over a plan, INSERT and CALC alone.
PhysicalOver(l)    == [l EXCEPT !.c = CreatePhysical(l.c)] @@ [emitted |-> FALSE]
PhysicalAlone(l)   == l @@ [emitted |-> FALSE]

CreatePhysical(l) ==
    CASE l.k = "table_get" -> PhysicalTableGet(l)  [] l.k = "father" -> FatherTuple
      [] l.k = "join" -> PhysicalJoin(l)           [] l.k = "predicate" -> PhysicalPredicate(l)
      [] l.k = "sort" -> PhysicalSort(l)           [] l.k = "limit" -> PhysicalLimit(l)
      [] l.k = "group_by" -> PhysicalGroupBy(l)    [] l.k = "project" -> PhysicalProject(l)
      [] l.k \in {"delete", "update", "explain"} -> PhysicalOver(l)
      [] l.k \in {"insert", "calc"} -> PhysicalAlone(l)

(***************************************************************************)
(* The operators that write.  The call to the transaction numbered `fail'  *)
(* fails (0: none does).                                                   *)
(***************************************************************************)
Wrote(code, o, d, cs) == [rc |-> code, o |-> o, d |-> d, calls |-> cs]
WriteOpened(o, c, d, Then(_)) == IF c.rc # OK THEN Wrote(c.rc, o, d, <<>>) ELSE Then(c.o)
RowOf(t, table) == FindCell(t, Rid(table)).v.v

\* Table::make_record: a NULL only into a nullable column, anything else cast to the column.
MakeCell(m, x) == IF x.t = "nulls" /\ m.nullable THEN [rc |-> OK, v |-> Null] ELSE CastTo(x, m.ty)
MakeRecord(table, vals) ==
    IfAllOk([i \in DOMAIN Catalog[table] |-> MakeCell(Catalog[table][i], vals[i])],
            LAMBDA cs : [rc |-> OK, row |-> [i \in DOMAIN cs |-> cs[i].v]])

InsertRow(o, r, d, fail) ==
    IF r.rc # OK THEN Wrote(r.rc, o, d, <<>>)
    ELSE IF fail = 1 THEN Wrote("TRX_FAILED", o, d, <<>>)
    ELSE Wrote(OK, o, [d EXCEPT ![o.table] = Append(@, r.row)], <<<<"insert", Len(d[o.table]) + 1>>>>)
InsertOpen(o, d, fail) == InsertRow(o, MakeRecord(o.table, o.vals), d, fail)

\* Rows are collected first; whatever ended the collection, what was collected is deleted.
DeleteRows(o, rids, n, d) ==
    Wrote(IF n < Len(rids) THEN "TRX_FAILED" ELSE OK, o,
          [d EXCEPT ![o.table] = [i \in DOMAIN @ |-> IF \E j \in 1..n : rids[j] = i THEN <<>> ELSE @[i]]],
          [i \in 1..n |-> <<"delete", rids[i]>>])
DeleteCollected(o, r, d, fail) ==
    DeleteRows([o EXCEPT !.c = Close(r.o)], [i \in DOMAIN r.ts |-> RowOf(r.ts[i], o.table)],
               IF fail \in DOMAIN r.ts THEN fail - 1 ELSE Len(r.ts), d)
DeleteOpen(o, d, fail) ==
    WriteOpened(o, Open(o.c, d), d, LAMBDA c : DeleteCollected(o, Drain(c, <<>>, d), d, fail))

NewRow(row, sets) ==
    [i \in DOMAIN row |-> IF \E j \in DOMAIN sets : sets[j].i = i
                          THEN sets[SelectLastInSeq(sets, LAMBDA x : x.i = i)].v ELSE row[i]]

\* Row by row under the scan; an error of the child ends the loop like the end of the rows.
RECURSIVE UpdateLoop(_, _, _, _, _)
UpdateLoop(o, n, d, cs, fail) ==
    LET p == [o EXCEPT !.c = n.o]
        update(i) == [d EXCEPT ![o.table][i] = NewRow(@, o.sets)]
        go(e, i) == UpdateLoop(p, Next(n.o, e), e, Append(cs, <<"update", i>>), fail)
    IN  IF n.rc # OK THEN Wrote(OK, p, d, cs)
        ELSE IF o.sets = <<>> THEN Wrote("ERROR", p, d, cs)
        ELSE IF fail = Len(cs) + 1 THEN Wrote("TRX_FAILED", p, d, cs)
        ELSE go(update(RowOf(n.t, o.table)), RowOf(n.t, o.table))

\* Mutant: the row whose update failed is skipped and the statement goes on to report SUCCESS.
MutUpdateOpen(o, d, fail) ==
    WriteOpened(o, Open(o.c, d), d, LAMBDA c : [UpdateLoop(o, Next(c, d), d, <<>>, fail) EXCEPT !.rc = OK])

UpdateOpen(o, d, fail) ==
    WriteOpened(o, Open(o.c, d), d, LAMBDA c : UpdateLoop(o, Next(c, d), d, <<>>, fail))

OpenQuery(c, d) == Wrote(c.rc, c.o, d, <<>>)
OpenRoot(o, d, fail) ==
    CASE o.k = "insert" -> InsertOpen(o, d, fail)
      [] o.k = "delete" -> DeleteOpen(o, d, fail)
      [] o.k = "update" -> UpdateOpen(o, d, fail)
      [] o.k = "project" -> OpenQuery(Open(o, d), d)
      [] o.k \in {"calc", "explain"} -> Wrote(OK, o, d, <<>>)

\* CALC emits one row, EXPLAIN the text of the plan, without running it.
NextRoot(o, d) ==
    CASE o.k = "project" -> Next(o, d)
      [] o.k \in {"insert", "delete", "update"} -> Fail(EOF_, o)
      [] o.k \in {"calc", "explain"} -> IF o.emitted THEN Fail(EOF_, o) ELSE Got([o EXCEPT !.emitted = TRUE], <<>>)

RowCells(o, t, d) ==
    CASE o.k \in {"project", "calc"} -> ProjectCells(o, t, d)
      [] o.k = "explain" -> <<[rc |-> OK, v |-> Undefined, e |-> o]>>

(***************************************************************************)
(* The statement's way through the stages.                                 *)
(***************************************************************************)
Init ==
    /\ db \in Databases
    /\ query \in Queries
    /\ phase = "resolve" /\ stmt = None /\ oper = None /\ rows = <<>>
    /\ rc = OK /\ calls = <<>> /\ trx = "idle"

\* A stage that fails sets the return code and the communicator writes the state.
Failed(code) == /\ rc' = code /\ phase' = "done"
                /\ UNCHANGED <<db, query, rows, calls, trx>>

Resolved(s) ==
    /\ IF s.rc # OK THEN Failed(s.rc) /\ stmt' = stmt
       ELSE /\ stmt' = s /\ phase' = "optimize"
            /\ UNCHANGED <<db, query, rows, rc, calls, trx>>
    /\ UNCHANGED oper

ResolveStage == phase = "resolve" /\ Resolved(CreateStmt(query, db))

Optimized(p) ==
    \/ p.rc # OK /\ Failed(p.rc) /\ UNCHANGED <<stmt, oper>>
    \/ p.rc = OK /\ Misread(p.o) /\ Failed("CRASH") /\ UNCHANGED <<stmt, oper>>
    \/ /\ p.rc = OK
       /\ oper' = CreatePhysical(p.o) /\ phase' = "open"
       /\ UNCHANGED <<db, query, stmt, rows, rc, calls, trx>>

OptimizeStage == phase = "optimize" /\ Optimized(LogicalPlan(stmt))

\* SqlResult::open; the whole of a write happens here.
Opened(w) == /\ oper' = w.o /\ db' = w.d /\ calls' = w.calls /\ rc' = w.rc
             /\ phase' = IF w.rc = OK THEN "next" ELSE "close"

OpenResult ==
    /\ phase = "open"
    /\ \E fail \in 0..MaxFails : Opened(OpenRoot(oper, db, fail))
    /\ trx' = "running"
    /\ UNCHANGED <<query, stmt, rows>>

\* One round of write_tuple_result: the row's cells are evaluated while it is written.
Written(n, cs, code) ==
    /\ oper' = n.o
    /\ rows' = IF code = OK THEN Append(rows, [i \in DOMAIN cs |-> cs[i].v]) ELSE rows
    /\ phase' = IF code = OK THEN "next" ELSE "close"
    /\ rc' = IF code = EOF_ THEN OK ELSE code

FirstBad(cs) == IfAllOk(cs, LAMBDA x : [rc |-> OK]).rc
WriteCells(n, cs) == Written(n, cs, FirstBad(cs))
WriteRow(n) == IF n.rc # OK THEN Written(n, <<>>, n.rc) ELSE WriteCells(n, RowCells(n.o, n.t, db))

NextTuple ==
    /\ phase = "next"
    /\ WriteRow(NextRoot(oper, db))
    /\ UNCHANGED <<db, query, stmt, calls, trx>>

\* SqlResult::close: the operators close successfully whatever happened, so the
\* statement's transaction commits, also after an error.
CloseResult ==
    /\ phase = "close"
    /\ oper' = None /\ trx' = "committed" /\ phase' = "done"
    /\ UNCHANGED <<db, query, stmt, rows, rc, calls>>

Step == ResolveStage \/ OptimizeStage \/ OpenResult \/ NextTuple \/ CloseResult
Spec == Init /\ [][Step]_vars
=============================================================================
