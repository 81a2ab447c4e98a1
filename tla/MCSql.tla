------------------------------- MODULE MCSql --------------------------------
(***************************************************************************)
(* Two tables of at most two rows and the statements that exercise every   *)
(* operator, alone and in combination.                                     *)
(***************************************************************************)
EXTENDS SqlSemantics

Column(name, ty, nullable) == [name |-> name, ty |-> ty, nullable |-> nullable]
MCCatalog == [t |-> <<Column("x", "ints", FALSE), Column("y", "ints", TRUE)>>,
              s |-> <<Column("x", "ints", FALSE), Column("f", "floats", TRUE)>>]

V(n) == ValueExpr(Ints(n))
Half == ValueExpr(Floats(Unit \div 2))
TX == Col("t", "x")
TY == Col("t", "y")
SX == Col("s", "x")
SF == Col("s", "f")
T == <<<<"t", "t">>>>
S == <<<<"s", "s">>>>
TS == T \o S
Asc(e) == [e |-> e, by |-> "ASC"]
Desc(e) == [e |-> e, by |-> "DESC"]
All(from) == Select(<<Star>>, from)
Where(q, cs) == [q EXCEPT !.where = cs]
AnyOf(q, cs) == [q EXCEPT !.where = cs, !.conj = "OR"]
Lone == Where(Select(<<SF>>, S), <<Cond("EQUAL_TO", SX, TX)>>)
Arith(op, l, r) == [k |-> "arithmetic", op |-> op, l |-> l, r |-> r]
WriteOf(k, cs) == [k |-> k, table |-> "t", where |-> cs, conj |-> "AND"]
Set(col, e, cs) == WriteOf("update", cs) @@ [sets |-> <<[col |-> col, e |-> e]>>]
Insert(table, vals) == [k |-> "insert", table |-> table, vals |-> vals]

Selects ==
    { All(T), All(TS),
      Where(All(T), <<Cond("GREAT_THAN", TY, V(0)), Cond("LESS_EQUAL", TX, V(1))>>),
      AnyOf(All(T), <<Cond("EQUAL_TO", TX, V(2)), Cond("IS_NULL", TY, ValueExpr(Null))>>),
      Where(All(TS), <<Cond("EQUAL_TO", TX, SX), Cond("GREAT_EQUAL", SF, TY)>>),
      AnyOf(All(TS), <<Cond("EQUAL_TO", TX, V(1)), Cond("EQUAL_TO", SX, V(2))>>),
      Where(All(T), <<Cond("GREAT_THAN", Half, TX), Cond("IS_NOT", TY, ValueExpr(Null))>>),
      [Where(Select(<<SX, TY>>, TS), <<Cond("NOT_EQUAL", TY, V(1))>>) EXCEPT !.on = <<Cond("LESS_THAN", TX, SX)>>],
      Where(All(<<<<"a", "t">>, <<"b", "t">>>>), <<Cond("LESS_THAN", Col("a", "x"), Col("b", "x"))>>),
      All(<<<<"t", "t">>, <<"t", "s">>>>), All(<<<<"t", "nope">>>>), Select(<<Col("t", "f")>>, T),
      [Select(<<TX, TY>>, T) EXCEPT !.order = <<Desc(TY), Asc(TX)>>],
      [Where(Select(<<TX>>, T), <<Cond("GREAT_THAN", TX, V(0))>>) EXCEPT !.order = <<Asc(TX)>>, !.limit = 1],
      [All(T) EXCEPT !.order = <<Asc(TX)>>, !.limit = 1],
      Select(<<Agg("COUNT", Star), Agg("SUM", TY), Agg("AVG", TX), Agg("MIN", TY)>>, T),
      [Select(<<TX, Arith("MUL", Agg("SUM", SF), V(2))>>, TS) EXCEPT !.group = <<TX>>],
      [Select(<<TY, Agg("COUNT", TX), Agg("MAX", TX)>>, T) EXCEPT !.group = <<TY>>,
            !.having = <<Cond("GREAT_THAN", Agg("COUNT", TX), V(1))>>],
      [Select(<<TX, Agg("COUNT", TY)>>, T) EXCEPT !.group = <<TY>>],
      [Select(<<Agg("COUNT", Col("a", "x"))>>, <<<<"a", "t">>>>) EXCEPT !.group = <<Col("a", "y")>>],
      [Select(<<Agg("SUM", Agg("COUNT", TX))>>, T) EXCEPT !.limit = 1],
      [Select(<<Agg("COUNT", TX)>>, T) EXCEPT !.limit = 1],
      Where(Select(<<TX>>, T), <<Cond("IN", TX, SubQuery(Select(<<SX>>, S)))>>),
      Where(Select(<<TX>>, T), <<Cond("NOT_IN", TY, SubQuery(Where(Select(<<SX>>, S), <<Cond("GREAT_EQUAL", SX, TX)>>)))>>),
      Where(Select(<<TX>>, T), <<Cond("EQUAL_TO", TX, SubQuery(Select(<<Agg("MAX", SX)>>, S)))>>),
      Where(Select(<<TX>>, T), <<Cond("LESS_THAN", TY, SubQuery(Lone))>>),
      [Where(Select(<<TX>>, T), <<Cond("GREAT_THAN", SubQuery(Lone), TX)>>) EXCEPT !.order = <<Asc(TX)>>],
      Where(Select(<<TX>>, T), <<Cond("NOT_EQUAL", TX, SubQuery(Lone))>>),
      [Where(Select(<<TX>>, T), <<Cond("NOT_EQUAL", TX, SubQuery(Lone))>>) EXCEPT !.order = <<Asc(TX)>>],
      Where(Select(<<TX>>, T), <<Cond("IS_NULL", SubQuery(Lone), ValueExpr(Null))>>),
      Where(Select(<<TX>>, T), <<Cond("EQUAL_TO", TX, SubQuery([Lone EXCEPT !.limit = 1]))>>),
      Where(Select(<<TX>>, T), <<Cond("IN", TX, SubQuery([Select(<<SX>>, S) EXCEPT !.group = <<SX>>]))>>),
      Where(Select(<<TX>>, T), <<Cond("EQUAL_TO", TX, SubQuery(All(S)))>>),
      Where(Select(<<TX>>, T), <<Cond("EQUAL_TO", TX, SubQuery(Where(Select(<<SX>>, S), <<Cond("IN", SX, V(1))>>)))>>),
      Where(Select(<<TX>>, T), <<Cond("IN", TX, V(1))>>),
      Select(<<V(1)>>, T),
      Select(<<Arith("ADD", TX, TY), Arith("NEGATIVE", TY, V(0)), Arith("DIV", TX, TY), Arith("SUB", Half, TX)>>, T) }

Writes ==
    { WriteOf("delete", <<>>), WriteOf("delete", <<Cond("LESS_EQUAL", TY, V(1))>>),
      WriteOf("delete", <<Cond("IN", TX, SubQuery(Select(<<SX>>, S)))>>),
      WriteOf("delete", <<Cond("LESS_THAN", TX, SubQuery(Lone))>>),
      WriteOf("delete", <<Cond("NOT_EQUAL", TX, SubQuery(Lone))>>),
      WriteOf("delete", <<Cond("EQUAL_TO", Col("u", "x"), V(1))>>),
      Set("y", Arith("ADD", V(1), V(1)), <<Cond("NOT_EQUAL", TX, V(2))>>), Set("y", ValueExpr(Null), <<>>),
      Set("x", ValueExpr(Null), <<>>), Set("x", Arith("ADD", TX, V(1)), <<>>), Set("z", V(1), <<>>),
      Set("x", V(2), <<Cond("EQUAL_TO", TX, V(1))>>),
      Set("y", SubQuery(Select(<<Agg("MAX", SF)>>, S)), <<Cond("IN", TX, SubQuery(Select(<<SX>>, S)))>>),
      Set("y", V(0), <<Cond("IN", TX, SubQuery(Select(<<TY>>, T)))>>),
      Insert("t", <<Ints(1), Null>>), Insert("t", <<Null, Ints(1)>>), Insert("t", <<Ints(1)>>),
      Insert("s", <<Floats(Unit + Unit \div 2), Ints(1)>>), Insert("nope", <<Ints(1)>>) }

Others == { [k |-> "calc", es |-> <<Arith("DIV", V(1), V(0)), V(2)>>] }
          \cup {[k |-> "explain", q |-> q] : q \in {All(TS), WriteOf("delete", <<>>), All(<<<<"t", "nope">>>>)}}

MCQueries == Selects \cup Writes \cup Others

TRows == {<<Ints(1), Null>>, <<Ints(1), Ints(1)>>, <<Ints(2), Ints(1)>>, <<Ints(2), Ints(0)>>}
SRows == {<<Ints(1), Floats(3)>>, <<Ints(2), Null>>, <<Ints(2), Floats(12)>>}
UpTo2(rs) == {<<>>} \cup {<<r>> : r \in rs} \cup {<<r, q>> : r \in rs, q \in rs}
MCDatabases == {[t |-> a, s |-> b] : a \in UpTo2(TRows), b \in UpTo2(SRows)}
=============================================================================
