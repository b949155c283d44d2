--------------------------- MODULE MCDagPushdown ---------------------------
(***************************************************************************)
(* Small proposals for TLC: plans in which a filter or a sort follows the  *)
(* boundary map at once, after other filters, sorts and maps, or beside    *)
(* another use of the same rows; queries that ask for what some of them    *)
(* keep, in several forms, or for something else; all ways to pair them.   *)
(***************************************************************************)
EXTENDS DagPushdown, MCExpressions

Evidence(type, nested, nullable) ==
  [type |-> type, nested |-> nested, nullable |-> nullable, list |-> FALSE]

MCProviderFields ==
  [path \in {"id", "amount", "t", "pool.fee", "pool.tag"} |->
     CASE path = "amount" -> Evidence("decimal", FALSE, TRUE)
       [] path \in {"id", "t"} -> Evidence("integer", FALSE, FALSE)
       [] OTHER -> Evidence("integer", TRUE, path = "pool.tag")]

ProviderRow(id, amount, t, fee, tag) ==
  ("id" :> Integer(id)) @@ ("amount" :> amount) @@ ("t" :> Integer(t))
    @@ ("pool.fee" :> Integer(fee)) @@ ("pool.tag" :> tag)

Ten == [c |-> 10, s |-> 1]

MCSources ==
  << <<>>,
     <<ProviderRow(1, Integer(3), 9, 1, None), ProviderRow(2, None, 8, 2, Integer(1)),
       ProviderRow(3, Integer(2), 7, 2, Integer(1)), ProviderRow(5, Ten, 8, 1, Integer(2))>>,
     <<ProviderRow(2, Ten, 10, 2, Integer(1)), ProviderRow(3, Integer(2), 8, 1, Integer(1)),
       ProviderRow(4, Integer(4), 9, 3, None)>> >>

-----------------------------------------------------------------------------
Writes(name, e) == [name |-> name, expression |-> e]
MapOf(mode, fields) == [op |-> "map", mode |-> mode, fields |-> fields]
Binding ==
  MapOf("project",
    <<Writes("id", F("id")), Writes("a", F("amount")), Writes("time", F("t")),
      Writes("fee", F("pool.fee")), Writes("tag", F("pool.tag")),
      Writes("double", Op("add", <<F("t"), F("t")>>))>>)

FilterBy(combinator, conditions) ==
  [op |-> "filter", predicate |-> [combinator |-> combinator, conditions |-> conditions]]
SelectBy(e) == [op |-> "select", expression |-> e]
LastDays(n) == [op |-> "window", field |-> "time", days |-> n]
SortBy(field, limit) ==
  [op |-> "sort", limit |-> limit,
   orderBy |-> <<[field |-> field, direction |-> "asc", nulls |-> "last"]>>]
Ends == [op |-> "output", fields |-> <<"id", "a">>]

AtLeast2 == Condition("a", "gte", <<Integer(2)>>)
Cheap == Condition("fee", "eq", <<Integer(1)>>)
ExprAtLeast2 == Op("gte", <<F("a"), L("integer", Integer(2))>>)
ExprCheap == Op("eq", <<F("fee"), L("integer", Integer(1))>>)
Large == FilterBy("and", <<AtLeast2>>)
Rename == MapOf("project", <<Writes("id", F("id")), Writes("a", F("a")), Writes("time", F("time"))>>)

E(from, to, port) == [from |-> from, to |-> to, port |-> port]

Chain(window, between) ==
  LET nodes == <<Binding>> \o between \o <<Ends>>
  IN  [nodes |-> nodes, window |-> window,
       edges |-> {E(IF i = 1 THEN Source ELSE i - 1, i, "rows") : i \in DOMAIN nodes}]

\* The map feeds a filter and, beside it, the node that takes both.
Beside(o, both) ==
  [nodes |-> <<Binding, o, both, Ends>>, window |-> None,
   edges |-> {E(Source, 1, "rows"), E(1, 2, "rows"), E(1, 3, "left"), E(2, 3, "right"),
              E(3, 4, "rows")}]

MCPlans == <<
  Chain(None, <<>>),
  Chain(None, <<Large>>),
  Chain(None, <<FilterBy("or", <<Cheap, AtLeast2>>)>>),
  Chain(None, <<SelectBy(Op("lte", <<L("integer", Integer(2)), F("a")>>))>>),
  Chain(None, <<SelectBy(Op("and", <<Op("or", <<ExprCheap, ExprAtLeast2>>),
                                     Op("lt", <<F("time"), L("integer", Integer(9))>>)>>))>>),
  Chain(None, <<FilterBy("and", <<Cheap>>), Large>>),
  Chain(None, <<FilterBy("or", <<Cheap, AtLeast2>>),
                FilterBy("and", <<Condition("time", "lt", <<Integer(9)>>)>>)>>),
  Chain(None, <<FilterBy("and", <<Condition("a", "between", <<Integer(2), Integer(3)>>)>>)>>),
  Chain(None, <<FilterBy("and", <<Condition("id", "not_in", <<Integer(2), Integer(3)>>)>>)>>),
  Chain(None, <<FilterBy("and", <<Condition("double", "lt", <<Integer(9)>>)>>)>>),
  Chain(None, <<FilterBy("and", <<Condition("tag", "eq", <<Integer(1)>>)>>)>>),
  Chain(2, <<LastDays(2)>>),
  Chain(2, <<LastDays(2), Large>>),
  Chain(2, <<Large>>),
  Chain(2, <<LastDays(2), LastDays(2)>>),
  Chain(2, <<LastDays(2), FilterBy("or", <<Cheap, AtLeast2>>)>>),
  Chain(None, <<SortBy("time", None), Large>>),
  Chain(None, <<SortBy("time", 2), Large>>),
  Chain(None, <<Large, SortBy("time", 2)>>),
  Chain(None, <<SortBy("id", None)>>),
  Chain(None, <<Large, SortBy("id", None)>>),
  Chain(None, <<SortBy("time", None), SortBy("id", None)>>),
  Chain(None, <<MapOf("extend", <<Writes("a", F("fee"))>>), Large>>),
  Chain(None, <<MapOf("extend", <<Writes("b", F("fee"))>>), Large>>),
  Chain(None, <<Rename, Large>>),
  Chain(None, <<[op |-> "aggregate", groupBy |-> <<"id", "a">>,
                  measures |-> <<[name |-> "n", op |-> "count_rows", field |-> None]>>], Large>>),
  Beside(Large, [op |-> "union", discriminator |-> None]),
  Beside(Large, [op |-> "join", type |-> "left", rightPrefix |-> "r_",
                 keys |-> <<[left |-> "id", right |-> "id"]>>]),
  [nodes |-> <<Binding, [op |-> "union", discriminator |-> None], Ends>>, window |-> None,
   edges |-> {E(Source, 1, "rows"), E(1, 2, "left"), E(1, 2, "right"), E(2, 3, "rows")}] >>

Step(role, operator) == [role |-> role, operator |-> operator]

MCPushes == <<
  <<>>, <<Step(2, "filter")>>, <<Step(3, "filter")>>, <<Step(2, "filter"), Step(3, "filter")>>,
  <<Step(3, "filter"), Step(2, "filter")>>, <<Step(2, "sort")>>, <<Step(3, "sort")>>,
  <<Step(2, "filter"), Step(3, "sort")>>, <<Step(2, "filter"), Step(2, "filter")>>,
  <<Step(1, "map")>> >>

-----------------------------------------------------------------------------
Node(name, test, values) == [name |-> name, test |-> test, values |-> values, fields |-> <<>>]
Is(name, test, n) == Node(name, test, <<Integer(n)>>)
Pool(test, fields) == [name |-> "pool", test |-> test, values |-> <<>>, fields |-> fields]
Next1 == Node("id", "gt", <<cursor>>)
In2Days == <<Node("t", "gte", <<windowStart>>), Node("t", "lt", <<windowEnd>>)>>
OfCheap == Pool("child", <<Is("fee", "eq", 1)>>)

Asks1(window, fields, or) ==
  [window |-> window, where |-> [fields |-> fields, or |-> or]]
Where(fields) == Asks1(None, <<Next1>> \o fields, <<>>)
Either(common, branches) == Asks1(None, common, <<branches>>)
Recent(days, fields) == Asks1([field |-> "t", days |-> days], <<Next1>> \o fields, <<>>)

MCQueries == <<
  Where(<<>>),
  Asks1(None, <<Is("amount", "gte", 2)>>, <<>>),
  Where(<<Is("amount", "gte", 2)>>),
  Where(<<Is("amount", "gt", 2)>>),
  Where(<<Is("amount", "gte", 2), OfCheap>>),
  Where(<<OfCheap, Is("amount", "gte", 2)>>),
  Where(<<Is("amount", "gte", 2), Is("amount", "lte", 3)>>),
  Where(<<Node("id", "not_in", <<Integer(2), Integer(3)>>)>>),
  Where(<<Is("t", "lt", 9)>>),
  Where(<<Is("double", "lt", 9)>>),
  Where(<<Pool("child", <<Is("tag", "eq", 1)>>)>>),
  Where(<<Pool("child", <<OfCheap>>)>>),
  Where(<<Pool("object", <<Is("fee", "eq", 1)>>)>>),
  Where(<<Node("amount", "gte", <<None>>)>>),
  Where(<<Pool("and", <<>>)>>),
  Either(<<>>, <<<<Next1, Is("amount", "gte", 2)>>, <<Next1, OfCheap>>>>),
  Either(<<>>, <<<<Next1, Is("amount", "gte", 2)>>, <<OfCheap>>>>),
  Either(<<Next1>>, <<<<OfCheap>>, <<Is("amount", "gte", 2)>>>>),
  Either(<<Next1, Is("t", "lt", 9)>>, <<<<OfCheap>>, <<Next1, Is("amount", "gte", 2)>>>>),
  Either(<<Next1>>, <<<<OfCheap, Is("t", "lt", 9)>>, <<Is("t", "lt", 9), Is("amount", "gte", 2)>>>>),
  Either(<<Next1, Is("t", "lt", 9)>>, <<<<OfCheap>>, <<Is("t", "lt", 8)>>>>),
  Either(<<Next1, Is("t", "lt", 9)>>, <<<<OfCheap>>, <<Is("t", "lt", 9), Is("amount", "gte", 2)>>>>),
  Either(<<Next1>>, <<<<OfCheap>>, <<Pool("or", <<>>)>>>>),
  Recent(2, In2Days),
  Recent(2, In2Days \o <<Is("amount", "gte", 2)>>),
  Recent(3, In2Days),
  Recent(2, <<>>),
  Asks1([field |-> "t", days |-> 2], <<Next1>> \o In2Days,
        <<<<<<OfCheap>>, <<Is("amount", "gte", 2)>>>>>>) >>
=============================================================================
