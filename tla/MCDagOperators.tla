--------------------------- MODULE MCDagOperators ---------------------------
(***************************************************************************)
(* Small tables and nodes for TLC.  Two shapes with the same names, one    *)
(* with a nullable integer where the other has a decimal; tables of up to  *)
(* three rows with nulls, ties, repeated keys and both "1.0" and "1", taken *)
(* through two nodes; and all orders of five rows for the sorts, which are *)
(* told apart by d and taken through one.                                  *)
(***************************************************************************)
EXTENDS DagExecution, MCExpressions

Dec(c, s) == [c |-> c, s |-> s]
Row(k, n, d) == [k |-> k, n |-> n, d |-> d]

ShapeA == [k |-> Field("string", FALSE), n |-> Field("integer", TRUE),
           d |-> Field("decimal", FALSE)]
ShapeB == [k |-> Field("string", FALSE), n |-> Field("decimal", FALSE),
           d |-> Field("decimal", TRUE)]

MCTables ==
  {[shape |-> ShapeA, rows |-> list] : list \in {
     <<>>,
     <<Row(1, Integer(1), Integer(4)), Row(2, None, Dec(10, 1)), Row(1, Integer(2), Integer(3))>>,
     <<Row(2, Integer(-1), Dec(-5, 1)), Row(3, None, Integer(0))>>}}
  \union
  {[shape |-> ShapeB, rows |-> list] : list \in {
     <<Row(1, Dec(15, 1), Integer(4)), Row(1, Integer(1), None)>>,
     <<Row(3, Integer(2), Dec(25, 2)), Row(1, Dec(10, 1), Dec(35, 1))>>}}

MCLongTables ==
  {[shape |-> ShapeA,
    rows |-> [i \in 1 .. 5 |-> Row(1, order[i], Integer(i))]] :
     order \in [1 .. 5 -> {None, Integer(1), Integer(2)}]}

Predicates ==
  {[combinator |-> c, conditions |->
      <<Condition("n", "gte", <<Integer(1)>>), Condition("d", "in", <<Integer(1), Integer(4)>>)>>] :
     c \in {"and", "or"}}
  \union
  {[combinator |-> "or", conditions |->
      <<Condition("n", "not_in", <<Integer(1)>>), Condition("k", "eq", <<1>>)>>],
   [combinator |-> "and", conditions |-> <<Condition("d", "between", <<Integer(0), Dec(15, 1)>>)>>],
   [combinator |-> "and", conditions |-> <<Condition("n", "is_null", <<>>)>>],
   [combinator |-> "and", conditions |-> <<Condition("r_n", "is_not_null", <<>>)>>]}

Expressions ==
  {Op("and", <<Op("gt", <<F("n"), F("d")>>), Op("not", <<Op("eq", <<F("d"), L("decimal", Integer(1))>>)>>)>>),
   Op("or", <<Op("lte", <<F("n"), L("integer", Integer(1))>>), Op("ne", <<F("d"), F("n")>>)>>)}

Made ==
  {Op("safe_divide", <<L("integer", Integer(1)), F("d")>>),
   Op("safe_divide", <<F("d"), F("n")>>),
   Op("coalesce", <<F("n"), F("d")>>),
   Op("if", <<Op("lt", <<F("d"), L("integer", Integer(2))>>), F("n"), Op("round", <<F("d")>>)>>),
   Op("subtract", <<Op("multiply", <<F("d"), F("d")>>), F("n")>>),
   Op("to_integer", <<Op("to_decimal", <<F("d")>>)>>),
   Op("add", <<Op("floor", <<F("d")>>), Op("ceil", <<Op("abs", <<F("d")>>)>>)>>)}

Measure(name, op, field) == [name |-> name, op |-> op, field |-> field]

Aggregates ==
  {[op |-> "aggregate", groupBy |-> keys, measures |->
      <<Measure("r", "count_rows", None), Measure("d", "sum", "d"),
        Measure("average", "average", "d"), Measure("n", extreme, "n"),
        Measure("distinct", "count_distinct", "n")>>] :
     keys \in {<<"k">>, <<>>}, extreme \in {"min", "max"}}
  \union {[op |-> "aggregate", groupBy |-> <<"n">>, measures |-> <<Measure("r", "count_rows", None)>>]}

Key(field, direction, nulls) == [field |-> field, direction |-> direction, nulls |-> nulls]

Sorts ==
  {[op |-> "sort", orderBy |-> <<Key("n", direction, nulls)>>, limit |-> 3] :
     direction \in {"asc", "desc"}, nulls \in {"first", "last"}}
  \union
  {[op |-> "sort", orderBy |-> <<Key("n", "asc", "last"), Key("d", "desc", "last")>>, limit |-> limit] :
     limit \in {None, 2}}

MCConfigs ==
  {[op |-> "filter", predicate |-> p] : p \in Predicates}
  \union {[op |-> "select", expression |-> e] : e \in Expressions}
  \union {[op |-> "map", mode |-> mode, fields |-> <<[name |-> "n", expression |-> e],
                                                   [name |-> "k", expression |-> F("k")]>>] :
            mode \in {"extend", "project"}, e \in Made}
  \union Aggregates \union Sorts
  \union {[op |-> "union", discriminator |-> d] : d \in {None, "side"}}
  \union {[op |-> "join", type |-> type, keys |-> <<[left |-> key, right |-> key]>>,
           rightPrefix |-> "r_"] : type \in {"left", "inner"}, key \in {"k", "n"}}
  \union {[op |-> "output", fields |-> <<"k", "n">>]}

\* Names of fields in the plans above, before a join adds its prefix.
FieldNames == {"k", "n", "d", "r", "average", "distinct", "side"}

\* What the theorems ask of the names of a plan holds of these.
ASSUME MCNamesApart ==
  \A o \in MCConfigs : o.op = "join" =>
    \A f \in FieldNames \union {Prefixed(o, g) : g \in FieldNames} : Prefixed(o, f) \notin JoinKeys

Start(table, done) ==
  /\ compiled = table.shape /\ runtime = table.shape /\ rows = table.rows
  /\ status = "running"
  /\ steps = done
  /\ last = None
  /\ before = [left |-> <<>>, right |-> <<>>, shape |-> <<>>]

MCInit ==
  \/ DagInit
  \/ \E table \in MCLongTables : Start(table, MaxSteps - 1)

MCSpec == MCInit /\ [][DagNext]_dagVars
=============================================================================
