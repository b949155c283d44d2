---------------------------- MODULE DagExecution ----------------------------
(***************************************************************************)
(* A plan, node by node: each step takes the rows so far through one more  *)
(* node that the compiler accepts; the other input of a union or a join is *)
(* a table of its own.  The compiled and the executed shape go along.      *)
(***************************************************************************)
EXTENDS DagOperators

CONSTANTS
  Configs,  \* the nodes a step may run
  Tables,   \* shapes with rows of theirs: the sources of a plan
  MaxSteps  \* nodes between a source and the output, at most

IsSequence(x) == x \in Seq(ToSet(x))

WellFormedCondition(c) ==
  /\ IsSequence(c.values)
  /\ CASE NullCheck(c) -> c.values = <<>>
       [] c.operator \in {"in", "not_in"} -> c.values # <<>>
       [] c.operator = "between" -> Len(c.values) = 2
       [] OTHER -> Len(c.values) = 1

\* Two of them have different names.
DistinctNames(list) == \A i, j \in DOMAIN list : list[i].name = list[j].name => i = j

\* Rows a sort may be limited to.
maximumTopK == 10000

\* What the compiler asks of a node whatever the shapes are.
WellConfigured(o) ==
  CASE o.op = "filter" ->
         /\ o.predicate.combinator \in {"and", "or"}
         /\ IsSequence(o.predicate.conditions) /\ o.predicate.conditions # <<>>
         /\ \A c \in ToSet(o.predicate.conditions) : WellFormedCondition(c)
    [] o.op = "select" -> WellFormed(o.expression)
    [] o.op = "map" ->
         /\ IsSequence(o.fields) /\ DistinctNames(o.fields)
         /\ \A d \in ToSet(o.fields) : WellFormed(d.expression)
    [] o.op = "aggregate" ->
         /\ IsSequence(o.groupBy) /\ IsSequence(o.measures) /\ DistinctNames(o.measures)
         /\ \A m \in ToSet(o.measures) :
              m.op \in {"count_rows", "count_distinct", "sum", "average", "min", "max"}
    [] o.op = "sort" ->
         /\ IsSequence(o.orderBy)
         /\ \A k \in ToSet(o.orderBy) : k.direction \in {"asc", "desc"} /\ k.nulls \in {"first", "last"}
         /\ o.limit = None \/ o.limit \in 1 .. maximumTopK
    [] o.op = "union" -> TRUE
    [] o.op = "join" -> o.type \in {"inner", "left"} /\ IsSequence(o.keys)
    [] o.op = "output" -> IsSequence(o.fields)
    [] OTHER -> FALSE

IsShape(shape) == \A f \in DOMAIN shape : shape[f] \in [type : Types, nullable : BOOLEAN]

\* A row of a shape: a field is only null, or missing, where the shape says
\* that it may be.
Fits(row, shape) ==
  /\ DOMAIN row \subseteq DOMAIN shape
  /\ \A f \in DOMAIN row : row[f] \in ValuesOf(shape[f].type) \union {None}
  /\ \A f \in DOMAIN shape : Value(row, f) = None => shape[f].nullable

\* A source answers by its schema, and a row without a field it declares is refused.
IsTable(table) ==
  /\ IsShape(table.shape)
  /\ IsSequence(table.rows)
  /\ \A row \in ToSet(table.rows) : Fits(row, table.shape) /\ DOMAIN row = DOMAIN table.shape

ASSUME ConfigsAssumption == \A o \in Configs : WellConfigured(o)
ASSUME TablesAssumption == \A table \in Tables : IsTable(table)
ASSUME MaxStepsAssumption == MaxSteps \in Nat

VARIABLES
  compiled, \* the shape the compiler derived
  runtime,  \* the shape the execution derived
  rows,
  status,   \* "running", "threw" or, after the output, "done"
  steps,
  last,     \* auxiliary: the node that ran last
  before    \* auxiliary: its inputs

dagVars == <<compiled, runtime, rows, status, steps, last, before>>

DagInit ==
  /\ \E table \in Tables : compiled = table.shape /\ runtime = table.shape /\ rows = table.rows
  /\ status = "running"
  /\ steps = 0
  /\ last = None
  /\ before = [left |-> <<>>, right |-> <<>>, shape |-> <<>>]

\* Node o was compiled to a shape; executing it gives a runtime shape and a
\* result, or throws.
Runs(o, shape, runtimeShape, result, left, right) ==
  /\ shape # Invalid
  /\ compiled' = shape
  /\ IF result = Throws
     THEN status' = "threw" /\ UNCHANGED <<runtime, rows>>
     ELSE /\ status' = IF o.op = "output" THEN "done" ELSE "running"
          /\ runtime' = runtimeShape
          /\ rows' = result
  /\ steps' = steps + 1
  /\ last' = o
  /\ before' = [left |-> left, right |-> right, shape |-> runtime]

May(op) == {o \in Configs : /\ o.op = op
                            /\ status = "running"
                            /\ op = "output" \/ steps < MaxSteps}

Filter == \E o \in May("filter") :
  Runs(o, IF ValidPredicate(o.predicate, compiled) THEN compiled ELSE Invalid, runtime,
       FilterRows(o.predicate, rows, runtime), rows, <<>>)

Select == \E o \in May("select") :
  LET inferred == InferExpression(o.expression, compiled)
  IN  Runs(o, IF inferred # Invalid /\ inferred.type = "boolean" THEN compiled ELSE Invalid,
           runtime, FilterByExpression(o.expression, rows, runtime), rows, <<>>)

Map == \E o \in May("map") :
  Runs(o, MapShape(o, compiled), MapShape(o, runtime), MapRows(o, rows, runtime), rows, <<>>)

Aggregate == \E o \in May("aggregate") :
  Runs(o, AggregateShape(o, compiled), AggregateShape(o, runtime),
       AggregateRows(o, rows, runtime), rows, <<>>)

Sort == \E o \in May("sort") :
  Runs(o, SortShape(o, compiled), runtime, SortRows(o, rows, runtime), rows, <<>>)

\* The rows so far are the left input or the right one.
Union == \E o \in May("union"), table \in Tables :
  \/ Runs(o, UnionShape(o, compiled, table.shape), UnionRuntimeShape(o, runtime),
          UnionRows(o, rows, table.rows), rows, table.rows)
  \/ Runs(o, UnionShape(o, table.shape, compiled), UnionRuntimeShape(o, table.shape),
          UnionRows(o, table.rows, rows), table.rows, rows)

Join == \E o \in May("join"), table \in Tables :
  \/ Runs(o, JoinShape(o, compiled, table.shape), JoinRuntimeShape(o, runtime, table.shape),
          JoinRows(o, rows, table.rows), rows, table.rows)
  \/ Runs(o, JoinShape(o, table.shape, compiled), JoinRuntimeShape(o, table.shape, runtime),
          JoinRows(o, table.rows, rows), table.rows, rows)

Output == \E o \in May("output") :
  Runs(o, OutputShape(o, compiled), OutputShape(o, runtime), OutputRows(o, rows), rows, <<>>)

DagNext == Filter \/ Select \/ Map \/ Aggregate \/ Sort \/ Union \/ Join \/ Output

DagSpec == DagInit /\ [][DagNext]_dagVars

-----------------------------------------------------------------------------
(* Properties *)

JoinKeys == UNION {RightKeys(o) : o \in {c \in Configs : c.op = "join"}}

\* A join drops its right keys from what it adds where the left row has fields
\* of these names, and the compiler where the left shape has them.  A declared
\* field of such a name is in every row.
JoinKeysAreThere ==
  status = "running" =>
    \A i \in DOMAIN rows : \A f \in JoinKeys : f \in DOMAIN compiled => f \in DOMAIN rows[i]

\* No join gives a field it adds the name of a right key.
NamesApart == \A o \in Configs : o.op = "join" => \A f : Prefixed(o, f) \notin JoinKeys

\* The execution and the compiler agree on the names and the types of the
\* fields, no row has a field that is not declared, and a field is only null,
\* or missing, where the compiled shape says that it may be: what the published
\* schema promises to be there is there.
RowsFitTheirShape ==
  /\ status \in {"running", "threw", "done"}
  /\ steps \in 0 .. MaxSteps + 1
  /\ status # "threw" =>
       /\ DOMAIN runtime = DOMAIN compiled
       /\ \A f \in DOMAIN compiled : runtime[f].type = compiled[f].type
       /\ \A row \in ToSet(rows) :
            /\ DOMAIN row \subseteq DOMAIN compiled
            /\ \A f \in DOMAIN compiled :
                 Value(row, f) = None => compiled[f].nullable

Ran(op) == status # "threw" /\ last # None /\ last.op = op

\* The count a measure of the groups reports, summed up.
Counted(name) ==
  LET Count[n \in 0 .. Len(rows)] ==
        IF n = 0 THEN 0 ELSE Count[n - 1] + rows[n][name].c
  IN  Count[Len(rows)]

\* No row is lost or counted twice: every row of an aggregate's input is
\* in the group of exactly one output row, and the counts and sums of the
\* groups add up; a union has the rows of both inputs; a left join has each
\* left row once, with its own values; an inner join drops a left row only if
\* no right row has its key.
RowsAreAccountedFor ==
  /\ Ran("aggregate") =>
       /\ \A row \in ToSet(before.left) :
            Cardinality({n \in DOMAIN rows : GroupKey(last, rows[n]) = GroupKey(last, row)}) = 1
       /\ \A m \in ToSet(last.measures) :
            /\ m.op = "count_rows" => Counted(m.name) = Len(before.left)
            /\ m.op = "sum" =>
                 CompareSemanticValues("decimal", DecimalSum(Given(rows, m.name)),
                                       DecimalSum(Given(before.left, m.field))) = 0
  /\ Ran("union") => Len(rows) = Len(before.left) + Len(before.right)
  /\ Ran("join") =>
       /\ \A row \in ToSet(rows) : \E l \in ToSet(before.left) :
            \A f \in DOMAIN l : f \in DOMAIN row /\ row[f] = l[f]
       /\ last.type = "left" => Len(rows) = Len(before.left)
       /\ \A i \in DOMAIN before.left :
            Matches(last, before.left[i], before.right) # {} =>
              \E row \in ToSet(rows) : LeftKey(last, row) = LeftKey(last, before.left[i])

\* Row i of a sort's input belongs before row j.
Precedes(i, j) ==
  LET V(n, key) == Value(before.left[n], key.field)
      Less(key, n, m) ==
        CompareSemanticValues(before.shape[key.field].type, V(n, key), V(m, key)) < 0
      Same(key) == \/ V(i, key) = None /\ V(j, key) = None
                   \/ /\ V(i, key) # None /\ V(j, key) # None
                      /\ ~Less(key, i, j) /\ ~Less(key, j, i)
      Earlier(key) ==
        \/ V(i, key) = None /\ V(j, key) # None /\ key.nulls = "first"
        \/ V(i, key) # None /\ V(j, key) = None /\ key.nulls = "last"
        \/ /\ V(i, key) # None /\ V(j, key) # None
           /\ IF key.direction = "asc" THEN Less(key, i, j) ELSE Less(key, j, i)
  IN  \/ \E k \in DOMAIN last.orderBy :
           /\ Earlier(last.orderBy[k])
           /\ \A m \in 1 .. k - 1 : Same(last.orderBy[m])
      \/ i < j /\ \A k \in DOMAIN last.orderBy : Same(last.orderBy[k])

\* Top K is the beginning of the complete sort, with nulls where they were
\* asked for in either direction and equal rows in the order of the input: the
\* heap changes nothing.
SortKeepsTheTop ==
  Ran("sort") =>
    /\ Len(rows) = IF last.limit # None /\ last.limit < Len(before.left)
                   THEN last.limit ELSE Len(before.left)
    /\ \A n \in DOMAIN rows : \E i \in DOMAIN before.left :
         /\ rows[n] = before.left[i]
         /\ Cardinality({j \in DOMAIN before.left \ {i} : Precedes(j, i)}) = n - 1

\* A quotient is the multiple of the last place nearest to the exact one, a
\* tie is even; an average has Places more than its values and is within half
\* a unit of the last one.
RoundingIsNearest ==
  /\ Ran("map") =>
       \A d \in ToSet(last.fields), i \in DOMAIN rows :
         d.expression.op = "safe_divide" /\ rows[i][d.name] # None =>
           LET x == Evaluate(d.expression.inputs[1], before.left[i], before.shape)
               y == Evaluate(d.expression.inputs[2], before.left[i], before.shape)
               units == AlignedCoefficient(rows[i][d.name], Places)
               step == Magnitude(y.c) * PowerOfTen(x.s)
               off == 2 * Magnitude(x.c * PowerOfTen(y.s + Places)
                                      - units * y.c * PowerOfTen(x.s))
           IN  off <= step /\ (off = step => units % 2 = 0)
  /\ Ran("aggregate") =>
       \A m \in ToSet(last.measures), n \in DOMAIN rows :
         m.op = "average" /\ rows[n][m.name] # None =>
           LET values == Given(Group(last, before.left, GroupKey(last, rows[n])), m.field)
               sum == DecimalSum(values)
               average == rows[n][m.name]
               scale == sum.s + average.s
           IN  2 * Magnitude(sum.c * PowerOfTen(average.s)
                               - Len(values) * average.c * PowerOfTen(sum.s))
                     * PowerOfTen(sum.s + Places)
                 <= Len(values) * PowerOfTen(scale)

\* A predicate written as an expression.
Combined(op, list) == IF Len(list) = 1 THEN list[1] ELSE [op |-> op, inputs |-> list]

Written(c, type) ==
  LET Test(op, v) == [op |-> op, inputs |->
        <<[op |-> "field", field |-> c.field],
          [op |-> "literal", valueType |-> type, value |-> v]>>]
      among == Combined("or", [i \in DOMAIN c.values |-> Test("eq", c.values[i])])
  IN  CASE c.operator = "in" -> among
        [] c.operator = "not_in" -> [op |-> "not", inputs |-> <<among>>]
        [] c.operator = "between" ->
             Combined("and", <<Test("gte", c.values[1]), Test("lte", c.values[2])>>)
        [] OTHER -> Test(c.operator, c.values[1])

\* The two forms of a filter agree: a predicate, which takes a comparison with
\* null for false, keeps the rows that the expression does, whose logic has
\* three values.
FilterFormsAgree ==
  Ran("filter") /\ (\A c \in ToSet(last.predicate.conditions) : ~NullCheck(c)) =>
    rows = FilterByExpression(
      Combined(last.predicate.combinator,
        [i \in DOMAIN last.predicate.conditions |->
           LET c == last.predicate.conditions[i]
           IN  Written(c, before.shape[c.field].type)]),
      before.left, before.shape)

\* operators.md: "nullable fields additionally support explicit null checks".
\* A null check the compiler accepted can be executed.
NullChecksRun ==
  last # None /\ last.op = "filter" /\ status = "threw" =>
    \E c \in ToSet(last.predicate.conditions) : ~NullCheck(c)
=============================================================================
