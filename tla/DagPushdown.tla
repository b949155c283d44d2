---------------------------- MODULE DagPushdown ----------------------------
(***************************************************************************)
(* An agent proposes a plan with the query of its source, and says which   *)
(* filters and sorts of the plan that query already performs.  When they   *)
(* are found equivalent they are removed from the plan, and what is left   *)
(* is compiled and executed on the rows the query fetches.                 *)
(*                                                                         *)
(* A query is its where argument, as parsed: fields, which are predicates  *)
(* on a column or objects of predicates on a related entity, and the       *)
(* values of or, lists of such objects.  Names are joined as the code      *)
(* joins them; the suffix of a predicate is its operator.  The other       *)
(* arguments, the variable declarations and the selected fields are left   *)
(* out, and there is one source.  What selects rows is the provider, which *)
(* is modelled from what the code takes for equivalent.                    *)
(*                                                                         *)
(* A definition marked "Slip" is no part of the model: it is the one after *)
(* it with a plausible mistake, for testing the properties.                *)
(***************************************************************************)
EXTENDS DagOperators

CONSTANTS
  Source,         \* the role of the source in a plan
  cursor, windowStart, windowEnd,  \* the variables of a query
  ProviderFields, \* the inspected fields: type, nullable, list, and whether nested
  Plans,          \* what agents propose: plans with their window,
  Queries,        \* queries,
  Pushes,         \* and lists of the nodes a query performs
  Sources,        \* lists of provider rows in the order of their ids
  PageSize,
  Today,          \* the day of the execution
  MaxGroups, MaxPredicates  \* bounds of the comparison

VARIABLES
  proposal, \* indices of a plan, a query and a push list
  stage,    \* "proposed", "refused", "accepted", "reduced", "rejected", "built"
            \* or "answered"
  plan,     \* what is left of the plan
  asked,    \* the provider's rows when the plan is executed
  answer

pushdownVars == <<proposal, stage, plan, asked, answer>>

Proposed == Plans[proposal.plan]
Query == Queries[proposal.query]
Pushed == Pushes[proposal.pushed]

-----------------------------------------------------------------------------
(* The query is one the source can be fetched by, page after page *)

Empty(list) == list = <<>>

\* Fields of an object with the same key.
Same(n, m) == n.name = m.name /\ n.test = m.test

Conflict(n, m) == Same(n, m) /\ (n.values # m.values \/ n.fields # m.fields)

\* Predicates beside an "or" belong to each of its branches.
MergePredicateFields(common, branch) ==
  IF \E n \in ToSet(common), m \in ToSet(branch) : Conflict(n, m) THEN Invalid
  ELSE common \o SelectSeq(branch, LAMBDA m : \A n \in ToSet(common) : ~Same(n, m))

Connective(n) == n.test \in {"and", "or"}

Normalized(w) ==
  IF Len(w.or) # 1 \/ Empty(w.fields) THEN w
  ELSE LET branches == [b \in DOMAIN w.or[1] |-> MergePredicateFields(w.fields, w.or[1][b])]
       IN  IF \/ \E n \in ToSet(w.fields) : Connective(n)
              \/ Len(w.or[1]) \notin 1 .. MaxGroups
              \/ \E b \in DOMAIN branches : branches[b] = Invalid
           THEN Invalid
           ELSE [fields |-> <<>>, or |-> <<branches>>]

Branches(w) == IF Empty(w.or) THEN <<w.fields>> ELSE w.or[1]

BranchesAreBounded(w) ==
  IF Empty(w.or) THEN \A n \in ToSet(w.fields) : ~Connective(n)
  ELSE /\ Len(w.or) = 1 /\ Empty(w.fields)
       /\ Len(w.or[1]) \in 1 .. MaxGroups
       /\ \A fields \in ToSet(w.or[1]) :
            /\ \A n \in ToSet(fields) : ~Connective(n)
            /\ \A i, j \in DOMAIN fields : Same(fields[i], fields[j]) => i = j

\* Only one relation away, and through an object named for a relation.
DepthIsSupported(fields) ==
  \A n \in ToSet(fields) :
    /\ n.test # "object"
    /\ n.test = "child" => \A m \in ToSet(n.fields) : m.test \notin {"object", "child"}

Binds(fields, name, test, variable) ==
  \E n \in ToSet(fields) : n.name = name /\ n.test = test /\ n.values = <<variable>>

\* A window is kept by every branch.
Windowed(fields, window) ==
  window # None =>
    /\ Binds(fields, window.field, "gte", windowStart)
    /\ Binds(fields, window.field, "lt", windowEnd)

QueryIsValid(query) ==
  LET w == Normalized(query.where)
  IN  /\ w # Invalid
      /\ BranchesAreBounded(w)
      /\ \A fields \in ToSet(Branches(w)) :
           /\ DepthIsSupported(fields)
           /\ Binds(fields, "id", "gt", cursor)
           /\ Windowed(fields, query.window)

Cursor(n) == n.name = "id" /\ n.test = "gt"

HasAdditionalPredicates(query) ==
  \E fields \in ToSet(Branches(Normalized(query.where))) :
    \E n \in ToSet(fields) : ~Cursor(n)

-----------------------------------------------------------------------------
(* The predicates of a query: groups of which one must hold *)

Predicate(path, test, values) == <<path, test, values>>

\* What a field of an object says; a null has no literal.
LeafPredicate(n, prefix) ==
  IF n.test \in Comparisons \union {"in", "not_in"} /\ None \notin ToSet(n.values)
  THEN <<Predicate(prefix \o n.name, n.test, n.values)>> ELSE Invalid

AllOrInvalid(lists) ==
  IF \E i \in DOMAIN lists : lists[i] = Invalid THEN Invalid ELSE FlattenSeq(lists)

GraphFields(fields) ==
  AllOrInvalid([i \in DOMAIN fields |->
    LET n == fields[i]
    IN  IF n.test = "child"
        THEN AllOrInvalid([j \in DOMAIN n.fields |-> LeafPredicate(n.fields[j], n.name \o ".")])
        ELSE LeafPredicate(n, "")])

WithoutPaginationCursor(fields) == SelectSeq(fields, LAMBDA n : ~Cursor(n))

\* Slip: the predicates beside an "or" are forgotten.
GraphPredicateGroupsBare(w) ==
  LET objects == Branches(w)
      branches == [b \in DOMAIN objects |-> GraphFields(WithoutPaginationCursor(objects[b]))]
  IN  IF \E b \in DOMAIN branches : branches[b] = Invalid THEN Invalid ELSE branches

\* Without "or", fields that are not understood count as none.
GraphPredicateGroups(w) ==
  LET fields == WithoutPaginationCursor(w.fields)
      common == GraphFields(fields)
      branches == [b \in DOMAIN w.or[1] |-> GraphFields(WithoutPaginationCursor(w.or[1][b]))]
  IN  IF \E n \in ToSet(fields) : Connective(n) THEN Invalid
      ELSE IF Empty(w.or) THEN <<IF common = Invalid THEN <<>> ELSE common>>
      ELSE IF \/ Len(w.or) # 1 \/ common = Invalid
              \/ \E b \in DOMAIN branches : branches[b] = Invalid
      THEN Invalid
      ELSE [b \in DOMAIN branches |-> common \o branches[b]]

-----------------------------------------------------------------------------
(* The predicates of a filter, on the fields the boundary map takes over *)

DirectField(boundary, name) ==
  IF name \in Defined(boundary) /\ DefinitionOf(boundary, name).expression.op = "field"
  THEN DefinitionOf(boundary, name).expression.field ELSE Invalid

\* A nested path needs evidence that it leads to exactly one value.
ProviderField(boundary, name) ==
  LET path == DirectField(boundary, name)
  IN  IF /\ path \in DOMAIN ProviderFields
         /\ ProviderFields[path].nested =>
              ~ProviderFields[path].list /\ ~ProviderFields[path].nullable
      THEN path ELSE Invalid

ConditionFields(c, boundary) ==
  LET path == ProviderField(boundary, c.field)
  IN  IF path = Invalid \/ NullCheck(c) THEN Invalid
      ELSE IF c.operator = "between"
      THEN <<Predicate(path, "gte", <<c.values[1]>>), Predicate(path, "lte", <<c.values[2]>>)>>
      ELSE <<Predicate(path, c.operator, c.values)>>

FilterPredicateGroups(p, boundary) ==
  LET groups == [i \in DOMAIN p.conditions |-> ConditionFields(p.conditions[i], boundary)]
  IN  IF \E i \in DOMAIN groups : groups[i] = Invalid THEN Invalid
      ELSE IF p.combinator = "or" THEN groups ELSE <<FlattenSeq(groups)>>

Reversed(op) ==
  CASE op = "lt" -> "gt" [] op = "lte" -> "gte" [] op = "gt" -> "lt" [] op = "gte" -> "lte"
    [] OTHER -> op

FieldOf(e, boundary) ==
  IF e.op = "field" THEN ProviderField(boundary, e.field) ELSE Invalid

IsLiteral(e) == e.op = "literal" /\ e.value # None

ExpressionComparisonGroups(e, boundary) ==
  IF e.op \notin Comparisons THEN Invalid
  ELSE LET first == e.inputs[1]  second == e.inputs[2]
       IN  CASE FieldOf(first, boundary) # Invalid /\ IsLiteral(second) ->
                  << <<Predicate(FieldOf(first, boundary), e.op, <<second.value>>)>> >>
             [] FieldOf(second, boundary) # Invalid /\ IsLiteral(first) ->
                  << <<Predicate(FieldOf(second, boundary), Reversed(e.op), <<first.value>>)>> >>
             [] OTHER -> Invalid

\* Either of two disjunctions, distributed.
CombineAnd(left, right) ==
  IF left = Invalid \/ right = Invalid \/ Len(left) * Len(right) > MaxGroups THEN Invalid
  ELSE LET groups == FlattenSeq([i \in DOMAIN left |->
                       [j \in DOMAIN right |-> left[i] \o right[j]]])
       IN  IF \E group \in ToSet(groups) : Len(group) > MaxPredicates THEN Invalid ELSE groups

RECURSIVE FilterExpressionGroups(_, _)
FilterExpressionGroups(e, boundary) ==
  IF e.op \notin {"and", "or"} THEN ExpressionComparisonGroups(e, boundary)
  ELSE LET inputs == [i \in DOMAIN e.inputs |-> FilterExpressionGroups(e.inputs[i], boundary)]
           either == AllOrInvalid(inputs)
       IN  IF either = Invalid THEN Invalid
           ELSE IF e.op = "and" THEN FoldLeft(CombineAnd, << <<>> >>, inputs)
           ELSE IF Len(either) > MaxGroups THEN Invalid ELSE either

RelativeWindowGroups(o, boundary, window) ==
  IF /\ window # None
     /\ o.days = window.days
     /\ DirectField(boundary, o.field) = window.field
  THEN << <<Predicate(window.field, "gte", <<windowStart>>),
            Predicate(window.field, "lt", <<windowEnd>>)>> >>
  ELSE Invalid

FilterGroups(o, boundary, window) ==
  CASE o.op = "filter" -> FilterPredicateGroups(o.predicate, boundary)
    [] o.op = "select" -> FilterExpressionGroups(o.expression, boundary)
    [] o.op = "window" -> RelativeWindowGroups(o, boundary, window)

\* Two lists have the same elements, as often: of predicates, and of groups.
SameGroup(g, h) ==
  /\ Len(g) = Len(h)
  /\ \A i \in DOMAIN g : Cardinality({j \in DOMAIN g : g[i] = g[j]})
                           = Cardinality({j \in DOMAIN h : g[i] = h[j]})

SameGroups(s, t) ==
  /\ Len(s) = Len(t)
  /\ \A i \in DOMAIN s : Cardinality({j \in DOMAIN s : SameGroup(s[i], s[j])})
                           = Cardinality({j \in DOMAIN t : SameGroup(s[i], t[j])})

MatchesCompleteFilterPushdown(query, filters, boundary) ==
  LET asks == GraphPredicateGroups(query.where)
      keeps == FoldLeft(LAMBDA groups, o : CombineAnd(groups, FilterGroups(o, boundary, query.window)),
                        << <<>> >>, filters)
  IN  /\ asks # Invalid /\ filters # <<>> /\ keeps # Invalid
      /\ SameGroups(asks, keeps)

-----------------------------------------------------------------------------
(* A plan: nodes by their role, and edges *)

Kind(o) == IF o.op \in {"select", "window"} THEN "filter" ELSE o.op

Into(p, role) == {e \in p.edges : e.to = role}
OutOf(p, role) == {e \in p.edges : e.from = role}

\* The node that feeds a port.
Feeds(p, role, port) == (CHOOSE e \in Into(p, role) : e.port = port).from

Ports(o) == IF o.op \in {"union", "join"} THEN {"left", "right"} ELSE {"rows"}

OutputRole(p) == CHOOSE role \in DOMAIN p.nodes : p.nodes[role].op = "output"

SourceShape ==
  [path \in DOMAIN ProviderFields |->
     Field(ProviderFields[path].type, ProviderFields[path].nullable)]

UnaryShape(o, shape) ==
  IF shape = Invalid THEN Invalid ELSE
  CASE o.op = "filter" -> IF ValidPredicate(o.predicate, shape) THEN shape ELSE Invalid
    [] o.op = "select" ->
         LET inferred == InferExpression(o.expression, shape)
         IN  IF inferred # Invalid /\ inferred.type = "boolean" THEN shape ELSE Invalid
    [] o.op = "window" -> IF o.field \in DOMAIN shape THEN shape ELSE Invalid
    [] o.op = "map" -> MapShape(o, shape)
    [] o.op = "aggregate" -> AggregateShape(o, shape)
    [] o.op = "sort" -> SortShape(o, shape)
    [] o.op = "output" -> OutputShape(o, shape)

\* The shape of what a node returns.  Plans have no cycles.
RECURSIVE ShapeAt(_, _)
ShapeAt(p, role) ==
  IF role = Source THEN SourceShape
  ELSE LET o == p.nodes[role]
           In(port) == ShapeAt(p, Feeds(p, role, port))
       IN  IF Ports(o) = {"rows"} THEN UnaryShape(o, In("rows"))
           ELSE IF In("left") = Invalid \/ In("right") = Invalid THEN Invalid
           ELSE IF o.op = "union" THEN UnionShape(o, In("left"), In("right"))
           ELSE JoinShape(o, In("left"), In("right"))

RECURSIVE Upstream(_, _)
Upstream(p, role) ==
  {role} \union UNION {Upstream(p, e.from) : e \in Into(p, role)}

Boundary(p) == (CHOOSE e \in OutOf(p, Source) : TRUE).to

\* The source feeds nothing but a map that names its fields, every port is fed
\* once, every node contributes, and shapes can be derived to the output.
CompositionIsValid(p) ==
  /\ Cardinality(OutOf(p, Source)) = 1
  /\ p.nodes[Boundary(p)].op = "map" /\ p.nodes[Boundary(p)].mode = "project"
  /\ \A role \in DOMAIN p.nodes :
       /\ {e.port : e \in Into(p, role)} = Ports(p.nodes[role])
       /\ Cardinality(Into(p, role)) = Cardinality(Ports(p.nodes[role]))
  /\ Cardinality({role \in DOMAIN p.nodes : p.nodes[role].op = "output"}) = 1
  /\ Upstream(p, OutputRole(p)) = DOMAIN p.nodes \union {Source}
  /\ ShapeAt(p, OutputRole(p)) # Invalid

\* The agent's plan has no node feed another one twice: its ports are counted,
\* but its neighbours are a set.
NeighboursAreCountedOnce(p) ==
  \A e, f \in p.edges : e.from = f.from /\ e.to = f.to => e = f

-----------------------------------------------------------------------------
(* What may be pushed, and what is left then *)

RECURSIVE PushdownReachable(_, _)
PushdownReachable(p, role) ==
  IF Kind(p.nodes[role]) \notin {"map", "filter", "sort"} THEN {}
  ELSE {role} \union UNION {PushdownReachable(p, e.to) : e \in OutOf(p, role)}

\* The order the pages come in.
IsProviderOrder(o, boundary) ==
  /\ Len(o.orderBy) = 1
  /\ o.orderBy[1].direction = "asc"
  /\ o.limit = None
  /\ DirectField(boundary, o.orderBy[1].field) = "id"

PushIsPermitted(p, push) ==
  /\ push.operator # "map"
  /\ push.role \in DOMAIN p.nodes
  /\ Kind(p.nodes[push.role]) = push.operator
  /\ push.role \in PushdownReachable(p, Boundary(p))
  /\ push.operator = "sort" => IsProviderOrder(p.nodes[push.role], p.nodes[Boundary(p)])

PushedFilters(p, pushes) ==
  LET filters == SelectSeq(pushes, LAMBDA push : push.operator = "filter")
  IN  [i \in DOMAIN filters |-> p.nodes[filters[i].role]]

\* The query fetches the window that was asked for, if any.
SameWindow(p, query) ==
  IF p.window = None \/ query.window = None THEN p.window = None /\ query.window = None
  ELSE p.window = query.window.days

Feasible(p, query, pushes) ==
  /\ QueryIsValid(query)
  /\ SameWindow(p, query)
  /\ p.nodes[Boundary(p)].op = "map"
  /\ \A push \in ToSet(pushes) : PushIsPermitted(p, push)
  /\ \A i, j \in DOMAIN pushes : pushes[i].role = pushes[j].role => i = j
  /\ HasAdditionalPredicates(query) <=> ~Empty(PushedFilters(p, pushes))
  /\ ~Empty(PushedFilters(p, pushes)) =>
       MatchesCompleteFilterPushdown(query, PushedFilters(p, pushes), p.nodes[Boundary(p)])
  /\ CompositionIsValid(p)
  /\ NeighboursAreCountedOnce(p)

RemoveUnaryNode(p, role) ==
  IF Cardinality({e \in Into(p, role) : e.port = "rows"}) # 1 THEN p
  ELSE [p EXCEPT !.nodes = [r \in DOMAIN @ \ {role} |-> @[r]],
                 !.edges = {e \in @ : role \notin {e.from, e.to}}
                   \union {[e EXCEPT !.from = Feeds(p, role, "rows")] : e \in OutOf(p, role)}]

Residual(p, pushes) ==
  FoldLeft(LAMBDA left, push : RemoveUnaryNode(left, push.role), p, pushes)

-----------------------------------------------------------------------------
(* Fetching the rows *)

WindowFrom(days) == Integer(Today - days)
WindowTo == Integer(Today)

\* A predicate does not hold of null.
RowSatisfies(row, path, n, after, window) ==
  LET Resolved(v) == CASE v = cursor -> after
                       [] v = windowStart -> WindowFrom(window.days)
                       [] v = windowEnd -> WindowTo
                       [] OTHER -> v
      Compared(v) == CompareSemanticValues(ProviderFields[path].type, row[path], Resolved(v))
  IN  /\ row[path] # None
      /\ CASE n.test = "in" -> \E v \in ToSet(n.values) : Compared(v) = 0
           [] n.test = "not_in" -> \A v \in ToSet(n.values) : Compared(v) # 0
           [] OTHER -> Holds(n.test, Compared(n.values[1]))

Selects(row, fields, after, window) ==
  \A n \in ToSet(fields) :
    IF n.test = "child"
    THEN \A m \in ToSet(n.fields) : RowSatisfies(row, n.name \o "." \o m.name, m, after, window)
    ELSE RowSatisfies(row, n.name, n, after, window)

WhereSelects(row, w, after, window) ==
  /\ Selects(row, w.fields, after, window)
  /\ ~Empty(w.or) => \E fields \in ToSet(w.or[1]) : Selects(row, fields, after, window)

\* The ceilings of a fetch are left out.
RECURSIVE FetchedRows(_, _, _)
FetchedRows(query, provided, after) ==
  LET found == SelectSeq(provided, LAMBDA row :
                 WhereSelects(row, Normalized(query.where), after, query.window))
      page == SubSeq(found, 1, IF Len(found) < PageSize THEN Len(found) ELSE PageSize)
  IN  IF Len(page) < PageSize THEN page
      ELSE page \o FetchedRows(query, provided, page[Len(page)].id)

-----------------------------------------------------------------------------
(* Executing a plan *)

\* A window keeps the complete days; null is in none.
WithinWindow(o, row) ==
  LET v == row[o.field]
  IN  /\ v # None
      /\ CompareSemanticValues("integer", v, WindowFrom(o.days)) >= 0
      /\ CompareSemanticValues("integer", v, WindowTo) < 0

UnaryResult(o, in) ==
  CASE o.op = "filter" -> [in EXCEPT !.rows = FilterRows(o.predicate, in.rows, in.shape)]
    [] o.op = "select" -> [in EXCEPT !.rows = FilterByExpression(o.expression, in.rows, in.shape)]
    [] o.op = "window" -> [in EXCEPT !.rows = SelectSeq(in.rows, LAMBDA row : WithinWindow(o, row))]
    [] o.op = "map" -> [shape |-> MapShape(o, in.shape), rows |-> MapRows(o, in.rows, in.shape)]
    [] o.op = "aggregate" -> [shape |-> AggregateShape(o, in.shape),
                              rows |-> AggregateRows(o, in.rows, in.shape)]
    [] o.op = "sort" -> [in EXCEPT !.rows = SortRows(o, in.rows, in.shape)]
    [] o.op = "output" -> [shape |-> OutputShape(o, in.shape), rows |-> OutputRows(o, in.rows)]

BinaryResult(o, left, right) ==
  CASE o.op = "union" -> [shape |-> UnionRuntimeShape(o, left.shape),
                          rows |-> UnionRows(o, left.rows, right.rows)]
    [] o.op = "join" -> [shape |-> JoinRuntimeShape(o, left.shape, right.shape),
                         rows |-> JoinRows(o, left.rows, right.rows)]

RECURSIVE ResultAt(_, _, _)
ResultAt(p, role, fetched) ==
  IF role = Source THEN [shape |-> SourceShape, rows |-> fetched]
  ELSE LET o == p.nodes[role]
           inputs == [port \in Ports(o) |-> ResultAt(p, Feeds(p, role, port), fetched)]
       IN  IF \E port \in Ports(o) : inputs[port].rows = Throws
           THEN [shape |-> Invalid, rows |-> Throws]
           ELSE IF Ports(o) = {"rows"} THEN UnaryResult(o, inputs["rows"])
           ELSE BinaryResult(o, inputs["left"], inputs["right"])

Answer(p, fetched) == ResultAt(p, OutputRole(p), fetched).rows

-----------------------------------------------------------------------------
(* From the proposal to the answer *)

PushdownInit ==
  /\ proposal \in [plan : DOMAIN Plans, query : DOMAIN Queries, pushed : DOMAIN Pushes]
  /\ stage = "proposed"
  /\ plan = Proposed
  /\ asked = None
  /\ answer = None

Validate ==
  /\ stage = "proposed"
  /\ stage' = IF Feasible(Proposed, Query, Pushed) THEN "accepted" ELSE "refused"
  /\ UNCHANGED <<proposal, plan, asked, answer>>

Reduce ==
  /\ stage = "accepted"
  /\ stage' = "reduced"
  /\ plan' = Residual(plan, Pushed)
  /\ UNCHANGED <<proposal, asked, answer>>

\* The compiler knows no filter by a window.
Compile ==
  /\ stage = "reduced"
  /\ stage' = IF /\ \A role \in DOMAIN plan.nodes : plan.nodes[role].op # "window"
                 /\ CompositionIsValid(plan)
              THEN "built" ELSE "rejected"
  /\ UNCHANGED <<proposal, plan, asked, answer>>

Execute ==
  /\ stage = "built"
  /\ stage' = "answered"
  /\ asked' \in ToSet(Sources)
  /\ answer' = Answer(plan, FetchedRows(Query, asked', Integer(0)))
  /\ UNCHANGED <<proposal, plan>>

PushdownNext == Validate \/ Reduce \/ Compile \/ Execute

PushdownSpec == PushdownInit /\ [][PushdownNext]_pushdownVars

-----------------------------------------------------------------------------
(* Properties *)

\* README.md of the DAG: "removes only the exactly equivalent Filter or Sort
\* work".  An execution answers what the proposed plan says of all the rows of
\* the provider, unless that plan throws on one of them.
PushdownKeepsTheAnswer ==
  stage = "answered" => Answer(Proposed, asked) \in {answer, Throws}

\* The nodes between the source and a node of a chain.
RECURSIVE Before(_, _)
Before(p, role) ==
  IF role = Boundary(p) THEN {}
  ELSE LET previous == Feeds(p, role, "rows") IN {previous} \union Before(p, previous)

RECURSIVE Mentioned(_)
Mentioned(e) ==
  CASE e.op = "field" -> {e.field}
    [] e.op = "literal" -> {}
    [] OTHER -> UNION {Mentioned(input) : input \in ToSet(e.inputs)}

Reads(o) ==
  CASE o.op = "filter" -> {c.field : c \in ToSet(o.predicate.conditions)}
    [] o.op = "select" -> Mentioned(o.expression)
    [] o.op = "window" -> {o.field}
    [] o.op = "sort" -> {key.field : key \in ToSet(o.orderBy)}

\* What node o reads is what the boundary map wrote, of every row and for no
\* other node.
Undisturbed(p, pushes, role) ==
  \A r \in Before(p, role) :
    /\ Cardinality(OutOf(p, r)) = 1
    /\ p.nodes[r].op = "sort" =>
         IF p.nodes[role].op = "sort" THEN r \in {push.role : push \in ToSet(pushes)}
         ELSE p.nodes[r].limit = None
    /\ p.nodes[r].op = "map" /\ r # Boundary(p) =>
         \A f \in Reads(p.nodes[role]) :
           IF f \in Defined(p.nodes[r]) THEN DirectField(p.nodes[r], f) = f
           ELSE p.nodes[r].mode = "extend"

\* Where nothing between the source and a removed node selects, renames or
\* shares rows, the answer is kept: the groups of predicates are compared
\* rightly whatever the form of the query and of the filters, and pages lose
\* nothing in any branch.
ChainedPushdownKeepsTheAnswer ==
  /\ stage = "answered"
  /\ \A push \in ToSet(Pushed) : Undisturbed(Proposed, Pushed, push.role)
  => PushdownKeepsTheAnswer
=============================================================================
