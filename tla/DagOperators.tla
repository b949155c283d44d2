---------------------------- MODULE DagOperators ----------------------------
(***************************************************************************)
(* The operators of a data DAG, on rows and on the shapes of rows.         *)
(*                                                                         *)
(* A shape is derived twice: by the compiler, which accepts or rejects a   *)
(* node, and by executeLivePlan, which interprets the rows under it.       *)
(*                                                                         *)
(* A row gives names their values: a name it lacks is undefined, which the *)
(* code treats as null wherever it does not insist on the property.        *)
(* Configurations have the form the compiler asks for; what it rejects     *)
(* here depends on the shapes.                                             *)
(*                                                                         *)
(* A definition marked "Slip" is no part of the model: it is the one after *)
(* it with a plausible mistake, for testing the properties.                *)
(***************************************************************************)
EXTENDS DagExpressions, FiniteSets, SequencesExt

\* The elements of a list at some places, in their order.
Picked(list, places) ==
  [n \in 1 .. Cardinality(places) |->
     list[CHOOSE i \in places : Cardinality({j \in places : j < i}) = n - 1]]

\* What f maps, and what g maps else.
Over(f, g) == [x \in DOMAIN f \union DOMAIN g |-> IF x \in DOMAIN f THEN f[x] ELSE g[x]]

Value(row, f) == IF f \in DOMAIN row THEN row[f] ELSE None

\* All results, or the exception one of them is.
Attempt(results) ==
  IF \E i \in DOMAIN results : results[i] = Throws THEN Throws ELSE results

\* The rows whose verdict is to keep them; a verdict may be that the test threw.
Keeping(list, verdicts) ==
  IF \E i \in DOMAIN list : verdicts[i] = Throws THEN Throws
  ELSE Picked(list, {i \in DOMAIN list : verdicts[i]})

-----------------------------------------------------------------------------
(* Filter *)

NullCheck(c) == c.operator \in {"is_null", "is_not_null"}

FilterOperators(field) ==
  {"eq", "ne"}
    \union (IF field.type = "boolean" THEN {} ELSE {"in", "not_in"})
    \union (IF field.type \in Numeric THEN {"lt", "lte", "gt", "gte", "between"} ELSE {})
    \union (IF field.nullable THEN {"is_null", "is_not_null"} ELSE {})

ValidCondition(c, shape) ==
  /\ c.field \in DOMAIN shape
  /\ c.operator \in FilterOperators(shape[c.field])
  /\ \A v \in ToSet(c.values) :
       /\ v \in ValuesOf(shape[c.field].type)
       /\ CompareSemanticValues(shape[c.field].type, v, v) # Throws

ValidPredicate(p, shape) == \A c \in ToSet(p.conditions) : ValidCondition(c, shape)

\* A comparison throws because of the row's value: the literals were checked.
EvaluateCondition(row, c, type) ==
  LET actual == Value(row, c.field)
      Comparison(i) == CompareSemanticValues(type, actual, c.values[i])
      matched == \E i \in DOMAIN c.values : Comparison(i) = 0
      compared ==
        CASE c.operator = "in" -> matched
          [] c.operator = "not_in" -> ~matched
          [] c.operator = "between" -> Comparison(1) >= 0 /\ Comparison(2) <= 0
          [] OTHER -> Holds(c.operator, Comparison(1))
  IN  IF c.field \notin DOMAIN row THEN Throws
      ELSE IF NullCheck(c) THEN (c.operator = "is_null") = (actual = None)
      ELSE IF actual = None THEN FALSE
      ELSE IF CompareSemanticValues(type, actual, actual) = Throws THEN Throws
      ELSE compared

EvaluatePredicate(p, row, shape) ==
  LET results == Attempt([i \in DOMAIN p.conditions |->
        EvaluateCondition(row, p.conditions[i], shape[p.conditions[i].field].type)])
  IN  IF results = Throws THEN Throws
      ELSE IF p.combinator = "and" THEN \A i \in DOMAIN results : results[i]
      ELSE \E i \in DOMAIN results : results[i]

FilterRows(p, list, shape) ==
  IF ~ValidPredicate(p, shape) THEN Throws
  ELSE Keeping(list, [i \in DOMAIN list |-> EvaluatePredicate(p, list[i], shape)])

\* A filter by an expression keeps the rows it is true for.
FilterByExpression(e, list, shape) ==
  IF list # <<>> /\ InferExpression(e, shape) = Invalid THEN Throws
  ELSE Keeping(list, [i \in DOMAIN list |->
         LET v == Evaluate(e, list[i], shape) IN IF v = Throws THEN Throws ELSE v = TRUE])

-----------------------------------------------------------------------------
(* Map *)

\* The fields of a map have distinct names.
DefinitionOf(o, f) == CHOOSE d \in ToSet(o.fields) : d.name = f

Defined(o) == {d.name : d \in ToSet(o.fields)}

MapShape(o, shape) ==
  IF \E d \in ToSet(o.fields) : InferExpression(d.expression, shape) = Invalid THEN Invalid
  ELSE [f \in Defined(o) \union (IF o.mode = "extend" THEN DOMAIN shape ELSE {}) |->
          IF f \in Defined(o) THEN InferExpression(DefinitionOf(o, f).expression, shape)
          ELSE shape[f]]

\* Every expression is evaluated on the row before.
MapRow(o, row, shape) ==
  LET made == [f \in Defined(o) |-> Evaluate(DefinitionOf(o, f).expression, row, shape)]
  IN  IF \E f \in Defined(o) : made[f] = Throws THEN Throws
      ELSE [f \in Defined(o) \union (IF o.mode = "extend" THEN DOMAIN row ELSE {}) |->
              IF f \in Defined(o) THEN made[f] ELSE row[f]]

MapRows(o, list, shape) ==
  IF MapShape(o, shape) = Invalid THEN Throws
  ELSE Attempt([i \in DOMAIN list |-> MapRow(o, list[i], shape)])

-----------------------------------------------------------------------------
(* Aggregate *)

MeasureField(m, shape) ==
  CASE m.op \in {"count_rows", "count_distinct"} -> Field("integer", FALSE)
    [] m.op = "average" -> Field("decimal", shape[m.field].nullable)
    [] OTHER -> shape[m.field]

ValidMeasure(m, shape) ==
  m.op # "count_rows" =>
    /\ m.field \in DOMAIN shape
    /\ m.op \in {"sum", "average"} => shape[m.field].type \in Numeric

AggregateShape(o, shape) ==
  IF /\ ToSet(o.groupBy) \subseteq DOMAIN shape
     /\ \A m \in ToSet(o.measures) : ValidMeasure(m, shape) /\ m.name \notin ToSet(o.groupBy)
  THEN [f \in ToSet(o.groupBy) \union {m.name : m \in ToSet(o.measures)} |->
          IF f \in ToSet(o.groupBy) THEN shape[f]
          ELSE MeasureField(CHOOSE m \in ToSet(o.measures) : m.name = f, shape)]
  ELSE Invalid

\* Rows fall into groups by the text of their keys, in which undefined is null.
GroupKey(o, row) == [i \in DOMAIN o.groupBy |-> Value(row, o.groupBy[i])]

DecimalPlus(a, b) ==
  LET scale == Wider(a, b)
  IN  [c |-> AlignedCoefficient(a, scale) + AlignedCoefficient(b, scale), s |-> scale]

DecimalSum(values) ==
  LET Sum[n \in 0 .. Len(values)] ==
        IF n = 0 THEN Integer(0) ELSE DecimalPlus(Sum[n - 1], values[n])
  IN  Sum[Len(values)]

DivideDecimal(v, d) ==
  DecimalText(AverageQuotient(v.c * PowerOfTen(Places), d), v.s + Places)

\* The first of the least, or of the greatest.
Better(op, a, b, type) ==
  LET comparison == IF a = Throws THEN Throws ELSE CompareSemanticValues(type, b, a)
  IN  IF comparison = Throws THEN Throws
      ELSE IF (op = "min" /\ comparison < 0) \/ (op = "max" /\ comparison > 0) THEN b
      ELSE a

Extreme(op, values, type) ==
  LET Best[n \in 1 .. Len(values)] ==
        IF n = 1 THEN values[1] ELSE Better(op, Best[n - 1], values[n], type)
  IN  Best[Len(values)]

\* The values of a field that are none of them null.
Given(group, f) ==
  Picked([i \in DOMAIN group |-> Value(group[i], f)],
         {i \in DOMAIN group : Value(group[i], f) # None})

Measured(m, group, shape) ==
  LET values == Given(group, m.field)
      sum == DecimalSum(values)
  IN  CASE m.op = "count_rows" -> Integer(Len(group))
        [] m.op = "count_distinct" -> Integer(Cardinality(ToSet(values)))
        [] m.op = "sum" -> DecimalText(sum.c, sum.s)
        [] m.op = "average" -> IF values = <<>> THEN None ELSE DivideDecimal(sum, Len(values))
        [] m.op \in {"min", "max"} ->
             IF values = <<>> THEN None ELSE Extreme(m.op, values, shape[m.field].type)

GroupRow(o, group, shape) ==
  LET made == [f \in {m.name : m \in ToSet(o.measures)} |->
                 Measured(CHOOSE m \in ToSet(o.measures) : m.name = f, group, shape)]
  IN  IF \E f \in DOMAIN made : made[f] = Throws THEN Throws
      ELSE Over([f \in ToSet(o.groupBy) |-> Value(group[1], f)], made)

\* Slip: a row with an empty key belongs to no group.
GroupKeysPresent(o, list) ==
  LET keys == [i \in DOMAIN list |-> GroupKey(o, list[i])]
  IN  Picked(keys, {i \in DOMAIN list : /\ \A j \in 1 .. i - 1 : keys[j] # keys[i]
                                        /\ \A f \in DOMAIN keys[i] : keys[i][f] # None})

\* Groups come in the order of their first rows.
GroupKeys(o, list) ==
  LET keys == [i \in DOMAIN list |-> GroupKey(o, list[i])]
  IN  Picked(keys, {i \in DOMAIN list : \A j \in 1 .. i - 1 : keys[j] # keys[i]})

Group(o, list, key) == Picked(list, {i \in DOMAIN list : GroupKey(o, list[i]) = key})

AggregateRows(o, list, shape) ==
  LET keys == GroupKeys(o, list)
  IN  Attempt([k \in DOMAIN keys |-> GroupRow(o, Group(o, list, keys[k]), shape)])

-----------------------------------------------------------------------------
(* Sort *)

SortShape(o, shape) ==
  IF \A k \in ToSet(o.orderBy) : k.field \in DOMAIN shape THEN shape ELSE Invalid

CompareByKey(a, b, key, field) ==
  LET x == Value(a, key.field)  y == Value(b, key.field)
      missing == key.field \notin DOMAIN a \intersect DOMAIN b
      comparison == CompareSemanticValues(field.type, x, y)
  IN  IF missing \/ (~field.nullable /\ (x = None \/ y = None)) THEN Throws
      ELSE IF x = None /\ y = None THEN 0
      ELSE IF x = None \/ y = None THEN IF (x = None) = (key.nulls = "first") THEN -1 ELSE 1
      ELSE IF comparison = Throws \/ key.direction = "asc" THEN comparison
      ELSE -comparison

\* The first key that tells two rows apart decides; then the place in the input.
CompareRows(a, b, order) ==
  LET By(k) == CompareByKey(a.row, b.row, order.by[k], order.shape[order.by[k].field])
      telling == {k \in DOMAIN order.by : By(k) # 0}
  IN  IF telling = {} THEN a.inputIndex - b.inputIndex ELSE By(FirstOf(telling))

Worse(a, b, order) == CompareRows(a, b, order) > 0

Swapped(heap, i, j) == [heap EXCEPT ![i] = heap[j], ![j] = heap[i]]

\* The heap has its worst row on top.  A row moves by one swap at a time.
Moved(s, to) == [heap |-> Swapped(s.heap, s.at, to), at |-> to]

SiftUp(heap, start, order) ==
  LET Sift[n \in 0 .. Len(heap)] ==
        IF n = 0 THEN [heap |-> heap, at |-> start]
        ELSE LET s == Sift[n - 1]  parent == s.at \div 2
             IN  IF s.at = 1 \/ ~Worse(s.heap[s.at], s.heap[parent], order) THEN s
                 ELSE Moved(s, parent)
  IN  Sift[Len(heap)].heap

PushHeap(heap, item, order) == SiftUp(Append(heap, item), Len(heap) + 1, order)

\* Slip: a row that has come to rest on top of one child stays there.
WorstLeft(heap, i, order) ==
  IF 2 * i <= Len(heap) /\ Worse(heap[2 * i], heap[i], order) THEN 2 * i ELSE i

\* The worst of a place and the two below it.
Worst(heap, i, order) ==
  LET left == 2 * i
      half == IF left <= Len(heap) /\ Worse(heap[left], heap[i], order) THEN left ELSE i
  IN  IF left < Len(heap) /\ Worse(heap[left + 1], heap[half], order) THEN left + 1 ELSE half

SiftDown(heap, start, order) ==
  LET Sift[n \in 0 .. Len(heap)] ==
        IF n = 0 THEN [heap |-> heap, at |-> start]
        ELSE LET s == Sift[n - 1] IN Moved(s, Worst(s.heap, s.at, order))
  IN  Sift[Len(heap)].heap

\* A row is kept in a heap that has room, or in place of a worse one.
Keep(heap, item, limit, order) ==
  IF Len(heap) < limit THEN PushHeap(heap, item, order)
  ELSE IF Worse(heap[1], item, order) THEN SiftDown([heap EXCEPT ![1] = item], 1, order)
  ELSE heap

TopK(decorated, limit, order) ==
  LET Kept[n \in 0 .. Len(decorated)] ==
        IF n = 0 THEN <<>> ELSE Keep(Kept[n - 1], decorated[n], limit, order)
  IN  Kept[Len(decorated)]

InOrder(items, order) ==
  [n \in 1 .. Cardinality(items) |->
     CHOOSE item \in items :
       Cardinality({other \in items \ {item} : Worse(item, other, order)}) = n - 1]

Undecorated(items) == [n \in DOMAIN items |-> items[n].row]

\* Two rows that cannot be compared stop the sort; that the code might not come
\* to compare just these two is left out.
SortRows(o, list, shape) ==
  LET decorated == [i \in DOMAIN list |-> [row |-> list[i], inputIndex |-> i]]
      order == [by |-> o.orderBy, shape |-> shape]
      kept == IF o.limit = None \/ o.limit >= Len(list) THEN decorated
              ELSE TopK(decorated, o.limit, order)
      sorted == InOrder(ToSet(kept), order)
  IN  IF \E a, b \in ToSet(decorated) : a # b /\ CompareRows(a, b, order) = Throws
      THEN Throws
      ELSE Undecorated(sorted)

-----------------------------------------------------------------------------
(* Union *)

\* Texts of the discriminator.
LeftText == 1
RightText == 2

\* The fields of a union, and the one that tells where a row comes from.
WithDiscriminator(o, fields, mark) ==
  IF o.discriminator = None THEN fields ELSE Over([f \in {o.discriminator} |-> mark], fields)

\* The execution takes the left shape for both.
UnionRuntimeShape(o, left) == WithDiscriminator(o, left, Field("string", FALSE))

UnionShape(o, left, right) ==
  IF /\ DOMAIN left = DOMAIN right
     /\ \A f \in DOMAIN left : Compatible(left[f].type, right[f].type)
     /\ o.discriminator \notin DOMAIN left
  THEN WithDiscriminator(o, [f \in DOMAIN left |->
                               Field(left[f].type, left[f].nullable \/ right[f].nullable)],
                         Field("string", FALSE))
  ELSE Invalid

Marked(o, list, text) == [i \in DOMAIN list |-> WithDiscriminator(o, list[i], text)]

UnionRows(o, left, right) == Marked(o, left, LeftText) \o Marked(o, right, RightText)

-----------------------------------------------------------------------------
(* Join *)

Prefixed(o, f) == o.rightPrefix \o f

RightKeys(o) == {k.right : k \in ToSet(o.keys)}

\* The fields of a right row or shape a join adds to a left one.
Added(o, left, right) == DOMAIN right \ (RightKeys(o) \intersect DOMAIN left)

\* The added field that has this name.
Original(o, left, right, name) ==
  CHOOSE f \in Added(o, left, right) : Prefixed(o, f) = name

\* Slip: a left join leaves fields as they were declared.
JoinRuntimeShapeStrict(o, left, right) ==
  Over([name \in {Prefixed(o, f) : f \in Added(o, left, right)} |->
          right[Original(o, left, right, name)]],
       left)

JoinRuntimeShape(o, left, right) ==
  Over([name \in {Prefixed(o, f) : f \in Added(o, left, right)} |->
          LET field == right[Original(o, left, right, name)]
          IN  Field(field.type, o.type = "left" \/ field.nullable)],
       left)

JoinShape(o, left, right) ==
  IF /\ \A k \in ToSet(o.keys) :
          /\ k.left \in DOMAIN left /\ k.right \in DOMAIN right
          /\ Compatible(left[k.left].type, right[k.right].type)
     /\ \A f \in Added(o, left, right) :
          /\ Prefixed(o, f) \notin DOMAIN left
          /\ \A g \in Added(o, left, right) : Prefixed(o, f) = Prefixed(o, g) => f = g
  THEN JoinRuntimeShape(o, left, right)
  ELSE Invalid

LeftKey(o, row) == [i \in DOMAIN o.keys |-> Value(row, o.keys[i].left)]
RightKey(o, row) == [i \in DOMAIN o.keys |-> Value(row, o.keys[i].right)]

Matches(o, row, right) == {j \in DOMAIN right : RightKey(o, right[j]) = LeftKey(o, row)}

\* The last right row of a key is the one found by it.
JoinRow(o, row, right) ==
  LET found == right[CHOOSE j \in Matches(o, row, right) :
                       \A k \in Matches(o, row, right) : k <= j]
  IN  IF Matches(o, row, right) = {} THEN row
      ELSE Over([name \in {Prefixed(o, f) : f \in Added(o, row, found)} |->
                   found[Original(o, row, found, name)]],
                row)

\* An inner join drops the left rows that match none.
Joined(o, left, right) ==
  Picked(left, {i \in DOMAIN left : o.type = "left" \/ Matches(o, left[i], right) # {}})

JoinRows(o, left, right) ==
  LET matched == Joined(o, left, right)
  IN  [i \in DOMAIN matched |-> JoinRow(o, matched[i], right)]

-----------------------------------------------------------------------------
(* Output *)

OutputShape(o, shape) ==
  IF ToSet(o.fields) \subseteq DOMAIN shape
  THEN [f \in ToSet(o.fields) |-> shape[f]] ELSE Invalid

OutputRows(o, list) == [i \in DOMAIN list |-> [f \in ToSet(o.fields) |-> Value(list[i], f)]]
=============================================================================
