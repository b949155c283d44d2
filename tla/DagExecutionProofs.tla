------------------------- MODULE DagExecutionProofs -------------------------
(***************************************************************************)
(* Plans of any nodes, over any sources: the properties of DagExecution.   *)
(* The inductive invariant is that the rows have the compiled shape, by    *)
(* their fields, types and nulls; from it comes what each node made of its *)
(* inputs, and from that what the properties say of the node that ran      *)
(* last.                                                                   *)
(***************************************************************************)
EXTENDS DagOperatorsProofs

-----------------------------------------------------------------------------
(* The fields that every row has *)

\* What the compiler checks of a sort makes its fields keys of the rows.
LEMMA CheckedSorts ==
  ASSUME NEW s, NEW o, WellConfigured(o), o.op = "sort", SortShape(o, s) # Invalid
  PROVE  Sorts(o, s) /\ SortShape(o, s) = s
<1>1. /\ IsSequence(o.orderBy)
      /\ \A k \in ToSet(o.orderBy) : k.direction \in {"asc", "desc"} /\ k.nulls \in {"first", "last"}
      /\ o.limit = None \/ o.limit \in 1 .. maximumTopK
  BY Zenon DEF WellConfigured
<1>2. SortShape(o, s) = s /\ \A k \in ToSet(o.orderBy) : k.field \in DOMAIN s
  BY DEF SortShape
<1>3. \A k \in DOMAIN o.orderBy : o.orderBy[k] \in ToSet(o.orderBy)
  BY DEF ToSet
<1>4. \A k \in DOMAIN o.orderBy : IsKey(o.orderBy[k], s)
  BY <1>1, <1>2, <1>3 DEF IsKey
<1>5. o.limit = None \/ (o.limit \in Nat /\ o.limit >= 1)
  <2>1. o.limit = None \/ o.limit \in 1 .. maximumTopK
    BY <1>1
  <2>2. maximumTopK \in Nat
    BY DEF maximumTopK
  <2> QED BY <2>1, <2>2
<1> QED BY <1>1, <1>2, <1>4, <1>5 DEF Sorts

\* The rows a sort leaves are rows of its input.
LEMMA SortedRows ==
  ASSUME NEW s, NEW t, NEW list, Shaped(s, t, list), NEW o, Sorts(o, s),
         SortRows(o, list, t) # Throws
  PROVE  /\ IsSequence(SortRows(o, list, t))
         /\ \A n \in DOMAIN SortRows(o, list, t) :
              \E i \in DOMAIN list : SortRows(o, list, t)[n] = list[i]
<1> DEFINE sorted == SortRows(o, list, t)
<1>1. SortedAs(o, list, SortOrder(o, t), sorted)
  BY SortFacts
<1> HIDE DEF sorted
<1>2. IsSequence(sorted)
  BY <1>1 DEF SortedAs
<1>3. DOMAIN sorted = 1 .. Len(sorted)
  BY <1>2, SequenceFacts
<1>4. \A n \in DOMAIN sorted : \E i \in DOMAIN list : sorted[n] = list[i]
  BY <1>1, <1>3 DEF SortedAs
<1> QED BY <1>2, <1>4 DEF sorted

\* A sort keeps rows of their shape.
LEMMA SortedRowsFit ==
  ASSUME NEW s, NEW t, NEW list, Shaped(s, t, list), NEW o, Sorts(o, s),
         SortRows(o, list, t) # Throws
  PROVE  Shaped(s, t, SortRows(o, list, t))
<1> DEFINE sorted == SortRows(o, list, t)
<1>1. IsSequence(sorted) /\ \A n \in DOMAIN sorted : \E i \in DOMAIN list : sorted[n] = list[i]
  BY SortedRows
<1> HIDE DEF sorted
<1> QED BY <1>1 DEF Shaped, sorted

-----------------------------------------------------------------------------
\* The rows of list have the fields of their shape s that are among names.
Carries(list, s, names) ==
  \A i \in DOMAIN list : \A f \in names : f \in DOMAIN s => f \in DOMAIN list[i]

\* Keeping some of the rows keeps their fields.
LEMMA KeptRowsCarry ==
  ASSUME NEW list, IsSequence(list), NEW s, NEW names, Carries(list, s, names), NEW verdicts,
         Keeping(list, verdicts) # Throws
  PROVE  Carries(Keeping(list, verdicts), s, names)
<1> DEFINE places == {i \in DOMAIN list : verdicts[i]}
           p == Picked(list, places)
<1>1. Keeping(list, verdicts) = p
  BY DEF Keeping
<1>2. places \in SUBSET DOMAIN list
  OBVIOUS
<1>3. \A n \in DOMAIN p : \E i \in places : p[n] = list[i]
  <2> HIDE DEF places
  <2> QED BY <1>2, PickedIsSequence
<1> QED BY <1>1, <1>2, <1>3 DEF Carries

\* So do a filter by a predicate,
LEMMA FilteredRowsCarry ==
  ASSUME NEW list, IsSequence(list), NEW s, NEW names, Carries(list, s, names), NEW p, NEW t,
         FilterRows(p, list, t) # Throws
  PROVE  Carries(FilterRows(p, list, t), s, names)
<1> DEFINE verdicts == [i \in DOMAIN list |-> EvaluatePredicate(p, list[i], t)]
<1>1. FilterRows(p, list, t) = Keeping(list, verdicts)
  BY DEF FilterRows
<1> HIDE DEF verdicts
<1> QED BY <1>1, KeptRowsCarry

\* one by an expression,
LEMMA SelectedRowsCarry ==
  ASSUME NEW list, IsSequence(list), NEW s, NEW names, Carries(list, s, names), NEW e, NEW t,
         FilterByExpression(e, list, t) # Throws
  PROVE  Carries(FilterByExpression(e, list, t), s, names)
<1> DEFINE verdicts == [i \in DOMAIN list |->
             LET v == Evaluate(e, list[i], t) IN IF v = Throws THEN Throws ELSE v = TRUE]
<1>1. FilterByExpression(e, list, t) = Keeping(list, verdicts)
  BY Zenon DEF FilterByExpression
<1> HIDE DEF verdicts
<1> QED BY <1>1, KeptRowsCarry

\* and a sort.
LEMMA SortedRowsCarry ==
  ASSUME NEW s, NEW t, NEW list, Shaped(s, t, list), NEW o, Sorts(o, s),
         SortRows(o, list, t) # Throws, NEW names, Carries(list, s, names)
  PROVE  Carries(SortRows(o, list, t), s, names)
<1> DEFINE sorted == SortRows(o, list, t)
<1>1. \A n \in DOMAIN sorted : \E i \in DOMAIN list : sorted[n] = list[i]
  BY SortedRows
<1> HIDE DEF sorted
<1> QED BY <1>1 DEF Carries, sorted

\* The rows of a map have all fields it declares but those of the input.
LEMMA MappedRowsCarry ==
  ASSUME NEW list, IsSequence(list), NEW s, NEW names, Carries(list, s, names),
         NEW o, NEW t, MapShape(o, s) # Invalid, MapRows(o, list, t) # Throws
  PROVE  Carries(MapRows(o, list, t), MapShape(o, s), names)
<1> DEFINE kept(row) == Defined(o) \union (IF o.mode = "extend" THEN DOMAIN row ELSE {})
           M == MapRows(o, list, t)
           S == MapShape(o, s)
<1>1. DOMAIN S = kept(s)
  BY DEF MapShape
<1>2. M = [i \in DOMAIN list |-> MapRow(o, list[i], t)]
      /\ \A i \in DOMAIN list : MapRow(o, list[i], t) # Throws
  <2> DEFINE results == [i \in DOMAIN list |-> MapRow(o, list[i], t)]
  <2>1. M = Attempt(results)
    BY DEF MapRows
  <2>2. Attempt(results) = results /\ \A i \in DOMAIN results : results[i] # Throws
    <3> HIDE DEF results
    <3> QED BY <2>1, AttemptFacts
  <2> QED BY <2>1, <2>2
<1>3. ASSUME NEW i \in DOMAIN list PROVE DOMAIN MapRow(o, list[i], t) = kept(list[i])
  BY <1>2, Zenon DEF MapRow
<1> HIDE DEF M, S
<1>4. ASSUME NEW i \in DOMAIN M, NEW f \in names, f \in DOMAIN S PROVE f \in DOMAIN M[i]
  <2>1. i \in DOMAIN list /\ M[i] = MapRow(o, list[i], t)
    BY <1>2
  <2>2. f \in DOMAIN s => f \in DOMAIN list[i]
    BY <2>1 DEF Carries
  <2>3. f \in kept(s)
    BY <1>1, <1>4
  <2>4. f \in kept(list[i])
    BY <2>2, <2>3
  <2> QED BY <1>3, <2>1, <2>4
<1> QED BY <1>4 DEF Carries, M, S

\* The rows of an aggregate have all fields it declares.
LEMMA AggregatedRowsCarry ==
  ASSUME NEW list, NEW s, NEW names, NEW o, NEW t, AggregateShape(o, s) # Invalid,
         AggregateRows(o, list, t) # Throws
  PROVE  Carries(AggregateRows(o, list, t), AggregateShape(o, s), names)
<1> DEFINE keys == GroupKeys(o, list)
           results == [k \in DOMAIN keys |-> GroupRow(o, Group(o, list, keys[k]), t)]
           M == AggregateRows(o, list, t)
<1>1. M = Attempt(results)
  BY DEF AggregateRows
<1>2. M = results /\ \A k \in DOMAIN results : results[k] # Throws
  <2>1. Attempt(results) = results /\ \A k \in DOMAIN results : results[k] # Throws
    <3> HIDE DEF results
    <3> QED BY <1>1, AttemptFacts
  <2> QED BY <1>1, <2>1
<1>3. DOMAIN AggregateShape(o, s) = ToSet(o.groupBy) \union Named(o)
  <2>1. AggregateFields(o, s, AggregateShape(o, s))
    BY AggregateShapeFacts, AggregateShapeIs
  <2> QED BY <2>1 DEF AggregateFields
<1>4. ASSUME NEW k \in DOMAIN M PROVE DOMAIN M[k] = ToSet(o.groupBy) \union Named(o)
  <2> DEFINE group == Group(o, list, keys[k])
  <2>1. M[k] = GroupRow(o, group, t) /\ M[k] # Throws
    BY <1>2
  <2> HIDE DEF M, keys, group
  <2>2. DOMAIN GroupRow(o, group, t) = ToSet(o.groupBy) \union Named(o)
    BY <2>1, GroupRowFacts
  <2> QED BY <2>1, <2>2
<1> HIDE DEF M
<1> QED BY <1>3, <1>4, Zenon DEF Carries, M

\* An output writes a null where a row has no field.
LEMMA ProjectedRowsCarry ==
  ASSUME NEW list, NEW s, NEW names, NEW o, OutputShape(o, s) # Invalid
  PROVE  Carries(OutputRows(o, list), OutputShape(o, s), names)
<1>1. DOMAIN OutputShape(o, s) = ToSet(o.fields)
  BY DEF OutputShape
<1> QED BY <1>1 DEF Carries, OutputRows

\* The rows of a union have what those of both inputs have.
LEMMA UnitedRowsCarry ==
  ASSUME NEW sl, NEW sr, NEW left, IsSequence(left), NEW right, IsSequence(right), NEW names,
         Carries(left, sl, names), Carries(right, sr, names),
         NEW o, UnionShape(o, sl, sr) # Invalid
  PROVE  Carries(UnionRows(o, left, right), UnionShape(o, sl, sr), names)
<1> DEFINE mark == Field("string", FALSE)
           W == [f \in DOMAIN sl |-> Field(sl[f].type, sl[f].nullable \/ sr[f].nullable)]
           L == Marked(o, left, LeftText)
           R == Marked(o, right, RightText)
           M == UnionRows(o, left, right)
           S == UnionShape(o, sl, sr)
<1>1. S = WithDiscriminator(o, W, mark) /\ DOMAIN sl = DOMAIN sr
  BY DEF UnionShape
<1>2. DOMAIN W = DOMAIN sl
  OBVIOUS
<1>3. ASSUME NEW fields, NEW other, NEW m, NEW n, NEW f,
             f \in DOMAIN fields => f \in DOMAIN other,
             f \in DOMAIN WithDiscriminator(o, fields, m)
      PROVE  f \in DOMAIN WithDiscriminator(o, other, n)
  BY <1>3 DEF WithDiscriminator, Over
<1>4. M = L \o R
  BY DEF UnionRows
<1>5. IsSequence(L) /\ DOMAIN L = DOMAIN left /\ Len(L) = Len(left)
  <2>1. L = [i \in DOMAIN left |-> L[i]]
    BY DEF Marked
  <2> HIDE DEF L
  <2> QED BY <2>1, ListOfLikeLength
<1>6. IsSequence(R) /\ DOMAIN R = DOMAIN right /\ Len(R) = Len(right)
  <2>1. R = [i \in DOMAIN right |-> R[i]]
    BY DEF Marked
  <2> HIDE DEF R
  <2> QED BY <2>1, ListOfLikeLength
<1>7. \A i \in DOMAIN left : L[i] = WithDiscriminator(o, left[i], LeftText)
  BY DEF Marked
<1>8. \A i \in DOMAIN right : R[i] = WithDiscriminator(o, right[i], RightText)
  BY DEF Marked
<1> HIDE DEF W, mark, L, R, M, S
<1>9. ASSUME NEW i \in DOMAIN left, NEW f \in names, f \in DOMAIN S PROVE f \in DOMAIN L[i]
  <2>1. f \in DOMAIN W => f \in DOMAIN left[i]
    BY <1>2 DEF Carries
  <2>2. f \in DOMAIN WithDiscriminator(o, left[i], LeftText)
    BY <1>1, <1>3, <1>9, <2>1
  <2> QED BY <1>7, <2>2
<1>10. ASSUME NEW i \in DOMAIN right, NEW f \in names, f \in DOMAIN S PROVE f \in DOMAIN R[i]
  <2>1. f \in DOMAIN W => f \in DOMAIN right[i]
    BY <1>1, <1>2 DEF Carries
  <2>2. f \in DOMAIN WithDiscriminator(o, right[i], RightText)
    BY <1>1, <1>3, <1>10, <2>1
  <2> QED BY <1>8, <2>2
<1>11. \A n \in DOMAIN M : \/ \E i \in DOMAIN left : M[n] = L[i]
                           \/ \E i \in DOMAIN right : M[n] = R[i]
  <2>1. L \in Seq(ToSet(L) \union ToSet(R)) /\ R \in Seq(ToSet(L) \union ToSet(R))
    <3>1. L \in Seq(ToSet(L)) /\ R \in Seq(ToSet(R))
      BY <1>5, <1>6 DEF IsSequence
    <3> QED BY <3>1
  <2>2. DOMAIN M = 1 .. Len(L) + Len(R) /\ Len(L) \in Nat /\ Len(R) \in Nat
    BY <1>4, <2>1
  <2>3. DOMAIN L = 1 .. Len(L) /\ DOMAIN R = 1 .. Len(R)
    BY <2>1
  <2>4. ASSUME NEW n \in DOMAIN M
        PROVE  \/ \E i \in DOMAIN left : M[n] = L[i]
               \/ \E i \in DOMAIN right : M[n] = R[i]
    <3>1. CASE n <= Len(L)
      <4>1. n \in DOMAIN left /\ M[n] = L[n]
        BY <1>4, <1>5, <2>1, <2>2, <2>3, <3>1
      <4> QED BY <4>1
    <3>2. CASE ~(n <= Len(L))
      <4>1. n - Len(L) \in DOMAIN right /\ M[n] = R[n - Len(L)]
        BY <1>4, <1>6, <2>1, <2>2, <2>3, <3>2
      <4> QED BY <4>1
    <3> QED BY <3>1, <3>2
  <2> QED BY <2>4
<1>12. ASSUME NEW n \in DOMAIN M, NEW f \in names, f \in DOMAIN S PROVE f \in DOMAIN M[n]
  BY <1>9, <1>10, <1>11, <1>12
<1> QED BY <1>12 DEF Carries, M, S

\* A join keeps the fields of its left rows; the names it adds are its own.
LEMMA JoinedRowsCarry ==
  ASSUME NEW sl, NEW tl, NEW left, Shaped(sl, tl, left),
         NEW sr, NEW tr, NEW right, Shaped(sr, tr, right),
         NEW o, JoinShape(o, sl, sr) # Invalid,
         NEW names, Carries(left, sl, names),
         \A i \in DOMAIN left : KeysThere(o, sl, left[i]),
         \A f : Prefixed(o, f) \notin names
  PROVE  Carries(JoinRows(o, left, right), JoinShape(o, sl, sr), names)
<1> DEFINE added == Added(o, sl, sr)
           places == {i \in DOMAIN left : o.type = "left" \/ Matches(o, left[i], right) # {}}
           matched == Joined(o, left, right)
           M == JoinRows(o, left, right)
           S == JoinShape(o, sl, sr)
<1>1. /\ S = JoinRuntimeShape(o, sl, sr)
      /\ \A f \in added : Prefixed(o, f) \notin DOMAIN sl
      /\ \A f \in added : \A g \in added : Prefixed(o, f) = Prefixed(o, g) => f = g
  BY DEF JoinShape
<1>2. Joins(o, sl, sr, added)
  BY <1>1 DEF Joins, Added
<1>3. /\ IsShape(sl) /\ IsSequence(left) /\ IsShape(sr) /\ IsSequence(right)
      /\ \A i \in DOMAIN left : Fits(left[i], sl)
      /\ \A i \in DOMAIN right : Fits(right[i], sr)
  BY DEF Shaped
<1> HIDE DEF added
<1>4. DOMAIN S = DOMAIN sl \union Renamed(o, added)
  <2>1. JoinedAs(S, o, sl, sr, added)
    BY <1>1, <1>2, <1>3, JoinedShapeFacts
  <2> QED BY <2>1 DEF JoinedAs
<1>5. ASSUME NEW i \in DOMAIN left PROVE DOMAIN left[i] \subseteq DOMAIN JoinRow(o, left[i], right)
  <2>1. CASE Matches(o, left[i], right) # {}
    <3>1. PICK j \in Matches(o, left[i], right) :
            Extended(JoinRow(o, left[i], right), o, left[i], right[j],
                     DOMAIN right[j] \ (RightKeys(o) \intersect DOMAIN left[i]))
      BY <1>2, <1>3, <2>1, JoinRowExtends
    <3> QED BY <3>1 DEF Extended
  <2>2. CASE Matches(o, left[i], right) = {}
    BY <2>2 DEF JoinRow
  <2> QED BY <2>1, <2>2
<1>6. places \in SUBSET DOMAIN left /\ matched = Picked(left, places)
  BY DEF Joined
<1> HIDE DEF places, matched
<1>7. IsSequence(matched) /\ \A n \in DOMAIN matched : \E i \in places : matched[n] = left[i]
  BY <1>3, <1>6, PickedIsSequence
<1>8. M = [i \in DOMAIN matched |-> JoinRow(o, matched[i], right)]
  BY DEF JoinRows, matched
<1> HIDE DEF M, S
<1>9. ASSUME NEW n \in DOMAIN M, NEW f \in names, f \in DOMAIN S PROVE f \in DOMAIN M[n]
  <2>1. PICK i \in places : M[n] = JoinRow(o, left[i], right)
    BY <1>7, <1>8
  <2>2. i \in DOMAIN left
    BY <1>6
  <2>3. f \in DOMAIN sl
    BY <1>4, <1>9, RenamedFacts
  <2>4. f \in DOMAIN left[i]
    BY <2>2, <2>3 DEF Carries
  <2> QED BY <1>5, <2>1, <2>2, <2>4
<1> QED BY <1>9 DEF Carries, M, S

-----------------------------------------------------------------------------
(* Rows fit the compiled shape *)

\* The rows of a plan are rows of the shape the compiler derived.
RowsAreShaped == status # "threw" => Shaped(compiled, runtime, rows)

\* A plan has MaxSteps nodes at most, and its output.
StepsAreBounded ==
  /\ status \in {"running", "threw", "done"}
  /\ steps \in 0 .. MaxSteps + 1
  /\ status = "running" => steps <= MaxSteps

\* Rows of the compiled shape are all that the property asks for.
LEMMA ShapedRowsFitTheirShape ==
  ASSUME StepsAreBounded, RowsAreShaped
  PROVE  RowsFitTheirShape
<1>1. ASSUME status # "threw"
      PROVE  /\ DOMAIN runtime = DOMAIN compiled
             /\ \A f \in DOMAIN compiled : runtime[f].type = compiled[f].type
             /\ \A i \in DOMAIN rows : Fits(rows[i], compiled)
  BY <1>1 DEF RowsAreShaped, Shaped, SameFields
<1>2. ASSUME status # "threw", NEW row \in ToSet(rows)
      PROVE  /\ DOMAIN row \subseteq DOMAIN compiled
             /\ \A f \in DOMAIN compiled : Value(row, f) = None => compiled[f].nullable
  <2>1. Fits(row, compiled)
    BY <1>1, <1>2 DEF ToSet
  <2> QED BY <2>1 DEF Fits
<1> QED BY <1>1, <1>2 DEF RowsFitTheirShape, StepsAreBounded

\* The rows of a source are of its shape and have all its fields.
LEMMA TableFacts ==
  ASSUME NEW table \in Tables
  PROVE  /\ Shaped(table.shape, table.shape, table.rows)
         /\ \A names : Carries(table.rows, table.shape, names)
<1>1. /\ IsShape(table.shape) /\ IsSequence(table.rows)
      /\ \A row \in ToSet(table.rows) : Fits(row, table.shape) /\ DOMAIN row = DOMAIN table.shape
  BY TablesAssumption DEF IsTable
<1>2. \A i \in DOMAIN table.rows : table.rows[i] \in ToSet(table.rows)
  BY DEF ToSet
<1>3. SameFields(table.shape, table.shape)
  BY DEF SameFields
<1>4. ASSUME NEW names PROVE Carries(table.rows, table.shape, names)
  BY <1>1, <1>2 DEF Carries
<1> QED BY <1>1, <1>2, <1>3, <1>4 DEF Shaped

\* A node that may run is one of Configs.
LEMMA MayFacts ==
  ASSUME NEW op, NEW o \in May(op)
  PROVE  /\ WellConfigured(o) /\ o \in Configs /\ o.op = op /\ status = "running"
         /\ op = "output" \/ steps < MaxSteps
BY ConfigsAssumption DEF May

\* A node whose result has its shape keeps the invariant.
LEMMA RunsFacts ==
  ASSUME StepsAreBounded, NEW op, NEW o \in May(op),
         NEW shape, NEW runtimeShape, NEW result, NEW left, NEW right,
         Runs(o, shape, runtimeShape, result, left, right),
         shape # Invalid /\ result # Throws => Shaped(shape, runtimeShape, result)
  PROVE  StepsAreBounded' /\ RowsAreShaped'
<1>1. /\ shape # Invalid /\ compiled' = shape /\ steps' = steps + 1
      /\ result = Throws => status' = "threw"
      /\ result # Throws => /\ status' = IF o.op = "output" THEN "done" ELSE "running"
                            /\ runtime' = runtimeShape /\ rows' = result
  BY DEF Runs
<1>2. RowsAreShaped'
  BY <1>1 DEF RowsAreShaped
<1>3. o.op = op /\ status = "running" /\ (op = "output" \/ steps < MaxSteps)
  BY MayFacts
<1>4. steps \in Nat /\ steps <= MaxSteps /\ MaxSteps \in Nat
  BY <1>3, MaxStepsAssumption DEF StepsAreBounded
<1>5. steps' \in 0 .. MaxSteps + 1 /\ (op # "output" => steps' <= MaxSteps)
  BY <1>1, <1>3, <1>4
<1>6. status' \in {"running", "threw", "done"} /\ (status' = "running" => op # "output")
  BY <1>1, <1>3
<1> QED BY <1>2, <1>5, <1>6 DEF StepsAreBounded

\* Every node does: one lemma for each kind.
LEMMA StepsFit ==
  ASSUME StepsAreBounded, RowsAreShaped, JoinKeysAreThere, DagNext
  PROVE  StepsAreBounded' /\ RowsAreShaped'
<1>1. \A op : May(op) # {} => Shaped(compiled, runtime, rows) /\ Carries(rows, compiled, JoinKeys)
  BY MayFacts DEF RowsAreShaped, JoinKeysAreThere, Carries
<1>2. CASE Filter
  <2>1. PICK o \in May("filter") :
          Runs(o, IF ValidPredicate(o.predicate, compiled) THEN compiled ELSE Invalid, runtime,
               FilterRows(o.predicate, rows, runtime), rows, <<>>)
    BY <1>2 DEF Filter
  <2>2. Shaped(compiled, runtime, rows)
    BY <1>1
  <2> DEFINE shape == IF ValidPredicate(o.predicate, compiled) THEN compiled ELSE Invalid
             result == FilterRows(o.predicate, rows, runtime)
  <2>3. shape # Invalid /\ result # Throws => Shaped(shape, runtime, result)
    BY <2>2, FilteredRowsFit
  <2> HIDE DEF shape, result
  <2> QED BY <2>1, <2>3, RunsFacts DEF shape, result
<1>3. CASE Select
  <2> DEFINE Shape(o) == IF InferExpression(o.expression, compiled) # Invalid
                              /\ InferExpression(o.expression, compiled).type = "boolean"
                         THEN compiled ELSE Invalid
  <2>1. PICK o \in May("select") :
          Runs(o, Shape(o), runtime, FilterByExpression(o.expression, rows, runtime), rows, <<>>)
    BY <1>3, Zenon DEF Select
  <2>2. Shaped(compiled, runtime, rows)
    BY <1>1
  <2> DEFINE shape == Shape(o)
             result == FilterByExpression(o.expression, rows, runtime)
  <2>3. shape # Invalid /\ result # Throws => Shaped(shape, runtime, result)
    BY <2>2, SelectedRowsFit
  <2>4. Runs(o, shape, runtime, result, rows, <<>>)
    BY <2>1
  <2> HIDE DEF shape, result
  <2> QED BY <2>3, <2>4, RunsFacts
<1>4. CASE Map
  <2>1. PICK o \in May("map") :
          Runs(o, MapShape(o, compiled), MapShape(o, runtime), MapRows(o, rows, runtime), rows, <<>>)
    BY <1>4 DEF Map
  <2>2. Shaped(compiled, runtime, rows) /\ WellConfigured(o) /\ o.op = "map"
    BY <1>1, MayFacts
  <2>3. MapShape(o, compiled) # Invalid /\ MapRows(o, rows, runtime) # Throws =>
          Shaped(MapShape(o, compiled), MapShape(o, runtime), MapRows(o, rows, runtime))
    BY <2>2, MappedRowsFit
  <2> QED BY <2>1, <2>3, RunsFacts
<1>5. CASE Aggregate
  <2>1. PICK o \in May("aggregate") :
          Runs(o, AggregateShape(o, compiled), AggregateShape(o, runtime),
               AggregateRows(o, rows, runtime), rows, <<>>)
    BY <1>5 DEF Aggregate
  <2>2. Shaped(compiled, runtime, rows) /\ WellConfigured(o) /\ o.op = "aggregate"
    BY <1>1, MayFacts
  <2>3. AggregateShape(o, compiled) # Invalid /\ AggregateRows(o, rows, runtime) # Throws =>
          Shaped(AggregateShape(o, compiled), AggregateShape(o, runtime), AggregateRows(o, rows, runtime))
    BY <2>2, AggregatedRowsFit
  <2> QED BY <2>1, <2>3, RunsFacts
<1>6. CASE Sort
  <2>1. PICK o \in May("sort") :
          Runs(o, SortShape(o, compiled), runtime, SortRows(o, rows, runtime), rows, <<>>)
    BY <1>6 DEF Sort
  <2>2. Shaped(compiled, runtime, rows) /\ WellConfigured(o) /\ o.op = "sort"
    BY <1>1, MayFacts
  <2>3. ASSUME SortShape(o, compiled) # Invalid, SortRows(o, rows, runtime) # Throws
        PROVE  Shaped(SortShape(o, compiled), runtime, SortRows(o, rows, runtime))
    <3>1. Sorts(o, compiled) /\ SortShape(o, compiled) = compiled
      BY <2>2, <2>3, CheckedSorts
    <3> QED BY <2>2, <2>3, <3>1, SortedRowsFit
  <2> QED BY <2>1, <2>3, RunsFacts
<1>7. CASE Union
  <2>1. PICK o \in May("union"), table \in Tables :
          \/ Runs(o, UnionShape(o, compiled, table.shape), UnionRuntimeShape(o, runtime),
                  UnionRows(o, rows, table.rows), rows, table.rows)
          \/ Runs(o, UnionShape(o, table.shape, compiled), UnionRuntimeShape(o, table.shape),
                  UnionRows(o, table.rows, rows), table.rows, rows)
    BY <1>7 DEF Union
  <2>2. Shaped(compiled, runtime, rows) /\ Shaped(table.shape, table.shape, table.rows)
    BY <1>1, TableFacts
  <2>3. UnionShape(o, compiled, table.shape) # Invalid =>
          Shaped(UnionShape(o, compiled, table.shape), UnionRuntimeShape(o, runtime),
                 UnionRows(o, rows, table.rows))
    BY <2>2, UnitedRowsFit
  <2>4. UnionShape(o, table.shape, compiled) # Invalid =>
          Shaped(UnionShape(o, table.shape, compiled), UnionRuntimeShape(o, table.shape),
                 UnionRows(o, table.rows, rows))
    BY <2>2, UnitedRowsFit
  <2> QED BY <2>1, <2>3, <2>4, RunsFacts
<1>8. CASE Join
  <2>1. PICK o \in May("join"), table \in Tables :
          \/ Runs(o, JoinShape(o, compiled, table.shape), JoinRuntimeShape(o, runtime, table.shape),
                  JoinRows(o, rows, table.rows), rows, table.rows)
          \/ Runs(o, JoinShape(o, table.shape, compiled), JoinRuntimeShape(o, table.shape, runtime),
                  JoinRows(o, table.rows, rows), table.rows, rows)
    BY <1>8 DEF Join
  <2>2. /\ Shaped(compiled, runtime, rows) /\ Shaped(table.shape, table.shape, table.rows)
        /\ WellConfigured(o) /\ o.op = "join" /\ o \in Configs
        /\ Carries(rows, compiled, JoinKeys) /\ Carries(table.rows, table.shape, JoinKeys)
    BY <1>1, TableFacts, MayFacts
  <2>3. \A k \in RightKeys(o) : k \in JoinKeys
    BY <2>2 DEF JoinKeys
  <2>4. /\ \A i \in DOMAIN rows : KeysThere(o, compiled, rows[i])
        /\ \A i \in DOMAIN table.rows : KeysThere(o, table.shape, table.rows[i])
    BY <2>2, <2>3 DEF Carries, KeysThere
  <2>5. JoinShape(o, compiled, table.shape) # Invalid =>
          Shaped(JoinShape(o, compiled, table.shape), JoinRuntimeShape(o, runtime, table.shape),
                 JoinRows(o, rows, table.rows))
    BY <2>2, <2>4, JoinedRowsFit
  <2>6. JoinShape(o, table.shape, compiled) # Invalid =>
          Shaped(JoinShape(o, table.shape, compiled), JoinRuntimeShape(o, table.shape, runtime),
                 JoinRows(o, table.rows, rows))
    BY <2>2, <2>4, JoinedRowsFit
  <2> QED BY <2>1, <2>5, <2>6, RunsFacts
<1>9. CASE Output
  <2>1. PICK o \in May("output") :
          Runs(o, OutputShape(o, compiled), OutputShape(o, runtime), OutputRows(o, rows), rows, <<>>)
    BY <1>9 DEF Output
  <2>2. Shaped(compiled, runtime, rows)
    BY <1>1
  <2>3. OutputShape(o, compiled) # Invalid =>
          Shaped(OutputShape(o, compiled), OutputShape(o, runtime), OutputRows(o, rows))
    BY <2>2, ProjectedRowsFit
  <2> QED BY <2>1, <2>3, RunsFacts
<1> QED BY <1>2, <1>3, <1>4, <1>5, <1>6, <1>7, <1>8, <1>9 DEF DagNext

\* A plan starts with the rows of a source.
LEMMA StartFits ==
  ASSUME DagInit
  PROVE  StepsAreBounded /\ RowsAreShaped /\ JoinKeysAreThere
<1>1. PICK table \in Tables : compiled = table.shape /\ runtime = table.shape /\ rows = table.rows
  BY DEF DagInit
<1>2. Shaped(compiled, runtime, rows) /\ Carries(rows, compiled, JoinKeys)
  BY <1>1, TableFacts
<1>3. status = "running" /\ steps = 0 /\ 0 \in 0 .. MaxSteps + 1 /\ 0 <= MaxSteps
  BY MaxStepsAssumption DEF DagInit
<1> QED BY <1>2, <1>3 DEF StepsAreBounded, RowsAreShaped, JoinKeysAreThere, Carries

\* What the compiled shape of a plan says of fields, types and nulls holds of the rows
\* whatever the nodes and the sources are, as long as declared right keys are there.
THEOREM RowsFit == DagSpec /\ []JoinKeysAreThere => []RowsFitTheirShape
<1>1. DagInit => StepsAreBounded /\ RowsAreShaped
  BY StartFits
<1>2. StepsAreBounded /\ RowsAreShaped /\ JoinKeysAreThere /\ [DagNext]_dagVars
        => (StepsAreBounded /\ RowsAreShaped)'
  <2>1. CASE DagNext
    BY <2>1, StepsFit
  <2>2. ASSUME UNCHANGED dagVars PROVE (StepsAreBounded <=> StepsAreBounded') /\ (RowsAreShaped <=> RowsAreShaped')
    BY <2>2 DEF dagVars, StepsAreBounded, RowsAreShaped
  <2> QED BY <2>1, <2>2
<1>3. StepsAreBounded /\ RowsAreShaped => RowsFitTheirShape
  BY ShapedRowsFitTheirShape
<1> QED BY <1>1, <1>2, <1>3, PTL DEF DagSpec

-----------------------------------------------------------------------------
(* Right keys stay there *)

\* A node whose result has the declared right keys keeps them.
LEMMA RunsCarry ==
  ASSUME NEW op, NEW o \in May(op),
         NEW shape, NEW runtimeShape, NEW result, NEW left, NEW right,
         Runs(o, shape, runtimeShape, result, left, right),
         shape # Invalid /\ result # Throws => Carries(result, shape, JoinKeys)
  PROVE  JoinKeysAreThere'
<1>1. /\ shape # Invalid /\ compiled' = shape
      /\ result = Throws => status' = "threw"
      /\ result # Throws => rows' = result
  BY DEF Runs
<1>2. CASE result = Throws
  BY <1>1, <1>2 DEF JoinKeysAreThere
<1>3. CASE result # Throws
  <2>1. Carries(rows', compiled', JoinKeys)
    BY <1>1, <1>3
  <2> QED BY <2>1 DEF JoinKeysAreThere, Carries
<1> QED BY <1>2, <1>3

\* Every node does if names are apart: one lemma for each kind.
LEMMA StepsCarry ==
  ASSUME NamesApart, StepsAreBounded, RowsAreShaped, JoinKeysAreThere, DagNext
  PROVE  JoinKeysAreThere'
<1> DEFINE Rows(list, s) == Carries(list, s, JoinKeys)
<1>1. \A op : May(op) # {} => Shaped(compiled, runtime, rows) /\ Rows(rows, compiled)
  BY MayFacts DEF RowsAreShaped, JoinKeysAreThere, Carries
<1>2. CASE Filter
  <2>1. PICK o \in May("filter") :
          Runs(o, IF ValidPredicate(o.predicate, compiled) THEN compiled ELSE Invalid, runtime,
               FilterRows(o.predicate, rows, runtime), rows, <<>>)
    BY <1>2 DEF Filter
  <2>2. IsSequence(rows) /\ Rows(rows, compiled)
    BY <1>1 DEF Shaped
  <2> DEFINE shape == IF ValidPredicate(o.predicate, compiled) THEN compiled ELSE Invalid
             result == FilterRows(o.predicate, rows, runtime)
  <2>3. shape # Invalid /\ result # Throws => Rows(result, shape)
    BY <2>2, FilteredRowsCarry
  <2>4. Runs(o, shape, runtime, result, rows, <<>>)
    BY <2>1
  <2> HIDE DEF shape, result
  <2> QED BY <2>3, <2>4, RunsCarry
<1>3. CASE Select
  <2> DEFINE Shape(o) == IF InferExpression(o.expression, compiled) # Invalid
                              /\ InferExpression(o.expression, compiled).type = "boolean"
                         THEN compiled ELSE Invalid
  <2>1. PICK o \in May("select") :
          Runs(o, Shape(o), runtime, FilterByExpression(o.expression, rows, runtime), rows, <<>>)
    BY <1>3, Zenon DEF Select
  <2>2. IsSequence(rows) /\ Rows(rows, compiled)
    BY <1>1 DEF Shaped
  <2> DEFINE shape == Shape(o)
             result == FilterByExpression(o.expression, rows, runtime)
  <2>3. shape # Invalid /\ result # Throws => Rows(result, shape)
    BY <2>2, SelectedRowsCarry
  <2>4. Runs(o, shape, runtime, result, rows, <<>>)
    BY <2>1
  <2> HIDE DEF shape, result
  <2> QED BY <2>3, <2>4, RunsCarry
<1>4. CASE Map
  <2>1. PICK o \in May("map") :
          Runs(o, MapShape(o, compiled), MapShape(o, runtime), MapRows(o, rows, runtime), rows, <<>>)
    BY <1>4 DEF Map
  <2>2. IsSequence(rows) /\ Rows(rows, compiled)
    BY <1>1 DEF Shaped
  <2>3. MapShape(o, compiled) # Invalid /\ MapRows(o, rows, runtime) # Throws =>
          Rows(MapRows(o, rows, runtime), MapShape(o, compiled))
    BY <2>2, MappedRowsCarry
  <2> QED BY <2>1, <2>3, RunsCarry
<1>5. CASE Aggregate
  <2>1. PICK o \in May("aggregate") :
          Runs(o, AggregateShape(o, compiled), AggregateShape(o, runtime),
               AggregateRows(o, rows, runtime), rows, <<>>)
    BY <1>5 DEF Aggregate
  <2>2. AggregateShape(o, compiled) # Invalid /\ AggregateRows(o, rows, runtime) # Throws =>
          Rows(AggregateRows(o, rows, runtime), AggregateShape(o, compiled))
    BY AggregatedRowsCarry
  <2> QED BY <2>1, <2>2, RunsCarry
<1>6. CASE Sort
  <2>1. PICK o \in May("sort") :
          Runs(o, SortShape(o, compiled), runtime, SortRows(o, rows, runtime), rows, <<>>)
    BY <1>6 DEF Sort
  <2>2. Shaped(compiled, runtime, rows) /\ Rows(rows, compiled) /\ WellConfigured(o) /\ o.op = "sort"
    BY <1>1, MayFacts
  <2>3. ASSUME SortShape(o, compiled) # Invalid, SortRows(o, rows, runtime) # Throws
        PROVE  Rows(SortRows(o, rows, runtime), SortShape(o, compiled))
    <3>1. Sorts(o, compiled) /\ SortShape(o, compiled) = compiled
      BY <2>2, <2>3, CheckedSorts
    <3> QED BY <2>2, <2>3, <3>1, SortedRowsCarry
  <2> QED BY <2>1, <2>3, RunsCarry
<1>7. CASE Union
  <2>1. PICK o \in May("union"), table \in Tables :
          \/ Runs(o, UnionShape(o, compiled, table.shape), UnionRuntimeShape(o, runtime),
                  UnionRows(o, rows, table.rows), rows, table.rows)
          \/ Runs(o, UnionShape(o, table.shape, compiled), UnionRuntimeShape(o, table.shape),
                  UnionRows(o, table.rows, rows), table.rows, rows)
    BY <1>7 DEF Union
  <2>2. /\ IsSequence(rows) /\ Rows(rows, compiled)
        /\ IsSequence(table.rows) /\ Rows(table.rows, table.shape)
    BY <1>1, TableFacts DEF Shaped
  <2>3. UnionShape(o, compiled, table.shape) # Invalid =>
          Rows(UnionRows(o, rows, table.rows), UnionShape(o, compiled, table.shape))
    BY <2>2, UnitedRowsCarry
  <2>4. UnionShape(o, table.shape, compiled) # Invalid =>
          Rows(UnionRows(o, table.rows, rows), UnionShape(o, table.shape, compiled))
    BY <2>2, UnitedRowsCarry
  <2> QED BY <2>1, <2>3, <2>4, RunsCarry
<1>8. CASE Join
  <2>1. PICK o \in May("join"), table \in Tables :
          \/ Runs(o, JoinShape(o, compiled, table.shape), JoinRuntimeShape(o, runtime, table.shape),
                  JoinRows(o, rows, table.rows), rows, table.rows)
          \/ Runs(o, JoinShape(o, table.shape, compiled), JoinRuntimeShape(o, table.shape, runtime),
                  JoinRows(o, table.rows, rows), table.rows, rows)
    BY <1>8 DEF Join
  <2>2. /\ Shaped(compiled, runtime, rows) /\ Shaped(table.shape, table.shape, table.rows)
        /\ o.op = "join" /\ o \in Configs
        /\ Rows(rows, compiled) /\ Rows(table.rows, table.shape)
    BY <1>1, TableFacts, MayFacts
  <2>3. (\A k \in RightKeys(o) : k \in JoinKeys) /\ \A f : Prefixed(o, f) \notin JoinKeys
    BY <2>2 DEF JoinKeys, NamesApart
  <2>4. /\ \A i \in DOMAIN rows : KeysThere(o, compiled, rows[i])
        /\ \A i \in DOMAIN table.rows : KeysThere(o, table.shape, table.rows[i])
    BY <2>2, <2>3 DEF Carries, KeysThere
  <2> HIDE DEF Rows
  <2>5. JoinShape(o, compiled, table.shape) # Invalid =>
          Rows(JoinRows(o, rows, table.rows), JoinShape(o, compiled, table.shape))
    BY <2>2, <2>3, <2>4, JoinedRowsCarry DEF Rows
  <2>6. JoinShape(o, table.shape, compiled) # Invalid =>
          Rows(JoinRows(o, table.rows, rows), JoinShape(o, table.shape, compiled))
    BY <2>2, <2>3, <2>4, JoinedRowsCarry DEF Rows
  <2> QED BY <2>1, <2>5, <2>6, RunsCarry DEF Rows
<1>9. CASE Output
  <2>1. PICK o \in May("output") :
          Runs(o, OutputShape(o, compiled), OutputShape(o, runtime), OutputRows(o, rows), rows, <<>>)
    BY <1>9 DEF Output
  <2>2. OutputShape(o, compiled) # Invalid => Rows(OutputRows(o, rows), OutputShape(o, compiled))
    BY ProjectedRowsCarry
  <2> QED BY <2>1, <2>2, RunsCarry
<1> QED BY <1>2, <1>3, <1>4, <1>5, <1>6, <1>7, <1>8, <1>9 DEF DagNext

\* Names that are apart are enough for the right keys to be there: a condition on
\* the nodes of a plan that needs no execution.
THEOREM KeysStayThere == NamesApart => (DagSpec => []JoinKeysAreThere)
<1> SUFFICES ASSUME NamesApart PROVE DagSpec => []JoinKeysAreThere
  OBVIOUS
<1> DEFINE Inv == StepsAreBounded /\ RowsAreShaped /\ JoinKeysAreThere
<1>1. DagInit => Inv
  BY StartFits
<1>2. Inv /\ [DagNext]_dagVars => Inv'
  <2>1. CASE DagNext
    BY <2>1, StepsFit, StepsCarry
  <2>2. ASSUME UNCHANGED dagVars PROVE Inv <=> Inv'
    BY <2>2 DEF dagVars, StepsAreBounded, RowsAreShaped, JoinKeysAreThere
  <2> QED BY <2>1, <2>2
<1>3. Inv => JoinKeysAreThere
  OBVIOUS
<1> QED BY <1>1, <1>2, <1>3, PTL DEF DagSpec

\* Rows fit the compiled shape of every plan whose names are apart.
THEOREM RowsOfApartNamesFit == NamesApart => (DagSpec => []RowsFitTheirShape)
<1> SUFFICES ASSUME NamesApart PROVE DagSpec => []RowsFitTheirShape
  OBVIOUS
<1>1. DagSpec => []JoinKeysAreThere
  BY KeysStayThere
<1> QED BY <1>1, RowsFit, PTL

-----------------------------------------------------------------------------
(* A sort is in the order asked for *)

\* Two values of a key's field that the key does not tell apart, and two of which
\* the first comes first.
SameBy(key, type, x, y) ==
  \/ x = None /\ y = None
  \/ /\ x # None /\ y # None
     /\ ~(CompareSemanticValues(type, x, y) < 0) /\ ~(CompareSemanticValues(type, y, x) < 0)

EarlierBy(key, type, x, y) ==
  \/ x = None /\ y # None /\ key.nulls = "first"
  \/ x # None /\ y = None /\ key.nulls = "last"
  \/ /\ x # None /\ y # None
     /\ IF key.direction = "asc" THEN CompareSemanticValues(type, x, y) < 0
        ELSE CompareSemanticValues(type, y, x) < 0

\* A comparison by a key says what the property on sorts does.
LEMMA KeyVerdicts ==
  ASSUME NEW s, IsShape(s), NEW key, IsKey(key, s), NEW field, field.type = s[key.field].type,
         NEW a, NEW b, Fits(a, s), Fits(b, s), CompareByKey(a, b, key, field) # Throws
  PROVE  /\ SameBy(key, field.type, Value(a, key.field), Value(b, key.field))
              <=> CompareByKey(a, b, key, field) = 0
         /\ EarlierBy(key, field.type, Value(a, key.field), Value(b, key.field))
              <=> CompareByKey(a, b, key, field) < 0
<1> DEFINE x == Value(a, key.field)
           y == Value(b, key.field)
           c == CompareSemanticValues(field.type, x, y)
           d == CompareSemanticValues(field.type, y, x)
           C == CompareByKey(a, b, key, field)
<1>1. /\ x = None /\ y = None => C = 0
      /\ x = None /\ y # None => C = IF key.nulls = "first" THEN -1 ELSE 1
      /\ x # None /\ y = None => C = IF key.nulls = "first" THEN 1 ELSE -1
      /\ x # None /\ y # None => /\ x \in ValuesOf(field.type) /\ y \in ValuesOf(field.type)
                                 /\ c # Throws
                                 /\ C = IF key.direction = "asc" THEN c ELSE -c
  BY ComparedByKey
<1>2. field.type \in Types
  BY DEF IsKey, IsShape
<1>3. key.nulls \in {"first", "last"} /\ key.direction \in {"asc", "desc"}
  BY DEF IsKey
<1>4. /\ SameBy(key, field.type, x, y) <=>
           \/ x = None /\ y = None
           \/ x # None /\ y # None /\ ~(c < 0) /\ ~(d < 0)
      /\ EarlierBy(key, field.type, x, y) <=>
           \/ x = None /\ y # None /\ key.nulls = "first"
           \/ x # None /\ y = None /\ key.nulls = "last"
           \/ x # None /\ y # None /\ IF key.direction = "asc" THEN c < 0 ELSE d < 0
  BY Zenon DEF SameBy, EarlierBy
<1> HIDE DEF x, y, C
<1>5. CASE x # None /\ y # None
  <2>1. c \in {-1, 0, 1} /\ d = -c
    <3>1. x \in ValuesOf(field.type) /\ y \in ValuesOf(field.type) /\ c # Throws
      BY <1>1, <1>5
    <3> QED BY <1>2, <3>1, ComparisonFacts
  <2> HIDE DEF c, d
  <2>2. C = IF key.direction = "asc" THEN c ELSE -c
    BY <1>1, <1>5
  <2>3. c \in Int /\ d = 0 - c
    BY <2>1, Negation
  <2>4. (SameBy(key, field.type, x, y) <=> ~(c < 0) /\ ~(d < 0))
        /\ (EarlierBy(key, field.type, x, y) <=> IF key.direction = "asc" THEN c < 0 ELSE d < 0)
    BY <1>4, <1>5, Zenon
  <2>5. (c = 0 <=> ~(c < 0) /\ ~(d < 0)) /\ C = IF key.direction = "asc" THEN c ELSE d
    BY <2>1, <2>2, <2>3
  <2>6. SameBy(key, field.type, x, y) <=> C = 0
    BY <2>3, <2>4, <2>5
  <2>7. EarlierBy(key, field.type, x, y) <=> C < 0
    BY <2>4, <2>5
  <2> QED BY <2>6, <2>7 DEF C, x, y
<1> HIDE DEF c, d
<1>6. CASE x = None /\ y = None
  <2>1. (SameBy(key, field.type, x, y) <=> C = 0) /\ (EarlierBy(key, field.type, x, y) <=> C < 0)
    BY <1>1, <1>4, <1>6
  <2> QED BY <2>1 DEF C, x, y
<1>7. CASE x = None /\ y # None
  <2>1. (SameBy(key, field.type, x, y) <=> C = 0) /\ (EarlierBy(key, field.type, x, y) <=> C < 0)
    BY <1>1, <1>3, <1>4, <1>7
  <2> QED BY <2>1 DEF C, x, y
<1>8. CASE x # None /\ y = None
  <2>1. (SameBy(key, field.type, x, y) <=> C = 0) /\ (EarlierBy(key, field.type, x, y) <=> C < 0)
    BY <1>1, <1>3, <1>4, <1>8
  <2> QED BY <2>1 DEF C, x, y
<1> QED BY <1>5, <1>6, <1>7, <1>8

-----------------------------------------------------------------------------
\* Row i of list belongs before row j, by the keys of an order.
Leads(by, shape, list, i, j) ==
  LET Type(k) == shape[by[k].field].type
      Same(k) == SameBy(by[k], Type(k), Value(list[i], by[k].field), Value(list[j], by[k].field))
      Earlier(k) == EarlierBy(by[k], Type(k), Value(list[i], by[k].field), Value(list[j], by[k].field))
  IN  \/ \E k \in DOMAIN by : Earlier(k) /\ \A m \in 1 .. k - 1 : Same(m)
      \/ i < j /\ \A k \in DOMAIN by : Same(k)

\* So does the comparison by all keys.
LEMMA Leading ==
  ASSUME NEW order, NEW s, NEW list, CanBeSorted(order, s, SortItems(list)),
         NEW i \in DOMAIN list, NEW j \in DOMAIN list, i # j, i \in Int, j \in Int
  PROVE  Leads(order.by, order.shape, list, i, j) <=> CompareRows(Item(list, i), Item(list, j), order) < 0
<1> DEFINE a == Item(list, i)
           b == Item(list, j)
           by == order.by
           By(k) == ByKey(a, b, order, k)
           C == CompareRows(a, b, order)
           Type(k) == order.shape[by[k].field].type
           Same(k) == SameBy(by[k], Type(k), Value(list[i], by[k].field), Value(list[j], by[k].field))
           Earlier(k) == EarlierBy(by[k], Type(k), Value(list[i], by[k].field), Value(list[j], by[k].field))
           L == Leads(by, order.shape, list, i, j)
<1>1. L <=> \/ \E k \in DOMAIN by : Earlier(k) /\ \A m \in 1 .. k - 1 : Same(m)
            \/ i < j /\ \A k \in DOMAIN by : Same(k)
  BY Zenon DEF Leads
<1>2. a \in SortItems(list) /\ b \in SortItems(list) /\ a.inputIndex = i /\ b.inputIndex = j
      /\ a.row = list[i] /\ b.row = list[j]
  BY DEF SortItems, Item
<1>3. a # b /\ C # Throws /\ SortsItems(order, s, SortItems(list))
  BY <1>2 DEF CanBeSorted
<1>4. IsSequence(by)
  BY <1>3 DEF SortsItems
<1>5. Len(by) \in Nat /\ DOMAIN by = 1 .. Len(by)
  BY <1>4, SequenceFacts
<1>6. ASSUME NEW k \in DOMAIN by, By(k) # Throws
      PROVE  (Same(k) <=> By(k) = 0) /\ (Earlier(k) <=> By(k) < 0) /\ By(k) \in Int
  <2>1. /\ IsShape(s) /\ IsKey(by[k], s) /\ order.shape[by[k].field].type = s[by[k].field].type
        /\ Fits(a.row, s) /\ Fits(b.row, s)
    BY <1>2, <1>3 DEF SortsItems
  <2>2. By(k) = CompareByKey(list[i], list[j], by[k], order.shape[by[k].field])
    BY <1>2 DEF ByKey
  <2>3. By(k) \in Int
    BY <1>2, <1>3, <1>6, ByKeyFair
  <2> DEFINE field == order.shape[by[k].field]
  <2>4. (Same(k) <=> CompareByKey(list[i], list[j], by[k], field) = 0)
        /\ (Earlier(k) <=> CompareByKey(list[i], list[j], by[k], field) < 0)
    BY <1>2, <1>6, <2>1, <2>2, KeyVerdicts
  <2> HIDE DEF Same, Earlier
  <2> QED BY <2>2, <2>3, <2>4
<1> HIDE DEF a, b, By, C, Same, Earlier, L, by
<1>7. 0 # Throws
  BY ThrowsIsNoNumber
<1>8. CASE Undecided(a, b, order)
  <2>1. \A k \in DOMAIN by : By(k) = 0
    BY <1>8 DEF Undecided, By, by
  <2>2. C = i - j
    BY <1>2, <1>4, <1>8, RowsCompared DEF C, by
  <2>3. \A k \in DOMAIN by : Same(k) /\ ~Earlier(k)
    BY <1>6, <1>7, <2>1
  <2>4. L <=> i < j
    BY <1>1, <2>3
  <2> QED BY <2>2, <2>4 DEF L, C, a, b, by
<1>9. CASE ~Undecided(a, b, order)
  <2>1. PICK d : DecidedAt(a, b, order, d)
    BY <1>4, <1>9, RowsCompared DEF by
  <2>2. C = By(d)
    BY <1>4, <2>1, RowsCompared DEF C, By, by
  <2>3. d \in DOMAIN by /\ By(d) # 0 /\ \A k \in 1 .. d - 1 : By(k) = 0
    BY <2>1 DEF DecidedAt, By, by
  <2>4. d \in 1 .. Len(by)
    BY <1>5, <2>3
  <2>5. ~Same(d) /\ (Earlier(d) <=> C < 0)
    BY <1>3, <1>6, <2>2, <2>3
  <2>6. ASSUME NEW k \in 1 .. d - 1 PROVE Same(k) /\ ~Earlier(k)
    <3>1. k \in DOMAIN by
      BY <1>5, <2>4
    <3> QED BY <1>6, <1>7, <2>3, <3>1
  <2>7. ASSUME NEW k \in DOMAIN by, Earlier(k), \A m \in 1 .. k - 1 : Same(m) PROVE k = d
    <3>1. k \in Int /\ d \in Int /\ k >= 1 /\ d >= 1
      BY <1>5, <2>4
    <3>2. ~(k < d)
      BY <2>6, <2>7, <3>1
    <3>3. ~(d < k)
      BY <2>5, <2>7, <3>1
    <3> QED BY <3>1, <3>2, <3>3
  <2>8. L <=> Earlier(d)
    <3>1. L => Earlier(d)
      BY <1>1, <2>3, <2>5, <2>7
    <3>2. Earlier(d) => L
      BY <1>1, <2>3, <2>6
    <3> QED BY <3>1, <3>2
  <2> QED BY <2>5, <2>8 DEF L, C, a, b, by
<1> QED BY <1>8, <1>9

-----------------------------------------------------------------------------
(* What each node made of its inputs *)

\* The result of a node of some kind on inputs of the shapes the compiler derived.
FilterRan(o, b, result) ==
  \E s : /\ Shaped(s, b.shape, b.left) /\ ValidPredicate(o.predicate, s)
         /\ result = FilterRows(o.predicate, b.left, b.shape) /\ result # Throws

MapRan(o, b, result) ==
  \E s : /\ Shaped(s, b.shape, b.left) /\ MapShape(o, s) # Invalid
         /\ result = MapRows(o, b.left, b.shape) /\ result # Throws

AggregateRan(o, b, result) ==
  \E s : /\ Shaped(s, b.shape, b.left) /\ AggregateShape(o, s) # Invalid
         /\ result = AggregateRows(o, b.left, b.shape) /\ result # Throws

SortRan(o, b, result) ==
  \E s : /\ Shaped(s, b.shape, b.left) /\ SortShape(o, s) # Invalid
         /\ result = SortRows(o, b.left, b.shape) /\ result # Throws

UnionRan(o, b, result) ==
  IsSequence(b.left) /\ IsSequence(b.right) /\ result = UnionRows(o, b.left, b.right)

JoinRan(o, b, result) ==
  \E sl, tl, sr, tr :
    /\ Shaped(sl, tl, b.left) /\ Shaped(sr, tr, b.right) /\ JoinShape(o, sl, sr) # Invalid
    /\ \A i \in DOMAIN b.left : KeysThere(o, sl, b.left[i])
    /\ result = JoinRows(o, b.left, b.right)

\* The result of node o.
DoneBy(o, b, result) ==
  /\ WellConfigured(o)
  /\ o.op = "filter" => FilterRan(o, b, result)
  /\ o.op = "map" => MapRan(o, b, result)
  /\ o.op = "aggregate" => AggregateRan(o, b, result)
  /\ o.op = "sort" => SortRan(o, b, result)
  /\ o.op = "union" => UnionRan(o, b, result)
  /\ o.op = "join" => JoinRan(o, b, result)

\* The rows are what the node that ran last made of its inputs.
Recorded == status # "threw" /\ last # None => DoneBy(last, before, rows)

\* A node whose result is on record keeps the invariant.
LEMMA RunsAreRecorded ==
  ASSUME NEW op, NEW o \in May(op),
         NEW shape, NEW runtimeShape, NEW result, NEW left, NEW right,
         Runs(o, shape, runtimeShape, result, left, right),
         shape # Invalid /\ result # Throws =>
           DoneBy(o, [left |-> left, right |-> right, shape |-> runtime], result)
  PROVE  Recorded'
<1>1. /\ shape # Invalid /\ last' = o /\ before' = [left |-> left, right |-> right, shape |-> runtime]
      /\ result = Throws => status' = "threw"
      /\ result # Throws => rows' = result
  BY DEF Runs
<1>2. CASE result = Throws
  BY <1>1, <1>2 DEF Recorded
<1>3. CASE result # Throws
  <2>1. DoneBy(last', before', rows')
    BY <1>1, <1>3
  <2> QED BY <2>1 DEF Recorded
<1> QED BY <1>2, <1>3

\* Every node does: one lemma for each kind.
LEMMA StepsAreRecorded ==
  ASSUME StepsAreBounded, RowsAreShaped, JoinKeysAreThere, DagNext
  PROVE  Recorded'
<1> DEFINE B(left, right) == [left |-> left, right |-> right, shape |-> runtime]
<1>1. \A op : May(op) # {} => Shaped(compiled, runtime, rows) /\ Carries(rows, compiled, JoinKeys)
  BY MayFacts DEF RowsAreShaped, JoinKeysAreThere, Carries
<1>2. \A left, right : /\ B(left, right).left = left /\ B(left, right).right = right
                       /\ B(left, right).shape = runtime
  OBVIOUS
<1>3. CASE Filter
  <2>1. PICK o \in May("filter") :
          Runs(o, IF ValidPredicate(o.predicate, compiled) THEN compiled ELSE Invalid, runtime,
               FilterRows(o.predicate, rows, runtime), rows, <<>>)
    BY <1>3 DEF Filter
  <2>2. Shaped(compiled, runtime, rows) /\ WellConfigured(o) /\ o.op = "filter"
    BY <1>1, MayFacts
  <2> DEFINE shape == IF ValidPredicate(o.predicate, compiled) THEN compiled ELSE Invalid
             result == FilterRows(o.predicate, rows, runtime)
             b == B(rows, <<>>)
  <2>3. b.left = rows /\ b.shape = runtime
    BY <1>2
  <2> HIDE DEF b, B
  <2>4. shape # Invalid /\ result # Throws => FilterRan(o, b, result)
    BY <2>2, <2>3 DEF FilterRan
  <2>5. shape # Invalid /\ result # Throws => DoneBy(o, b, result)
    <3> HIDE DEF shape, result
    <3> QED BY <2>2, <2>4 DEF DoneBy
  <2>6. Runs(o, shape, runtime, result, rows, <<>>)
    BY <2>1
  <2> HIDE DEF shape, result
  <2> QED BY <2>5, <2>6, RunsAreRecorded DEF b, B
<1>4. CASE Select
  <2> DEFINE Shape(o) == IF InferExpression(o.expression, compiled) # Invalid
                              /\ InferExpression(o.expression, compiled).type = "boolean"
                         THEN compiled ELSE Invalid
  <2>1. PICK o \in May("select") :
          Runs(o, Shape(o), runtime, FilterByExpression(o.expression, rows, runtime), rows, <<>>)
    BY <1>4, Zenon DEF Select
  <2>2. WellConfigured(o) /\ o.op = "select"
    BY MayFacts
  <2>3. \A b, result : DoneBy(o, b, result)
    BY <2>2 DEF DoneBy
  <2> DEFINE shape == Shape(o)
  <2>4. Runs(o, shape, runtime, FilterByExpression(o.expression, rows, runtime), rows, <<>>)
    BY <2>1
  <2> HIDE DEF shape
  <2> QED BY <2>3, <2>4, RunsAreRecorded
<1>5. CASE Map
  <2>1. PICK o \in May("map") :
          Runs(o, MapShape(o, compiled), MapShape(o, runtime), MapRows(o, rows, runtime), rows, <<>>)
    BY <1>5 DEF Map
  <2>2. Shaped(compiled, runtime, rows) /\ WellConfigured(o) /\ o.op = "map"
    BY <1>1, MayFacts
  <2> DEFINE b == B(rows, <<>>)
  <2>3. b.left = rows /\ b.shape = runtime
    BY <1>2
  <2> HIDE DEF b, B
  <2>4. MapShape(o, compiled) # Invalid /\ MapRows(o, rows, runtime) # Throws =>
          DoneBy(o, b, MapRows(o, rows, runtime))
    BY <2>2, <2>3 DEF DoneBy, MapRan
  <2> QED BY <2>1, <2>4, RunsAreRecorded DEF b, B
<1>6. CASE Aggregate
  <2>1. PICK o \in May("aggregate") :
          Runs(o, AggregateShape(o, compiled), AggregateShape(o, runtime),
               AggregateRows(o, rows, runtime), rows, <<>>)
    BY <1>6 DEF Aggregate
  <2>2. Shaped(compiled, runtime, rows) /\ WellConfigured(o) /\ o.op = "aggregate"
    BY <1>1, MayFacts
  <2> DEFINE b == B(rows, <<>>)
  <2>3. b.left = rows /\ b.shape = runtime
    BY <1>2
  <2> HIDE DEF b, B
  <2>4. AggregateShape(o, compiled) # Invalid /\ AggregateRows(o, rows, runtime) # Throws =>
          DoneBy(o, b, AggregateRows(o, rows, runtime))
    BY <2>2, <2>3 DEF DoneBy, AggregateRan
  <2> QED BY <2>1, <2>4, RunsAreRecorded DEF b, B
<1>7. CASE Sort
  <2>1. PICK o \in May("sort") :
          Runs(o, SortShape(o, compiled), runtime, SortRows(o, rows, runtime), rows, <<>>)
    BY <1>7 DEF Sort
  <2>2. Shaped(compiled, runtime, rows) /\ WellConfigured(o) /\ o.op = "sort"
    BY <1>1, MayFacts
  <2> DEFINE b == B(rows, <<>>)
  <2>3. b.left = rows /\ b.shape = runtime
    BY <1>2
  <2> HIDE DEF b, B
  <2>4. SortShape(o, compiled) # Invalid /\ SortRows(o, rows, runtime) # Throws =>
          DoneBy(o, b, SortRows(o, rows, runtime))
    BY <2>2, <2>3 DEF DoneBy, SortRan
  <2> QED BY <2>1, <2>4, RunsAreRecorded DEF b, B
<1>8. CASE Union
  <2>1. PICK o \in May("union"), table \in Tables :
          \/ Runs(o, UnionShape(o, compiled, table.shape), UnionRuntimeShape(o, runtime),
                  UnionRows(o, rows, table.rows), rows, table.rows)
          \/ Runs(o, UnionShape(o, table.shape, compiled), UnionRuntimeShape(o, table.shape),
                  UnionRows(o, table.rows, rows), table.rows, rows)
    BY <1>8 DEF Union
  <2>2. IsSequence(rows) /\ IsSequence(table.rows) /\ WellConfigured(o) /\ o.op = "union"
    BY <1>1, TableFacts, MayFacts DEF Shaped
  <2> HIDE DEF B
  <2>3. DoneBy(o, B(rows, table.rows), UnionRows(o, rows, table.rows))
    BY <1>2, <2>2 DEF DoneBy, UnionRan
  <2>4. DoneBy(o, B(table.rows, rows), UnionRows(o, table.rows, rows))
    BY <1>2, <2>2 DEF DoneBy, UnionRan
  <2> QED BY <2>1, <2>3, <2>4, RunsAreRecorded DEF B
<1>9. CASE Join
  <2>1. PICK o \in May("join"), table \in Tables :
          \/ Runs(o, JoinShape(o, compiled, table.shape), JoinRuntimeShape(o, runtime, table.shape),
                  JoinRows(o, rows, table.rows), rows, table.rows)
          \/ Runs(o, JoinShape(o, table.shape, compiled), JoinRuntimeShape(o, table.shape, runtime),
                  JoinRows(o, table.rows, rows), table.rows, rows)
    BY <1>9 DEF Join
  <2>2. /\ Shaped(compiled, runtime, rows) /\ Shaped(table.shape, table.shape, table.rows)
        /\ WellConfigured(o) /\ o.op = "join" /\ o \in Configs
        /\ Carries(rows, compiled, JoinKeys) /\ Carries(table.rows, table.shape, JoinKeys)
    BY <1>1, TableFacts, MayFacts
  <2>3. \A k \in RightKeys(o) : k \in JoinKeys
    BY <2>2 DEF JoinKeys
  <2>4. /\ \A i \in DOMAIN rows : KeysThere(o, compiled, rows[i])
        /\ \A i \in DOMAIN table.rows : KeysThere(o, table.shape, table.rows[i])
    BY <2>2, <2>3 DEF Carries, KeysThere
  <2> HIDE DEF B
  <2>5. ASSUME JoinShape(o, compiled, table.shape) # Invalid
        PROVE  DoneBy(o, B(rows, table.rows), JoinRows(o, rows, table.rows))
    <3>1. JoinRan(o, B(rows, table.rows), JoinRows(o, rows, table.rows))
      BY <1>2, <2>2, <2>4, <2>5 DEF JoinRan
    <3> QED BY <2>2, <3>1 DEF DoneBy
  <2>6. ASSUME JoinShape(o, table.shape, compiled) # Invalid
        PROVE  DoneBy(o, B(table.rows, rows), JoinRows(o, table.rows, rows))
    <3>1. JoinRan(o, B(table.rows, rows), JoinRows(o, table.rows, rows))
      BY <1>2, <2>2, <2>4, <2>6 DEF JoinRan
    <3> QED BY <2>2, <3>1 DEF DoneBy
  <2> QED BY <2>1, <2>5, <2>6, RunsAreRecorded DEF B
<1>10. CASE Output
  <2>1. PICK o \in May("output") :
          Runs(o, OutputShape(o, compiled), OutputShape(o, runtime), OutputRows(o, rows), rows, <<>>)
    BY <1>10 DEF Output
  <2>2. WellConfigured(o) /\ o.op = "output"
    BY MayFacts
  <2>3. \A b, result : DoneBy(o, b, result)
    BY <2>2 DEF DoneBy
  <2> QED BY <2>1, <2>3, RunsAreRecorded
<1> QED BY <1>3, <1>4, <1>5, <1>6, <1>7, <1>8, <1>9, <1>10 DEF DagNext

\* The rows are always what the last node made of its inputs.
LEMMA RunsAreOnRecord == DagSpec /\ []JoinKeysAreThere => []Recorded
<1> DEFINE Inv == StepsAreBounded /\ RowsAreShaped /\ Recorded
<1>1. DagInit => Inv
  <2>1. DagInit => Recorded
    BY DEF DagInit, Recorded
  <2> QED BY <2>1, StartFits
<1>2. Inv /\ JoinKeysAreThere /\ [DagNext]_dagVars => Inv'
  <2>1. CASE DagNext
    BY <2>1, StepsFit, StepsAreRecorded
  <2>2. ASSUME UNCHANGED dagVars PROVE Inv <=> Inv'
    BY <2>2 DEF dagVars, StepsAreBounded, RowsAreShaped, Recorded
  <2> QED BY <2>1, <2>2
<1> QED BY <1>1, <1>2, PTL DEF DagSpec

-----------------------------------------------------------------------------
(* Top K is the beginning of the sort *)

\* The order of the property is that of the sort.
LEMMA PrecedesLeads ==
  ASSUME NEW i, NEW j
  PROVE  Precedes(i, j) <=> Leads(last.orderBy, before.shape, before.left, i, j)
<1> DEFINE by == last.orderBy
           list == before.left
           Type(k) == before.shape[by[k].field].type
           X(k) == Value(list[i], by[k].field)
           Y(k) == Value(list[j], by[k].field)
           Same(k) == \/ X(k) = None /\ Y(k) = None
                      \/ /\ X(k) # None /\ Y(k) # None
                         /\ ~(CompareSemanticValues(Type(k), X(k), Y(k)) < 0)
                         /\ ~(CompareSemanticValues(Type(k), Y(k), X(k)) < 0)
           Earlier(k) == \/ X(k) = None /\ Y(k) # None /\ by[k].nulls = "first"
                         \/ X(k) # None /\ Y(k) = None /\ by[k].nulls = "last"
                         \/ /\ X(k) # None /\ Y(k) # None
                            /\ IF by[k].direction = "asc"
                               THEN CompareSemanticValues(Type(k), X(k), Y(k)) < 0
                               ELSE CompareSemanticValues(Type(k), Y(k), X(k)) < 0
<1>1. Precedes(i, j) <=> \/ \E k \in DOMAIN by : Earlier(k) /\ \A m \in 1 .. k - 1 : Same(m)
                         \/ i < j /\ \A k \in DOMAIN by : Same(k)
  BY Zenon DEF Precedes
<1>2. Leads(by, before.shape, list, i, j) <=>
        \/ \E k \in DOMAIN by : Earlier(k) /\ \A m \in 1 .. k - 1 : Same(m)
        \/ i < j /\ \A k \in DOMAIN by : Same(k)
  BY Zenon DEF Leads, SameBy, EarlierBy
<1> QED BY <1>1, <1>2

\* The result of a sort has the property.
LEMMA SortedKeepTheTop ==
  ASSUME Ran("sort"), WellConfigured(last), SortRan(last, before, rows)
  PROVE  SortKeepsTheTop
<1>1. last.op = "sort"
  BY DEF Ran
<1>2. PICK s : /\ Shaped(s, before.shape, before.left) /\ SortShape(last, s) # Invalid
               /\ rows = SortRows(last, before.left, before.shape) /\ rows # Throws
  BY DEF SortRan
<1> DEFINE list == before.left
           order == SortOrder(last, before.shape)
<1>3. Sorts(last, s)
  BY <1>1, <1>2, CheckedSorts
<1>4. SortedAs(last, list, order, rows)
  BY <1>2, <1>3, SortFacts
<1>5. CanBeSorted(order, s, SortItems(list))
  BY <1>2, <1>3, ItemsCanBeSorted
<1>6. order.by = last.orderBy /\ order.shape = before.shape
  BY DEF SortOrder
<1>7. Len(list) \in Nat /\ DOMAIN list = 1 .. Len(list) /\ IsSequence(rows)
  BY <1>2, <1>4, SequenceFacts DEF Shaped, SortedAs
<1>8. DOMAIN rows = 1 .. Len(rows)
  BY <1>7, SequenceFacts
<1> HIDE DEF list, order
<1>9. ASSUME NEW i \in DOMAIN list PROVE PlacesBefore(list, order, i) = {j \in DOMAIN list \ {i} : Precedes(j, i)}
  <2>1. ASSUME NEW j \in DOMAIN list, j # i
        PROVE  Worse(Item(list, i), Item(list, j), order) <=> Precedes(j, i)
    <3> DEFINE C == CompareRows(Item(list, i), Item(list, j), order)
               D == CompareRows(Item(list, j), Item(list, i), order)
    <3>1. Item(list, i) \in SortItems(list) /\ Item(list, j) \in SortItems(list)
          /\ Item(list, i) # Item(list, j)
      BY <2>1 DEF SortItems, Item
    <3>2. C # Throws /\ SortsItems(order, s, SortItems(list))
      BY <1>5, <3>1 DEF CanBeSorted
    <3>3. C \in Int /\ D = -C
      BY <3>1, <3>2, RowsAreFair
    <3>4. i \in Int /\ j \in Int
      BY <1>7 DEF list
    <3>5. Leads(order.by, order.shape, list, j, i) <=> D < 0
      BY <1>5, <2>1, <3>4, Leading
    <3>6. Precedes(j, i) <=> Leads(order.by, order.shape, list, j, i)
      BY <1>6, PrecedesLeads DEF list
    <3> HIDE DEF C, D
    <3>7. D < 0 <=> C > 0
      BY <3>3, Negation
    <3> QED BY <3>5, <3>6, <3>7 DEF Worse, C
  <2> QED BY <2>1 DEF PlacesBefore
<1>10. ASSUME NEW n \in DOMAIN rows
       PROVE  \E i \in DOMAIN before.left :
                /\ rows[n] = before.left[i]
                /\ Cardinality({j \in DOMAIN before.left \ {i} : Precedes(j, i)}) = n - 1
  <2>1. PICK i \in DOMAIN list : rows[n] = list[i] /\ Cardinality(PlacesBefore(list, order, i)) = n - 1
    BY <1>4, <1>8 DEF SortedAs
  <2>2. Cardinality({j \in DOMAIN list \ {i} : Precedes(j, i)}) = n - 1
    BY <1>9, <2>1
  <2> QED BY <2>1, <2>2 DEF list
<1>11. Len(rows) = IF last.limit # None /\ last.limit < Len(before.left)
                   THEN last.limit ELSE Len(before.left)
  BY <1>4 DEF SortedAs, Remaining, list
<1> QED BY <1>10, <1>11 DEF SortKeepsTheTop

\* Top K through the bounded heap is the beginning of the complete stable sort,
\* whatever the rows, the keys and the limit are.
THEOREM TopIsKept == DagSpec /\ []JoinKeysAreThere => []SortKeepsTheTop
<1>1. Recorded => SortKeepsTheTop
  <2>1. CASE Ran("sort")
    <3>1. Recorded => WellConfigured(last) /\ SortRan(last, before, rows)
      BY <2>1 DEF Recorded, DoneBy, Ran
    <3> QED BY <2>1, <3>1, SortedKeepTheTop
  <2>2. CASE ~Ran("sort")
    BY <2>2 DEF SortKeepsTheTop
  <2> QED BY <2>1, <2>2
<1> QED BY <1>1, RunsAreOnRecord, PTL

-----------------------------------------------------------------------------
(* Predicates written as expressions *)

\* An expression of booleans, nested so deep at most.
IsTest(e, depth, shape) ==
  /\ NestsWithin(e, depth)
  /\ InferExpression(e, shape) \in Fields
  /\ InferExpression(e, shape).type = "boolean"

\* The expressions a predicate is written with: a field, a literal, and a test of one
\* by the other.
FieldNode(f) == [op |-> "field", field |-> f]
LiteralNode(type, v) == [op |-> "literal", valueType |-> type, value |-> v]
TestNode(op, f, type, v) == [op |-> op, inputs |-> <<FieldNode(f), LiteralNode(type, v)>>]

\* What nests within some levels nests within any greater number.
LEMMA NestingGrows ==
  ASSUME NEW e, NEW m \in Nat, NestsWithin(e, m)
  PROVE  \A n \in Nat : n >= m => NestsWithin(e, n)
<1> DEFINE Good == {k \in Nat : NestsWithin(e, m + k)}
<1>1. 0 \in Good
  BY m + 0 = m
<1>2. ASSUME NEW k \in Nat, k \in Good PROVE k + 1 \in Good
  <2>1. NestsWithin(e, (m + k) + 1)
    BY <1>2, DeeperNesting, m + k \in Nat
  <2> QED BY <2>1, m + (k + 1) = (m + k) + 1
<1>3. \A k \in Nat : k \in Good
  <2> HIDE DEF Good
  <2> QED BY <1>1, <1>2, FromNumberToNumber
<1>4. ASSUME NEW n \in Nat, n >= m PROVE NestsWithin(e, n)
  <2>1. n - m \in Nat /\ m + (n - m) = n
    BY <1>4
  <2> QED BY <1>3, <2>1
<1> QED BY <1>4

\* What nests within eight levels is within the compiler's limit.
LEMMA ShallowNests ==
  ASSUME NEW e, NEW n \in Nat, n <= 8, NestsWithin(e, n)
  PROVE  WellNested(e)
<1>1. 8 \in Nat /\ 8 >= n
  OBVIOUS
<1>2. NestsWithin(e, 8)
  BY <1>1, NestingGrows
<1> QED BY <1>2 DEF WellNested, MaxDepth

\* A field and a literal are what they stand for.
LEMMA LeafFacts ==
  ASSUME NEW f, NEW type, NEW v, NEW row, NEW shape, f \in DOMAIN shape
  PROVE  /\ NestsWithin(FieldNode(f), 0) /\ NestsWithin(LiteralNode(type, v), 0)
         /\ InferExpression(FieldNode(f), shape) = shape[f]
         /\ InferExpression(LiteralNode(type, v), shape) = Field(type, v = None)
         /\ Evaluate(FieldNode(f), row, shape) = IF f \in DOMAIN row THEN row[f] ELSE Throws
         /\ Evaluate(LiteralNode(type, v), row, shape) = v
<1> DEFINE x == FieldNode(f)
           y == LiteralNode(type, v)
<1>1. x.op = "field" /\ x.field = f /\ y.op = "literal" /\ y.valueType = type /\ y.value = v
  BY DEF FieldNode, LiteralNode
<1> HIDE DEF x, y
<1>2. Operands(x) = {} /\ Operands(y) = {}
  BY <1>1 DEF Operands
<1>3. NestsWithin(x, 0) /\ NestsWithin(y, 0)
  BY <1>2, NestingFacts
<1>4. ASSUME NEW e, NestsWithin(e, 0) PROVE WellNested(e)
  BY <1>4, ShallowNests
<1>5. WellNested(x) /\ WellNested(y)
  BY <1>3, <1>4
<1>6. InferExpression(x, shape) = IF x.field \in DOMAIN shape THEN shape[x.field] ELSE Invalid
  BY <1>1, <1>5, InferenceIsRecursive, Zenon
<1>7. InferExpression(y, shape) = Field(y.valueType, y.value = None)
  BY <1>1, <1>5, InferenceIsRecursive
<1>8. Evaluate(x, row, shape) = IF x.field \in DOMAIN row THEN row[x.field] ELSE Throws
  BY <1>1, <1>5, EvaluationIsRecursive, Zenon
<1>9. Evaluate(y, row, shape) = y.value
  BY <1>1, <1>5, EvaluationIsRecursive
<1> QED BY <1>1, <1>3, <1>6, <1>7, <1>8, <1>9 DEF x, y

\* What the inputs of an operation are inferred and evaluated to.
TypesOf(list, shape) == [i \in DOMAIN list |-> InferExpression(list[i], shape)]
OutcomesOf(list, row, shape) == [i \in DOMAIN list |-> Evaluate(list[i], row, shape)]

\* An operation is what its operator makes of its inputs.
LEMMA NodeFacts ==
  ASSUME NEW op, NEW list, op \notin {"field", "literal"}, NEW n \in Nat, n < 8,
         \A i \in DOMAIN list : NestsWithin(list[i], n), NEW row, NEW shape
  PROVE  /\ NestsWithin([op |-> op, inputs |-> list], n + 1)
         /\ InferExpression([op |-> op, inputs |-> list], shape) =
              IF \E i \in DOMAIN list : TypesOf(list, shape)[i] = Invalid THEN Invalid
              ELSE InferOperation(op, TypesOf(list, shape))
         /\ Evaluate([op |-> op, inputs |-> list], row, shape) =
              Operate(op, OutcomesOf(list, row, shape), TypesOf(list, shape))
<1> DEFINE e == [op |-> op, inputs |-> list]
<1>1. e.op = op /\ e.inputs = list
  OBVIOUS
<1> HIDE DEF e
<1>2. \A x \in Operands(e) : NestsWithin(x, n)
  BY <1>1 DEF Operands
<1>3. NestsWithin(e, n + 1)
  BY <1>2, NestingFacts
<1>4. WellNested(e)
  <2>1. n + 1 \in Nat /\ n + 1 <= 8
    OBVIOUS
  <2> HIDE DEF WellNested
  <2> QED BY <1>3, <2>1, ShallowNests
<1>5. e.op # "field" /\ e.op # "literal"
  BY <1>1
<1> DEFINE A == [i \in DOMAIN e.inputs |-> InferExpression(e.inputs[i], shape)]
           V == [i \in DOMAIN e.inputs |-> Evaluate(e.inputs[i], row, shape)]
<1>6. InferExpression(e, shape) = IF \E i \in DOMAIN A : A[i] = Invalid THEN Invalid
                                  ELSE InferOperation(e.op, A)
  BY <1>4, <1>5, InferenceIsRecursive
<1>7. Evaluate(e, row, shape) = Operate(e.op, V, A)
  BY <1>4, <1>5, EvaluationIsRecursive
<1>8. A = TypesOf(list, shape) /\ V = OutcomesOf(list, row, shape) /\ DOMAIN A = DOMAIN list
  BY <1>1 DEF TypesOf, OutcomesOf
<1> HIDE DEF A, V
<1> QED BY <1>1, <1>3, <1>6, <1>7, <1>8 DEF e

\* An expression that gives a row a truth value, which may be null.
Judges(e, depth, row, shape) ==
  IsTest(e, depth, shape) /\ Evaluate(e, row, shape) \in BOOLEAN \union {None}

\* Null, an exception and a refusal are no truth values.
LEMMA MarkersAreNoTruths == None \notin BOOLEAN /\ Throws \notin BOOLEAN /\ Invalid \notin BOOLEAN /\ None # Throws
  BY MarkersAreNoValues

\* Two inputs of one type have that type in common.
LEMMA SameTypeMerged ==
  ASSUME NEW list, DOMAIN list = 1 .. 2, NEW type \in Types, list[1].type = type, list[2].type = type
  PROVE  MergedType(list) = type
<1>1. ~\E i \in DOMAIN list : ~Compatible(list[1].type, list[i].type)
  BY DEF Compatible
<1>2. AllOf(list, Numeric) => type \in {"integer", "decimal"}
  BY DEF AllOf, Numeric
<1>3. type \in {"integer", "decimal"} => Widest(list) = type
  BY DEF Widest
<1> QED BY <1>1, <1>2, <1>3 DEF MergedType

\* A test is true, false or, on null, null.
LEMMA TestFacts ==
  ASSUME NEW shape, IsShape(shape), NEW f \in DOMAIN shape, NEW type, type = shape[f].type,
         NEW v \in ValuesOf(type), NEW op \in Comparisons, NEW row, f \in DOMAIN row,
         row[f] # None => CompareSemanticValues(type, row[f], v) # Throws, row[f] # Throws
  PROVE  /\ IsTest(TestNode(op, f, type, v), 1, shape)
         /\ Evaluate(TestNode(op, f, type, v), row, shape)
              = IF row[f] = None THEN None ELSE Holds(op, CompareSemanticValues(type, row[f], v))
<1> DEFINE e == TestNode(op, f, type, v)
           list == <<FieldNode(f), LiteralNode(type, v)>>
           A == TypesOf(list, shape)
           V == OutcomesOf(list, row, shape)
           comparison == CompareSemanticValues(type, row[f], v)
<1>1. type \in Types /\ shape[f] \in Fields
  BY DEF IsShape, Fields
<1>2. v # None /\ v # Throws
  BY <1>1, ValuesAreNoMarkers
<1>3. DOMAIN list = 1 .. 2 /\ list[1] = FieldNode(f) /\ list[2] = LiteralNode(type, v)
  OBVIOUS
<1>4. e = [op |-> op, inputs |-> list]
  BY DEF TestNode
<1>5. op \notin {"field", "literal"} /\ op \notin {"not", "and", "or", "if", "coalesce"}
  BY DEF Comparisons
<1>6. Field(type, v = None) = Field(type, FALSE) /\ Field(type, FALSE) \in Fields
      /\ Field(type, FALSE).type = type
  <2>1. Field(type, FALSE) \in Fields /\ Field(type, FALSE).type = type
    BY <1>1, FieldFacts
  <2>2. (v = None) = FALSE
    BY <1>2
  <2> QED BY <2>1, <2>2
<1> HIDE DEF list, e
<1>7. /\ \A i \in DOMAIN list : NestsWithin(list[i], 0)
      /\ DOMAIN A = 1 .. 2 /\ A[1] = shape[f] /\ A[2] = Field(type, FALSE)
      /\ DOMAIN V = 1 .. 2 /\ V[1] = row[f] /\ V[2] = v
  <2> DEFINE x == FieldNode(f)
             y == LiteralNode(type, v)
  <2>1. /\ NestsWithin(x, 0) /\ NestsWithin(y, 0)
        /\ InferExpression(x, shape) = shape[f] /\ InferExpression(y, shape) = Field(type, v = None)
        /\ Evaluate(x, row, shape) = IF f \in DOMAIN row THEN row[f] ELSE Throws
        /\ Evaluate(y, row, shape) = v
    BY LeafFacts
  <2> HIDE DEF x, y
  <2>2. \A i \in 1 .. 2 : i = 1 \/ i = 2
    OBVIOUS
  <2>3. list[1] = x /\ list[2] = y
    BY <1>3 DEF x, y
  <2>4. DOMAIN A = DOMAIN list /\ DOMAIN V = DOMAIN list
    BY DEF TypesOf, OutcomesOf
  <2>5. A[1] = InferExpression(x, shape) /\ A[2] = InferExpression(y, shape)
    BY <1>3, <2>3 DEF TypesOf
  <2>6. V[1] = Evaluate(x, row, shape) /\ V[2] = Evaluate(y, row, shape)
    BY <1>3, <2>3 DEF OutcomesOf
  <2> HIDE DEF A, V
  <2>7. \A i \in DOMAIN list : NestsWithin(list[i], 0)
    BY <1>3, <2>1, <2>2, <2>3
  <2> QED BY <1>3, <1>6, <2>1, <2>4, <2>5, <2>6, <2>7
<1>8. /\ NestsWithin(e, 1)
      /\ InferExpression(e, shape) = IF \E i \in DOMAIN list : A[i] = Invalid THEN Invalid
                                     ELSE InferOperation(op, A)
      /\ Evaluate(e, row, shape) = Operate(op, V, A)
  <2>1. 0 \in Nat /\ 0 < 8 /\ 0 + 1 = 1
    OBVIOUS
  <2> HIDE DEF A, V
  <2> QED BY <1>4, <1>5, <1>7, <2>1, NodeFacts DEF A, V
<1> HIDE DEF A, V
<1>9. InferExpression(e, shape) = InferOperation(op, A)
  <2>1. A[1] # Invalid /\ A[2] # Invalid
    BY <1>1, <1>6, <1>7, FieldsAreValid
  <2> QED BY <1>3, <1>8, <2>1
<1>10. InferOperation(op, A) = Field("boolean", Nullable(A))
  <2>1. Compatible(A[1].type, A[2].type)
    BY <1>6, <1>7 DEF Compatible
  <2> QED BY <2>1 DEF InferOperation, Comparisons
<1>11. IsTest(e, 1, shape)
  <2>1. PICK null \in BOOLEAN : null = Nullable(A)
    BY DEF Nullable
  <2>2. "boolean" \in Types
    BY TypesOfValues
  <2>3. InferExpression(e, shape) = Field("boolean", null)
    BY <1>9, <1>10, <2>1
  <2>4. Field("boolean", null) \in Fields /\ Field("boolean", null).type = "boolean"
    BY <2>2, FieldFacts
  <2> QED BY <1>8, <2>3, <2>4 DEF IsTest
<1>12. Operate(op, V, A) = Strict(op, V, type)
  <2>1. MergedType(A) = type
    BY <1>1, <1>6, <1>7, SameTypeMerged
  <2>2. Operate(op, V, A) = Strict(op, V, MergedType(A))
    BY <1>5 DEF Operate
  <2> QED BY <2>1, <2>2
<1>13. CASE row[f] = None
  <2>1. Strict(op, V, type) = None
    BY <1>2, <1>7, <1>13 DEF Strict
  <2> QED BY <1>8, <1>11, <1>12, <1>13, <2>1 DEF e
<1>14. CASE row[f] # None
  <2>1. Strict(op, V, type) = Compute(op, V, type)
    BY <1>2, <1>7, <1>14 DEF Strict
  <2> DEFINE C == CompareSemanticValues(type, V[1], V[2])
  <2>2. Compute(op, V, type) = IF C = Throws THEN Throws ELSE Holds(op, C)
    BY DEF Compute, Comparisons
  <2>3. C = comparison
    BY <1>7
  <2>4. comparison # Throws
    BY <1>14
  <2> HIDE DEF C, comparison
  <2>5. Compute(op, V, type) = Holds(op, comparison)
    BY <2>2, <2>3, <2>4
  <2> QED BY <1>8, <1>11, <1>12, <1>14, <2>1, <2>5 DEF e, comparison
<1> QED BY <1>13, <1>14

-----------------------------------------------------------------------------
(* The logic of three values *)

\* The truth values of an expression.
Truth == BOOLEAN \union {None}

\* The value b decides an operation: false for and, true for or.
Decides(op, v, n, b) ==
  /\ (\E i \in 1 .. n : v[i] = b) => Logical(op, v) = b
  /\ ~(\E i \in 1 .. n : v[i] = b) =>
       Logical(op, v) = IF \E i \in 1 .. n : v[i] = None THEN None ELSE op = "and"

\* One input that decides is enough, whatever the others are; else null wins.
LEMMA DecidedFacts ==
  ASSUME NEW op, NEW n \in Nat, NEW v, DOMAIN v = 1 .. n, \A i \in 1 .. n : v[i] \in Truth,
         NEW b \in BOOLEAN, b = (op = "or")
  PROVE  Decides(op, v, n, b)
<1> DEFINE deciding == {i \in DOMAIN v : v[i] = Throws \/ v[i] = b}
<1>1. Logical(op, v) = IF deciding # {} THEN v[FirstOf(deciding)]
                       ELSE IF \E i \in DOMAIN v : v[i] = None THEN None
                       ELSE op = "and"
  BY Zenon DEF Logical
<1>2. \A i \in 1 .. n : v[i] # Throws
  BY MarkersAreNoTruths DEF Truth
<1>3. \A i : i \in deciding <=> i \in 1 .. n /\ v[i] = b
  BY <1>2
<1> HIDE DEF deciding
<1>4. CASE \E i \in 1 .. n : v[i] = b
  <2>1. deciding # {} /\ deciding \subseteq 1 .. n
    BY <1>3, <1>4
  <2>2. deciding \in SUBSET Nat
    BY <2>1
  <2>3. FirstOf(deciding) \in deciding
    BY <2>1, <2>2, FirstOfFacts
  <2>4. Logical(op, v) = v[FirstOf(deciding)]
    BY <1>1, <2>1
  <2> QED BY <1>3, <1>4, <2>3, <2>4 DEF Decides
<1>5. CASE ~\E i \in 1 .. n : v[i] = b
  <2>1. deciding = {}
    BY <1>3, <1>5
  <2> QED BY <1>1, <1>5, <2>1, Zenon DEF Decides
<1> QED BY <1>4, <1>5 DEF Decides

\* The logic of three values.
LEMMA LogicalFacts ==
  ASSUME NEW op \in {"and", "or"}, NEW n \in Nat, n >= 1, NEW v, DOMAIN v = 1 .. n,
         \A i \in 1 .. n : v[i] \in Truth
  PROVE  /\ Logical(op, v) \in Truth
         /\ op = "and" => (Logical(op, v) = TRUE <=> \A i \in 1 .. n : v[i] = TRUE)
         /\ op = "or" => /\ Logical(op, v) = TRUE <=> \E i \in 1 .. n : v[i] = TRUE
                         /\ Logical(op, v) = FALSE <=> \A i \in 1 .. n : v[i] = FALSE
<1> DEFINE L == Logical(op, v)
<1>1. PICK b \in BOOLEAN : b = (op = "or")
  OBVIOUS
<1>2. /\ (\E i \in 1 .. n : v[i] = b) => L = b
      /\ ~(\E i \in 1 .. n : v[i] = b) => L = IF \E i \in 1 .. n : v[i] = None THEN None ELSE op = "and"
  <2>1. Decides(op, v, n, b)
    BY <1>1, DecidedFacts
  <2> QED BY <2>1, Zenon DEF Decides
<1>3. 1 \in 1 .. n
  OBVIOUS
<1>4. None # TRUE /\ None # FALSE
  BY MarkersAreNoTruths
<1>5. \A i \in 1 .. n : v[i] = TRUE \/ v[i] = FALSE \/ v[i] = None
  <2>1. \A x \in Truth : x = TRUE \/ x = FALSE \/ x = None
    <3>1. \A x \in BOOLEAN : x = TRUE \/ x = FALSE
      OBVIOUS
    <3> QED BY <3>1, Zenon DEF Truth
  <2> QED BY <2>1
<1> HIDE DEF L
<1>6. CASE op = "and"
  <2>1. b = FALSE /\ (op = "and") = TRUE
    BY <1>1, <1>6
  <2>2. /\ (\E i \in 1 .. n : v[i] = FALSE) => L = FALSE
        /\ ~(\E i \in 1 .. n : v[i] = FALSE) => L = IF \E i \in 1 .. n : v[i] = None THEN None ELSE TRUE
    BY <1>2, <2>1
  <2>3. L \in Truth
    BY <2>2, Zenon DEF Truth
  <2>4. L = TRUE <=> \A i \in 1 .. n : v[i] = TRUE
    <3>1. CASE \E i \in 1 .. n : v[i] = FALSE
      BY <2>2, <3>1
    <3>2. CASE (~\E i \in 1 .. n : v[i] = FALSE) /\ (\E i \in 1 .. n : v[i] = None)
      BY <1>4, <2>2, <3>2
    <3>3. CASE (~\E i \in 1 .. n : v[i] = FALSE) /\ (~\E i \in 1 .. n : v[i] = None)
      BY <1>5, <2>2, <3>3
    <3> QED BY <3>1, <3>2, <3>3
  <2> QED BY <1>6, <2>3, <2>4 DEF L
<1>7. CASE op = "or"
  <2>1. b = TRUE /\ (op = "and") = FALSE
    BY <1>1, <1>7
  <2>2. /\ (\E i \in 1 .. n : v[i] = TRUE) => L = TRUE
        /\ ~(\E i \in 1 .. n : v[i] = TRUE) => L = IF \E i \in 1 .. n : v[i] = None THEN None ELSE FALSE
    BY <1>2, <2>1
  <2>3. L \in Truth
    BY <2>2, Zenon DEF Truth
  <2>4. (L = TRUE <=> \E i \in 1 .. n : v[i] = TRUE) /\ (L = FALSE <=> \A i \in 1 .. n : v[i] = FALSE)
    <3>1. CASE \E i \in 1 .. n : v[i] = TRUE
      BY <2>2, <3>1
    <3>2. CASE (~\E i \in 1 .. n : v[i] = TRUE) /\ (\E i \in 1 .. n : v[i] = None)
      BY <1>4, <2>2, <3>2
    <3>3. CASE (~\E i \in 1 .. n : v[i] = TRUE) /\ (~\E i \in 1 .. n : v[i] = None)
      BY <1>5, <2>2, <3>3
    <3> QED BY <3>1, <3>2, <3>3
  <2> QED BY <1>7, <2>3, <2>4 DEF L
<1> QED BY <1>6, <1>7

-----------------------------------------------------------------------------
\* A conjunction is true where all its tests are, a disjunction where one is.
LEMMA CombinedFacts ==
  ASSUME NEW op \in {"and", "or"}, NEW list, IsSequence(list), list # <<>>,
         NEW n \in Nat, n < 8, NEW row, NEW shape,
         \A i \in DOMAIN list : Judges(list[i], n, row, shape)
  PROVE  /\ Judges(Combined(op, list), n + 1, row, shape)
         /\ op = "and" => (Evaluate(Combined(op, list), row, shape) = TRUE
                             <=> \A i \in DOMAIN list : Evaluate(list[i], row, shape) = TRUE)
         /\ op = "or" => /\ Evaluate(Combined(op, list), row, shape) = TRUE
                              <=> \E i \in DOMAIN list : Evaluate(list[i], row, shape) = TRUE
                         /\ Evaluate(Combined(op, list), row, shape) = FALSE
                              <=> \A i \in DOMAIN list : Evaluate(list[i], row, shape) = FALSE
<1> DEFINE e == Combined(op, list)
           v == OutcomesOf(list, row, shape)
           A == TypesOf(list, shape)
           N == Len(list)
<1>1. N \in Nat /\ DOMAIN list = 1 .. N /\ N >= 1
  <2>1. Len(list) \in Nat /\ DOMAIN list = 1 .. Len(list) /\ list = [i \in 1 .. Len(list) |-> list[i]]
    BY SequenceFacts
  <2>2. list \in Seq(ToSet(list))
    BY DEF IsSequence
  <2>3. Len(list) # 0
    BY <2>2
  <2> QED BY <2>1, <2>3
<1>2. \A i \in DOMAIN list : /\ NestsWithin(list[i], n) /\ InferExpression(list[i], shape) \in Fields
                             /\ InferExpression(list[i], shape).type = "boolean"
                             /\ Evaluate(list[i], row, shape) \in Truth
  BY DEF Judges, IsTest, Truth
<1>3. CASE N = 1
  <2>1. e = list[1]
    BY <1>3 DEF Combined
  <2>2. \A i \in DOMAIN list : i = 1
    BY <1>1, <1>3
  <2>3. 1 \in DOMAIN list
    BY <1>1
  <2>4. NestsWithin(list[1], n + 1)
    BY <1>2, <2>3, DeeperNesting
  <2>5. Judges(e, n + 1, row, shape)
    BY <2>1, <2>3, <2>4 DEF Judges, IsTest
  <2> HIDE DEF e
  <2> QED BY <2>1, <2>2, <2>3, <2>5 DEF e
<1>4. CASE N # 1
  <2>1. e = [op |-> op, inputs |-> list]
    BY <1>4 DEF Combined
  <2>2. DOMAIN v = 1 .. N /\ DOMAIN A = 1 .. N
        /\ \A i \in 1 .. N : v[i] = Evaluate(list[i], row, shape) /\ A[i] = InferExpression(list[i], shape)
    BY <1>1 DEF OutcomesOf, TypesOf
  <2>3. op \notin {"field", "literal"}
    OBVIOUS
  <2> HIDE DEF e, v, A, N
  <2>4. /\ NestsWithin(e, n + 1)
        /\ InferExpression(e, shape) = IF \E i \in DOMAIN list : A[i] = Invalid THEN Invalid
                                       ELSE InferOperation(op, A)
        /\ Evaluate(e, row, shape) = Operate(op, v, A)
    <3> DEFINE x == [op |-> op, inputs |-> list]
    <3>1. \A i \in DOMAIN list : NestsWithin(list[i], n)
      BY <1>2
    <3>2. /\ NestsWithin(x, n + 1)
          /\ InferExpression(x, shape) = IF \E i \in DOMAIN list : A[i] = Invalid THEN Invalid
                                         ELSE InferOperation(op, A)
          /\ Evaluate(x, row, shape) = Operate(op, v, A)
      BY <2>3, <3>1, NodeFacts DEF v, A
    <3> HIDE DEF x
    <3> QED BY <2>1, <3>2 DEF x
  <2>5. \A i \in DOMAIN A : A[i] # Invalid /\ A[i].type = "boolean"
    BY <1>1, <1>2, <2>2, FieldsAreValid
  <2>6. InferExpression(e, shape) = InferOperation(op, A)
    BY <1>1, <2>2, <2>4, <2>5
  <2>7. InferOperation(op, A) = Field("boolean", Nullable(A))
    <3>1. AllOf(A, {"boolean"})
      BY <2>5 DEF AllOf
    <3> QED BY <3>1 DEF InferOperation, Comparisons
  <2>8. IsTest(e, n + 1, shape)
    <3>1. PICK null \in BOOLEAN : null = Nullable(A)
      BY DEF Nullable
    <3>2. "boolean" \in Types
      BY TypesOfValues
    <3>3. InferExpression(e, shape) = Field("boolean", null)
      BY <2>6, <2>7, <3>1
    <3>4. Field("boolean", null) \in Fields /\ Field("boolean", null).type = "boolean"
      BY <3>2, FieldFacts
    <3> QED BY <2>4, <3>3, <3>4 DEF IsTest
  <2>9. Operate(op, v, A) = Logical(op, v)
    <3>1. op # "if"
      OBVIOUS
    <3> QED BY <3>1, Zenon DEF Operate
  <2>10. \A i \in 1 .. N : v[i] \in Truth
    BY <1>1, <1>2, <2>2
  <2>11. /\ Logical(op, v) \in Truth
         /\ op = "and" => (Logical(op, v) = TRUE <=> \A i \in 1 .. N : v[i] = TRUE)
         /\ op = "or" => /\ Logical(op, v) = TRUE <=> \E i \in 1 .. N : v[i] = TRUE
                         /\ Logical(op, v) = FALSE <=> \A i \in 1 .. N : v[i] = FALSE
    BY <1>1, <2>2, <2>10, LogicalFacts
  <2>12. Evaluate(e, row, shape) = Logical(op, v)
    BY <2>4, <2>9
  <2>13. Judges(e, n + 1, row, shape)
    BY <2>8, <2>11, <2>12 DEF Judges, Truth
  <2> QED BY <1>1, <2>2, <2>11, <2>12, <2>13 DEF e
<1> QED BY <1>3, <1>4

\* A negation is true where its input is false.
LEMMA NegationFacts ==
  ASSUME NEW x, NEW n \in Nat, n < 8, NEW row, NEW shape, Judges(x, n, row, shape)
  PROVE  /\ Judges([op |-> "not", inputs |-> <<x>>], n + 1, row, shape)
         /\ Evaluate([op |-> "not", inputs |-> <<x>>], row, shape) = TRUE
              <=> Evaluate(x, row, shape) = FALSE
<1> DEFINE list == <<x>>
           e == [op |-> "not", inputs |-> list]
           v == OutcomesOf(list, row, shape)
           A == TypesOf(list, shape)
<1>1. DOMAIN list = {1} /\ list[1] = x
  OBVIOUS
<1> HIDE DEF list
<1>2. DOMAIN v = {1} /\ DOMAIN A = {1} /\ v[1] = Evaluate(x, row, shape) /\ A[1] = InferExpression(x, shape)
  BY <1>1 DEF OutcomesOf, TypesOf
<1>3. /\ NestsWithin(x, n) /\ A[1] \in Fields /\ A[1].type = "boolean" /\ v[1] \in Truth
  BY <1>2 DEF Judges, IsTest, Truth
<1>4. \A i \in DOMAIN list : NestsWithin(list[i], n)
  BY <1>1, <1>3
<1>5. /\ NestsWithin(e, n + 1)
      /\ InferExpression(e, shape) = IF \E i \in DOMAIN list : A[i] = Invalid THEN Invalid
                                     ELSE InferOperation("not", A)
      /\ Evaluate(e, row, shape) = Operate("not", v, A)
  <2>1. "not" \notin {"field", "literal"}
    OBVIOUS
  <2> HIDE DEF v, A
  <2> QED BY <1>4, <2>1, NodeFacts DEF v, A
<1> HIDE DEF e, v, A
<1>6. InferExpression(e, shape) = Field("boolean", Nullable(A))
  <2>1. AllOf(A, {"boolean"})
    BY <1>2, <1>3 DEF AllOf
  <2>2. InferOperation("not", A) = Field("boolean", Nullable(A))
    BY <2>1 DEF InferOperation, Comparisons
  <2>3. A[1] # Invalid
    BY <1>3, FieldsAreValid
  <2> QED BY <1>1, <1>5, <2>2, <2>3
<1>7. IsTest(e, n + 1, shape)
  <2>1. PICK null \in BOOLEAN : null = Nullable(A)
    BY DEF Nullable
  <2>2. "boolean" \in Types
    BY TypesOfValues
  <2>3. InferExpression(e, shape) = Field("boolean", null)
    BY <1>6, <2>1
  <2>4. Field("boolean", null) \in Fields /\ Field("boolean", null).type = "boolean"
    BY <2>2, FieldFacts
  <2> QED BY <1>5, <2>3, <2>4 DEF IsTest
<1>8. Operate("not", v, A) = IF v[1] = Throws THEN Throws ELSE IF v[1] = None THEN None ELSE ~v[1]
  <2>1. Operate("not", v, A) = Strict("not", v, MergedType(A))
    BY DEF Operate
  <2>2. Strict("not", v, MergedType(A)) = IF \E i \in DOMAIN v : v[i] = Throws THEN Throws
                                          ELSE IF \E i \in DOMAIN v : v[i] = None THEN None
                                          ELSE Compute("not", v, MergedType(A))
    BY Zenon DEF Strict
  <2>3. Compute("not", v, MergedType(A)) = ~v[1]
    BY DEF Compute, Comparisons
  <2> QED BY <1>2, <2>1, <2>2, <2>3
<1>9. v[1] = TRUE \/ v[1] = FALSE \/ v[1] = None
  BY <1>3, Zenon DEF Truth
<1>10. None # TRUE /\ None # FALSE /\ TRUE # Throws /\ FALSE # Throws /\ None # Throws
  BY MarkersAreNoTruths
<1>11. CASE v[1] = TRUE
  <2>1. Evaluate(e, row, shape) = FALSE
    BY <1>5, <1>8, <1>10, <1>11
  <2> QED BY <1>2, <1>7, <1>11, <2>1 DEF Judges, e, list
<1>12. CASE v[1] = FALSE
  <2>1. Evaluate(e, row, shape) = TRUE
    BY <1>5, <1>8, <1>10, <1>12
  <2> QED BY <1>2, <1>7, <1>12, <2>1 DEF Judges, e, list
<1>13. CASE v[1] = None
  <2>1. Evaluate(e, row, shape) = None
    BY <1>5, <1>8, <1>10, <1>13
  <2> QED BY <1>2, <1>7, <1>10, <1>13, <2>1 DEF Judges, e, list
<1> QED BY <1>9, <1>11, <1>12, <1>13

-----------------------------------------------------------------------------
(* Conditions *)

\* What a test makes of a row's value.
Outcome(op, type, a, v) == IF a = None THEN None ELSE Holds(op, CompareSemanticValues(type, a, v))

\* A condition that a row can be tested by.
Testable(c, row, shape) ==
  /\ IsShape(shape) /\ c.field \in DOMAIN shape /\ c.field \in DOMAIN row
  /\ row[c.field] \in ValuesOf(shape[c.field].type) \union {None}
  /\ row[c.field] # None =>
       CompareSemanticValues(shape[c.field].type, row[c.field], row[c.field]) # Throws
  /\ \A v \in ToSet(c.values) :
       v \in ValuesOf(shape[c.field].type) /\ CompareSemanticValues(shape[c.field].type, v, v) # Throws

\* The comparisons, of the result of a comparison.
LEMMA HoldsFacts ==
  ASSUME NEW op \in Comparisons, NEW n \in {-1, 0, 1}
  PROVE  /\ Holds(op, n) \in BOOLEAN
         /\ op = "eq" => (Holds(op, n) <=> n = 0)
         /\ op = "gte" => (Holds(op, n) <=> n >= 0)
         /\ op = "lte" => (Holds(op, n) <=> n <= 0)
<1>1. Holds(op, n) \in BOOLEAN
  <2>1. CASE op = "eq"
    BY <2>1 DEF Holds
  <2>2. CASE op = "ne"
    BY <2>2 DEF Holds
  <2>3. CASE op = "lt"
    BY <2>3 DEF Holds
  <2>4. CASE op = "lte"
    BY <2>4 DEF Holds
  <2>5. CASE op = "gt"
    BY <2>5 DEF Holds
  <2>6. CASE op = "gte"
    BY <2>6 DEF Holds
  <2> QED BY <2>1, <2>2, <2>3, <2>4, <2>5, <2>6 DEF Comparisons
<1>2. Holds("eq", n) = (n = 0) /\ Holds("gte", n) = (n >= 0) /\ Holds("lte", n) = (n <= 0)
  BY DEF Holds
<1> QED BY <1>1, <1>2

\* A value of a condition compares with the row's.
LEMMA ValueCompared ==
  ASSUME NEW c, NEW row, NEW shape, Testable(c, row, shape), NEW v \in ToSet(c.values),
         row[c.field] # None
  PROVE  /\ CompareSemanticValues(shape[c.field].type, row[c.field], v) # Throws
         /\ CompareSemanticValues(shape[c.field].type, row[c.field], v) \in {-1, 0, 1}
<1> DEFINE type == shape[c.field].type
           a == row[c.field]
<1>1. type \in Types /\ a \in ValuesOf(type) /\ v \in ValuesOf(type)
  BY DEF Testable, IsShape
<1>2. CompareSemanticValues(type, a, a) # Throws /\ CompareSemanticValues(type, v, v) # Throws
  BY DEF Testable
<1> HIDE DEF type, a
<1>3. Comparable(type, a) /\ Comparable(type, v)
  BY <1>1, <1>2, ComparisonFacts
<1>4. CompareSemanticValues(type, a, v) # Throws
  BY <1>1, <1>3, ComparisonFacts
<1>5. CompareSemanticValues(type, a, v) \in {-1, 0, 1}
  BY <1>1, <1>4, ComparisonFacts
<1> QED BY <1>4, <1>5 DEF type, a

\* So the test has a truth value.
LEMMA ValueTested ==
  ASSUME NEW c, NEW row, NEW shape, Testable(c, row, shape), NEW v \in ToSet(c.values),
         NEW op \in Comparisons
  PROVE  /\ Judges(TestNode(op, c.field, shape[c.field].type, v), 1, row, shape)
         /\ Evaluate(TestNode(op, c.field, shape[c.field].type, v), row, shape)
              = Outcome(op, shape[c.field].type, row[c.field], v)
<1> DEFINE f == c.field
           type == shape[f].type
           e == TestNode(op, f, type, v)
<1>1. /\ IsShape(shape) /\ f \in DOMAIN shape /\ f \in DOMAIN row /\ type \in Types
      /\ v \in ValuesOf(type) /\ row[f] \in ValuesOf(type) \union {None}
  BY DEF Testable, IsShape
<1>2. row[f] # None => CompareSemanticValues(type, row[f], v) # Throws
                       /\ CompareSemanticValues(type, row[f], v) \in {-1, 0, 1}
  BY ValueCompared
<1>3. row[f] # Throws
  BY <1>1, ValuesAreNoMarkers, MarkersAreNoTruths
<1> HIDE DEF f
<1>4. /\ IsTest(e, 1, shape)
      /\ Evaluate(e, row, shape)
           = IF row[f] = None THEN None ELSE Holds(op, CompareSemanticValues(type, row[f], v))
  BY <1>1, <1>2, <1>3, TestFacts
<1>5. Evaluate(e, row, shape) = Outcome(op, type, row[f], v)
  BY <1>4 DEF Outcome
<1>6. row[f] # None => Holds(op, CompareSemanticValues(type, row[f], v)) \in BOOLEAN
  BY <1>2, HoldsFacts
<1> HIDE DEF e, type
<1>7. Evaluate(e, row, shape) \in BOOLEAN \union {None}
  <2>1. CASE row[f] = None
    BY <1>4, <2>1
  <2>2. CASE row[f] # None
    BY <1>4, <1>6, <2>2
  <2> QED BY <2>1, <2>2
<1> QED BY <1>4, <1>5, <1>7 DEF Judges, e, type, f

-----------------------------------------------------------------------------
\* One test of equality for each value of a condition.
EqualTests(c, type) == [i \in DOMAIN c.values |-> TestNode("eq", c.field, type, c.values[i])]

\* How a condition is written.
LEMMA WrittenForms ==
  ASSUME NEW c, NEW type
  PROVE  /\ c.operator = "in" => Written(c, type) = Combined("or", EqualTests(c, type))
         /\ c.operator = "not_in" =>
              Written(c, type) = [op |-> "not", inputs |-> <<Combined("or", EqualTests(c, type))>>]
         /\ c.operator = "between" =>
              Written(c, type) = Combined("and", <<TestNode("gte", c.field, type, c.values[1]),
                                                   TestNode("lte", c.field, type, c.values[2])>>)
         /\ c.operator \notin {"in", "not_in", "between"} =>
              Written(c, type) = TestNode(c.operator, c.field, type, c.values[1])
BY DEF Written, EqualTests, TestNode, FieldNode, LiteralNode

\* How a condition is evaluated: comparisons of the row's value, none of which hold
\* of null.
LEMMA ConditionForms ==
  ASSUME NEW c, NEW row, NEW type, EvaluateCondition(row, c, type) # Throws, ~NullCheck(c)
  PROVE  /\ c.field \in DOMAIN row
         /\ row[c.field] # None => CompareSemanticValues(type, row[c.field], row[c.field]) # Throws
         /\ row[c.field] = None => EvaluateCondition(row, c, type) = FALSE
         /\ row[c.field] # None =>
              /\ c.operator = "in" =>
                   EvaluateCondition(row, c, type) =
                     (\E i \in DOMAIN c.values :
                        CompareSemanticValues(type, row[c.field], c.values[i]) = 0)
              /\ c.operator = "not_in" =>
                   EvaluateCondition(row, c, type) =
                     (~\E i \in DOMAIN c.values :
                         CompareSemanticValues(type, row[c.field], c.values[i]) = 0)
              /\ c.operator = "between" =>
                   EvaluateCondition(row, c, type) =
                     (/\ CompareSemanticValues(type, row[c.field], c.values[1]) >= 0
                      /\ CompareSemanticValues(type, row[c.field], c.values[2]) <= 0)
              /\ c.operator \notin {"in", "not_in", "between"} =>
                   EvaluateCondition(row, c, type) =
                     Holds(c.operator, CompareSemanticValues(type, row[c.field], c.values[1]))
<1> DEFINE actual == Value(row, c.field)
           Comparison(i) == CompareSemanticValues(type, actual, c.values[i])
           matched == \E i \in DOMAIN c.values : Comparison(i) = 0
           compared ==
             CASE c.operator = "in" -> matched
               [] c.operator = "not_in" -> ~matched
               [] c.operator = "between" -> Comparison(1) >= 0 /\ Comparison(2) <= 0
               [] OTHER -> Holds(c.operator, Comparison(1))
           V == EvaluateCondition(row, c, type)
<1>1. V = IF c.field \notin DOMAIN row THEN Throws
          ELSE IF NullCheck(c) THEN (c.operator = "is_null") = (actual = None)
          ELSE IF actual = None THEN FALSE
          ELSE IF CompareSemanticValues(type, actual, actual) = Throws THEN Throws
          ELSE compared
  BY Zenon DEF EvaluateCondition
<1>2. c.field \in DOMAIN row
  BY <1>1
<1>3. actual = row[c.field]
  BY <1>2 DEF Value
<1>4. (actual # None => CompareSemanticValues(type, actual, actual) # Throws)
      /\ (actual = None => V = FALSE) /\ (actual # None => V = compared)
  <2> HIDE DEF actual, compared
  <2> QED BY <1>1, <1>2
<1>5. /\ c.operator = "in" => compared = matched
      /\ c.operator = "not_in" => compared = ~matched
      /\ c.operator = "between" => compared = (Comparison(1) >= 0 /\ Comparison(2) <= 0)
      /\ c.operator \notin {"in", "not_in", "between"} => compared = Holds(c.operator, Comparison(1))
  <2> HIDE DEF matched, Comparison
  <2> QED BY DEF compared
<1> HIDE DEF compared, V
<1>6. /\ c.operator = "in" /\ actual # None => V = matched
      /\ c.operator = "not_in" /\ actual # None => V = ~matched
      /\ c.operator = "between" /\ actual # None => V = (Comparison(1) >= 0 /\ Comparison(2) <= 0)
      /\ c.operator \notin {"in", "not_in", "between"} /\ actual # None => V = Holds(c.operator, Comparison(1))
  BY <1>4, <1>5, Zenon
<1> QED BY <1>2, <1>3, <1>4, <1>6, Zenon DEF V

\* An expression that is true of a row where a condition holds.
Mirrors(e, row, shape, verdict) ==
  Judges(e, 3, row, shape) /\ (Evaluate(e, row, shape) = TRUE <=> verdict)

\* An expression with a truth value may count as nested deeper.
LEMMA DeeperJudges ==
  ASSUME NEW e, NEW m \in Nat, NEW n \in Nat, n >= m, NEW row, NEW shape, Judges(e, m, row, shape)
  PROVE  Judges(e, n, row, shape)
BY NestingGrows DEF Judges, IsTest

\* A test is true where its comparison holds of a value.
LEMMA OneTestMirrors ==
  ASSUME NEW c, NEW row, NEW shape, Testable(c, row, shape), NEW v \in ToSet(c.values),
         NEW op \in Comparisons
  PROVE  Mirrors(TestNode(op, c.field, shape[c.field].type, v), row, shape,
                 row[c.field] # None
                   /\ Holds(op, CompareSemanticValues(shape[c.field].type, row[c.field], v)))
<1> DEFINE type == shape[c.field].type
           e == TestNode(op, c.field, type, v)
           a == row[c.field]
           H == Holds(op, CompareSemanticValues(type, a, v))
<1>1. Judges(e, 1, row, shape) /\ Evaluate(e, row, shape) = Outcome(op, type, a, v)
  BY ValueTested
<1>2. a # None => H \in BOOLEAN
  BY ValueCompared, HoldsFacts
<1>3. Evaluate(e, row, shape) = IF a = None THEN None ELSE H
  BY <1>1 DEF Outcome
<1> HIDE DEF H, e, a
<1>4. Evaluate(e, row, shape) = TRUE <=> a # None /\ H
  <2>1. CASE a = None
    BY <1>3, <2>1, MarkersAreNoTruths
  <2>2. CASE a # None
    BY <1>2, <1>3, <2>2
  <2> QED BY <2>1, <2>2
<1>5. Judges(e, 3, row, shape)
  BY <1>1, DeeperJudges
<1> QED BY <1>4, <1>5 DEF Mirrors, H, e, a

\* One of some tests of equality is true where one of the values is equal, and all are
\* false where none is and the row has a value.
LEMMA EqualTestsFacts ==
  ASSUME NEW c, NEW row, NEW shape, Testable(c, row, shape), IsSequence(c.values), c.values # <<>>
  PROVE  /\ Judges(Combined("or", EqualTests(c, shape[c.field].type)), 2, row, shape)
         /\ Evaluate(Combined("or", EqualTests(c, shape[c.field].type)), row, shape) = TRUE
              <=> /\ row[c.field] # None
                  /\ \E i \in DOMAIN c.values :
                       CompareSemanticValues(shape[c.field].type, row[c.field], c.values[i]) = 0
         /\ Evaluate(Combined("or", EqualTests(c, shape[c.field].type)), row, shape) = FALSE
              <=> /\ row[c.field] # None
                  /\ ~\E i \in DOMAIN c.values :
                       CompareSemanticValues(shape[c.field].type, row[c.field], c.values[i]) = 0
<1> DEFINE type == shape[c.field].type
           a == row[c.field]
           list == EqualTests(c, type)
           among == Combined("or", list)
           C(i) == CompareSemanticValues(type, a, c.values[i])
<1>1. Len(c.values) \in Nat /\ DOMAIN c.values = 1 .. Len(c.values)
      /\ \A i \in DOMAIN c.values : c.values[i] \in ToSet(c.values)
  BY SequenceFacts
<1>2. DOMAIN c.values # {}
  <2>1. c.values \in Seq(ToSet(c.values))
    BY DEF IsSequence
  <2>2. Len(c.values) # 0
    BY <2>1
  <2> QED BY <1>1, <2>2
<1>3. IsSequence(list) /\ DOMAIN list = DOMAIN c.values
  BY ListOfLikeLength DEF EqualTests
<1>4. list # <<>>
  BY <1>2, <1>3
<1>5. ASSUME NEW i \in DOMAIN c.values
      PROVE  /\ Judges(list[i], 1, row, shape)
             /\ Evaluate(list[i], row, shape) = TRUE <=> a # None /\ C(i) = 0
             /\ Evaluate(list[i], row, shape) = FALSE <=> a # None /\ C(i) # 0
  <2> DEFINE v == c.values[i]
             e == TestNode("eq", c.field, type, v)
  <2>1. list[i] = e
    BY DEF EqualTests
  <2>2. v \in ToSet(c.values) /\ "eq" \in Comparisons
    BY <1>1 DEF Comparisons
  <2> HIDE DEF v
  <2>3. Judges(e, 1, row, shape) /\ Evaluate(e, row, shape) = Outcome("eq", type, a, v)
    BY <2>2, ValueTested
  <2>4. a # None => (Holds("eq", CompareSemanticValues(type, a, v)) <=> CompareSemanticValues(type, a, v) = 0)
                    /\ Holds("eq", CompareSemanticValues(type, a, v)) \in BOOLEAN
    BY <2>2, ValueCompared, HoldsFacts
  <2>5. Outcome("eq", type, a, v) = IF a = None THEN None ELSE Holds("eq", CompareSemanticValues(type, a, v))
    BY Zenon DEF Outcome
  <2> DEFINE H == Holds("eq", CompareSemanticValues(type, a, v))
             D == CompareSemanticValues(type, a, v)
             E == Evaluate(e, row, shape)
  <2>6. E = (IF a = None THEN None ELSE H) /\ (a # None => (H <=> D = 0) /\ H \in BOOLEAN)
    BY <2>3, <2>4, <2>5
  <2> HIDE DEF a, D, E, H, e
  <2>7. (E = TRUE <=> a # None /\ D = 0) /\ (E = FALSE <=> a # None /\ D # 0)
    <3>1. CASE a = None
      BY <2>6, <3>1, MarkersAreNoTruths
    <3>2. CASE a # None
      BY <2>6, <3>2
    <3> QED BY <3>1, <3>2
  <2>8. D = C(i)
    BY DEF D, v
  <2> HIDE DEF C
  <2> QED BY <2>1, <2>3, <2>7, <2>8 DEF E
<1> HIDE DEF list, a, C
<1>6. 1 \in Nat /\ 1 < 8 /\ 1 + 1 = 2 /\ "or" \in {"and", "or"}
  OBVIOUS
<1>7. \A i \in DOMAIN list : Judges(list[i], 1, row, shape)
  BY <1>3, <1>5
<1>8. /\ Judges(among, 2, row, shape)
      /\ Evaluate(among, row, shape) = TRUE <=> \E i \in DOMAIN list : Evaluate(list[i], row, shape) = TRUE
      /\ Evaluate(among, row, shape) = FALSE <=> \A i \in DOMAIN list : Evaluate(list[i], row, shape) = FALSE
  BY <1>3, <1>4, <1>6, <1>7, CombinedFacts
<1> HIDE DEF among
<1>9. Evaluate(among, row, shape) = TRUE <=> a # None /\ \E i \in DOMAIN c.values : C(i) = 0
  BY <1>3, <1>5, <1>8
<1>10. Evaluate(among, row, shape) = FALSE <=> a # None /\ ~\E i \in DOMAIN c.values : C(i) = 0
  BY <1>2, <1>3, <1>5, <1>8
<1> QED BY <1>8, <1>9, <1>10 DEF among, list, a, C

\* The other operators of a condition are comparisons.
LEMMA OperatorsOfConditions ==
  ASSUME NEW c, NEW shape, ValidCondition(c, shape), ~NullCheck(c),
         c.operator \notin {"in", "not_in", "between"}
  PROVE  c.operator \in Comparisons
BY DEF ValidCondition, FilterOperators, NullCheck, Comparisons

\* A condition written as an expression is true where the condition holds.
LEMMA WrittenMirrors ==
  ASSUME NEW c, NEW row, NEW shape, IsShape(shape), ValidCondition(c, shape), WellFormedCondition(c),
         ~NullCheck(c), EvaluateCondition(row, c, shape[c.field].type) # Throws,
         c.field \in DOMAIN row => row[c.field] \in ValuesOf(shape[c.field].type) \union {None}
  PROVE  Mirrors(Written(c, shape[c.field].type), row, shape,
                 EvaluateCondition(row, c, shape[c.field].type))
<1> DEFINE type == shape[c.field].type
           a == row[c.field]
           C(i) == CompareSemanticValues(type, a, c.values[i])
           V == EvaluateCondition(row, c, type)
           e == Written(c, type)
<1>1. /\ c.field \in DOMAIN row
      /\ a # None => CompareSemanticValues(type, a, a) # Throws
      /\ a = None => V = FALSE
      /\ a # None =>
           /\ c.operator = "in" => V = (\E i \in DOMAIN c.values : C(i) = 0)
           /\ c.operator = "not_in" => V = (~\E i \in DOMAIN c.values : C(i) = 0)
           /\ c.operator = "between" => V = (C(1) >= 0 /\ C(2) <= 0)
           /\ c.operator \notin {"in", "not_in", "between"} => V = Holds(c.operator, C(1))
  BY ConditionForms
<1>2. Testable(c, row, shape)
  BY <1>1 DEF Testable, ValidCondition
<1>3. IsSequence(c.values)
  BY DEF WellFormedCondition
<1>4. Len(c.values) \in Nat /\ DOMAIN c.values = 1 .. Len(c.values)
      /\ \A i \in DOMAIN c.values : c.values[i] \in ToSet(c.values)
  BY <1>3, SequenceFacts
<1>5. CASE c.operator = "in"
  <2>1. c.values # <<>>
    BY <1>5 DEF WellFormedCondition, NullCheck
  <2> DEFINE among == Combined("or", EqualTests(c, type))
  <2>2. /\ Judges(among, 2, row, shape)
        /\ Evaluate(among, row, shape) = TRUE <=> a # None /\ \E i \in DOMAIN c.values : C(i) = 0
    BY <1>2, <1>3, <2>1, EqualTestsFacts
  <2>3. e = among
    BY <1>5, WrittenForms
  <2> HIDE DEF among, e, V, C, a
  <2>4. Judges(e, 3, row, shape)
    BY <2>2, <2>3, DeeperJudges
  <2>5. Evaluate(e, row, shape) = TRUE <=> V
    BY <1>1, <1>5, <2>2, <2>3
  <2> QED BY <2>4, <2>5 DEF Mirrors, e, V
<1>6. CASE c.operator = "not_in"
  <2>1. c.values # <<>>
    BY <1>6 DEF WellFormedCondition, NullCheck
  <2> DEFINE among == Combined("or", EqualTests(c, type))
             x == [op |-> "not", inputs |-> <<among>>]
  <2>2. /\ Judges(among, 2, row, shape)
        /\ Evaluate(among, row, shape) = FALSE <=> a # None /\ ~\E i \in DOMAIN c.values : C(i) = 0
    BY <1>2, <1>3, <2>1, EqualTestsFacts
  <2>3. e = x
    BY <1>6, WrittenForms
  <2>4. 2 \in Nat /\ 2 < 8 /\ 2 + 1 = 3
    OBVIOUS
  <2> HIDE DEF among
  <2>5. Judges(x, 3, row, shape) /\ (Evaluate(x, row, shape) = TRUE <=> Evaluate(among, row, shape) = FALSE)
    <3>1. Judges(x, 2 + 1, row, shape) /\ (Evaluate(x, row, shape) = TRUE <=> Evaluate(among, row, shape) = FALSE)
      <4>1. 2 \in Nat /\ 2 < 8
        OBVIOUS
      <4>2. Judges(among, 2, row, shape)
        BY <2>2
      <4> QED BY <4>1, <4>2, NegationFacts
    <3> HIDE DEF x
    <3> QED BY <2>4, <3>1
  <2> HIDE DEF x, e, V, C, a
  <2>6. Evaluate(e, row, shape) = TRUE <=> V
    BY <1>1, <1>6, <2>2, <2>3, <2>5
  <2> QED BY <2>3, <2>5, <2>6 DEF Mirrors, e, V
<1>7. CASE c.operator = "between"
  <2>1. Len(c.values) = 2
    BY <1>7 DEF WellFormedCondition, NullCheck
  <2>2. c.values[1] \in ToSet(c.values) /\ c.values[2] \in ToSet(c.values)
    BY <1>4, <2>1
  <2> DEFINE x == TestNode("gte", c.field, type, c.values[1])
             y == TestNode("lte", c.field, type, c.values[2])
             list == <<x, y>>
             both == Combined("and", list)
  <2>3. Mirrors(x, row, shape, a # None /\ Holds("gte", C(1)))
        /\ Mirrors(y, row, shape, a # None /\ Holds("lte", C(2)))
    <3>1. "gte" \in Comparisons /\ "lte" \in Comparisons
      BY DEF Comparisons
    <3> QED BY <1>2, <2>2, <3>1, OneTestMirrors
  <2>4. a # None => C(1) \in {-1, 0, 1} /\ C(2) \in {-1, 0, 1}
    BY <1>2, <2>2, ValueCompared
  <2>5. a # None => (Holds("gte", C(1)) <=> C(1) >= 0) /\ (Holds("lte", C(2)) <=> C(2) <= 0)
    BY <2>4, HoldsFacts DEF Comparisons
  <2>6. e = both
    BY <1>7, WrittenForms
  <2> HIDE DEF x, y, C, a
  <2>7. DOMAIN list = 1 .. 2 /\ list[1] = x /\ list[2] = y /\ list # <<>> /\ IsSequence(list)
    <3>1. list = [i \in 1 .. 2 |-> list[i]]
      OBVIOUS
    <3>2. 2 \in Nat
      OBVIOUS
    <3>3. IsSequence(list)
      <4> HIDE DEF list
      <4> QED BY <3>1, <3>2, ListFacts
    <3> QED BY <3>3
  <2> HIDE DEF list
  <2>8. \A i \in DOMAIN list : Judges(list[i], 3, row, shape)
    BY <2>3, <2>7 DEF Mirrors
  <2>9. \A i \in DOMAIN list : Judges(list[i], 1, row, shape)
    <3>1. Judges(x, 1, row, shape) /\ Judges(y, 1, row, shape)
      BY <1>2, <2>2, ValueTested DEF Comparisons, x, y
    <3> QED BY <2>7, <3>1
  <2>10. Judges(both, 2, row, shape)
         /\ (Evaluate(both, row, shape) = TRUE <=> \A i \in DOMAIN list : Evaluate(list[i], row, shape) = TRUE)
    <3>1. 1 \in Nat /\ 1 < 8 /\ 1 + 1 = 2 /\ "and" \in {"and", "or"}
      OBVIOUS
    <3> QED BY <2>7, <2>9, <3>1, CombinedFacts
  <2> HIDE DEF both, e, V
  <2>11. Judges(e, 3, row, shape)
    BY <2>6, <2>10, DeeperJudges
  <2>12. Evaluate(e, row, shape) = TRUE <=> Evaluate(x, row, shape) = TRUE /\ Evaluate(y, row, shape) = TRUE
    BY <2>6, <2>7, <2>10
  <2>13. /\ Evaluate(x, row, shape) = TRUE <=> a # None /\ Holds("gte", C(1))
         /\ Evaluate(y, row, shape) = TRUE <=> a # None /\ Holds("lte", C(2))
    BY <2>3, Zenon DEF Mirrors
  <2>14. Evaluate(e, row, shape) = TRUE <=> V
    BY <1>1, <1>7, <2>5, <2>12, <2>13
  <2> QED BY <2>11, <2>14 DEF Mirrors, e, V
<1>8. CASE c.operator \notin {"in", "not_in", "between"}
  <2>1. c.operator \in Comparisons
    BY <1>8, OperatorsOfConditions
  <2>2. Len(c.values) = 1
    BY <1>8 DEF WellFormedCondition, NullCheck
  <2>3. c.values[1] \in ToSet(c.values)
    BY <1>4, <2>2
  <2>4. Mirrors(TestNode(c.operator, c.field, type, c.values[1]), row, shape,
                a # None /\ Holds(c.operator, C(1)))
    BY <1>2, <2>1, <2>3, OneTestMirrors
  <2>5. e = TestNode(c.operator, c.field, type, c.values[1])
    BY <1>8, WrittenForms
  <2> HIDE DEF e, V, C, a
  <2>6. Judges(e, 3, row, shape) /\ (Evaluate(e, row, shape) = TRUE <=> a # None /\ Holds(c.operator, C(1)))
    BY <2>4, <2>5, Zenon DEF Mirrors
  <2>7. Evaluate(e, row, shape) = TRUE <=> V
    BY <1>1, <1>8, <2>6
  <2> QED BY <2>6, <2>7 DEF Mirrors, e, V
<1> QED BY <1>5, <1>6, <1>7, <1>8

-----------------------------------------------------------------------------
\* The conditions of a predicate, each as an expression.
WrittenList(p, shape) ==
  [i \in DOMAIN p.conditions |-> Written(p.conditions[i], shape[p.conditions[i].field].type)]

\* So is a predicate.
LEMMA PredicateMirrors ==
  ASSUME NEW p, NEW row, NEW shape, NEW s, IsShape(shape), SameFields(s, shape), Fits(row, s),
         IsSequence(p.conditions), p.conditions # <<>>, p.combinator \in {"and", "or"},
         ValidPredicate(p, shape),
         \A c \in ToSet(p.conditions) : WellFormedCondition(c) /\ ~NullCheck(c),
         EvaluatePredicate(p, row, shape) # Throws
  PROVE  LET e == Combined(p.combinator, WrittenList(p, shape))
         IN  Judges(e, 4, row, shape) /\ (Evaluate(e, row, shape) = TRUE <=> EvaluatePredicate(p, row, shape))
<1> DEFINE cs == p.conditions
           list == WrittenList(p, shape)
           e == Combined(p.combinator, list)
           verdicts == [i \in DOMAIN cs |-> EvaluateCondition(row, cs[i], shape[cs[i].field].type)]
           P == EvaluatePredicate(p, row, shape)
<1>1. P = IF Attempt(verdicts) = Throws THEN Throws
          ELSE IF p.combinator = "and" THEN \A i \in DOMAIN Attempt(verdicts) : Attempt(verdicts)[i]
          ELSE \E i \in DOMAIN Attempt(verdicts) : Attempt(verdicts)[i]
  BY Zenon DEF EvaluatePredicate
<1>2. Attempt(verdicts) # Throws
  <2> HIDE DEF verdicts
  <2> QED BY <1>1
<1>3. Attempt(verdicts) = verdicts /\ \A i \in DOMAIN verdicts : verdicts[i] # Throws
  <2> HIDE DEF verdicts
  <2> QED BY <1>2, AttemptFacts
<1>4. DOMAIN verdicts = DOMAIN cs
      /\ \A i \in DOMAIN cs : verdicts[i] = EvaluateCondition(row, cs[i], shape[cs[i].field].type)
  OBVIOUS
<1> HIDE DEF verdicts
<1>5. /\ p.combinator = "and" => P = (\A i \in DOMAIN cs : verdicts[i])
      /\ p.combinator = "or" => P = (\E i \in DOMAIN cs : verdicts[i])
  <2>1. P = IF p.combinator = "and" THEN \A i \in DOMAIN cs : verdicts[i]
            ELSE \E i \in DOMAIN cs : verdicts[i]
    BY <1>1, <1>2, <1>3, <1>4, Zenon
  <2>2. "or" # "and"
    OBVIOUS
  <2> QED BY <2>1, <2>2, Zenon
<1>6. ASSUME NEW i \in DOMAIN cs
      PROVE  Judges(list[i], 3, row, shape) /\ (Evaluate(list[i], row, shape) = TRUE <=> verdicts[i])
  <2> DEFINE c == cs[i]
  <2>1. c \in ToSet(cs)
    BY SequenceFacts
  <2>2. ValidCondition(c, shape) /\ WellFormedCondition(c) /\ ~NullCheck(c)
    BY <2>1 DEF ValidPredicate
  <2>3. c.field \in DOMAIN shape
    BY <2>2 DEF ValidCondition
  <2>4. c.field \in DOMAIN row => row[c.field] \in ValuesOf(shape[c.field].type) \union {None}
    BY <2>3 DEF Fits, SameFields
  <2>5. list[i] = Written(c, shape[c.field].type)
    BY DEF WrittenList
  <2>6. verdicts[i] = EvaluateCondition(row, c, shape[c.field].type) /\ verdicts[i] # Throws
    BY <1>3, <1>4
  <2> HIDE DEF c, list
  <2>7. Mirrors(list[i], row, shape, EvaluateCondition(row, c, shape[c.field].type))
    BY <2>2, <2>4, <2>5, <2>6, WrittenMirrors
  <2>8. Judges(list[i], 3, row, shape)
        /\ (Evaluate(list[i], row, shape) = TRUE <=> EvaluateCondition(row, c, shape[c.field].type))
    BY <2>7, Zenon DEF Mirrors
  <2> QED BY <2>6, <2>8
<1>7. IsSequence(list) /\ DOMAIN list = DOMAIN cs /\ list # <<>>
  <2>1. IsSequence(list) /\ DOMAIN list = DOMAIN cs
    BY ListOfLikeLength DEF WrittenList
  <2>2. DOMAIN cs # {}
    <3>1. cs \in Seq(ToSet(cs))
      BY DEF IsSequence
    <3>2. Len(cs) # 0 /\ Len(cs) \in Nat /\ DOMAIN cs = 1 .. Len(cs)
      BY <3>1
    <3> HIDE DEF cs
    <3>3. 1 \in DOMAIN cs
      BY <3>2
    <3> QED BY <3>3
  <2> HIDE DEF list, cs
  <2>3. list # <<>>
    BY <2>1, <2>2
  <2> QED BY <2>1, <2>3
<1> HIDE DEF list, P
<1>8. 3 \in Nat /\ 3 < 8 /\ 3 + 1 = 4
  OBVIOUS
<1>9. \A i \in DOMAIN list : Judges(list[i], 3, row, shape)
  BY <1>6, <1>7
<1>10. /\ Judges(e, 4, row, shape)
       /\ p.combinator = "and" => (Evaluate(e, row, shape) = TRUE
                                     <=> \A i \in DOMAIN list : Evaluate(list[i], row, shape) = TRUE)
       /\ p.combinator = "or" => (Evaluate(e, row, shape) = TRUE
                                     <=> \E i \in DOMAIN list : Evaluate(list[i], row, shape) = TRUE)
  BY <1>7, <1>8, <1>9, CombinedFacts
<1> HIDE DEF e, cs
<1>11. Evaluate(e, row, shape) = TRUE <=> P
  BY <1>5, <1>6, <1>7, <1>10
<1> QED BY <1>10, <1>11 DEF e, list, P

-----------------------------------------------------------------------------
(* Both forms of a filter keep the same rows *)

\* A filter keeps the same rows in both forms, in their order.
LEMMA FormsAgreeOnRows ==
  ASSUME NEW p, NEW s, NEW t, NEW list, Shaped(s, t, list),
         IsSequence(p.conditions), p.conditions # <<>>, p.combinator \in {"and", "or"},
         \A c \in ToSet(p.conditions) : WellFormedCondition(c) /\ ~NullCheck(c),
         FilterRows(p, list, t) # Throws
  PROVE  FilterRows(p, list, t) = FilterByExpression(Combined(p.combinator, WrittenList(p, t)), list, t)
<1> DEFINE e == Combined(p.combinator, WrittenList(p, t))
           verdicts == [i \in DOMAIN list |-> EvaluatePredicate(p, list[i], t)]
           truths == [i \in DOMAIN list |->
                        LET v == Evaluate(e, list[i], t) IN IF v = Throws THEN Throws ELSE v = TRUE]
<1>1. ValidPredicate(p, t) /\ FilterRows(p, list, t) = Keeping(list, verdicts)
  BY DEF FilterRows
<1>2. Keeping(list, verdicts) # Throws
  BY <1>1
<1>3. (\A i \in DOMAIN list : verdicts[i] # Throws)
      /\ Keeping(list, verdicts) = Picked(list, {i \in DOMAIN list : verdicts[i]})
  <2> HIDE DEF verdicts
  <2> QED BY <1>2 DEF Keeping
<1>4. ASSUME NEW i \in DOMAIN list
      PROVE  Judges(e, 4, list[i], t) /\ (Evaluate(e, list[i], t) = TRUE <=> verdicts[i])
  <2> DEFINE row == list[i]
  <2>1. verdicts[i] = EvaluatePredicate(p, row, t)
    OBVIOUS
  <2>2. verdicts[i] # Throws
    BY <1>3
  <2> HIDE DEF verdicts
  <2>3. IsShape(t) /\ SameFields(s, t) /\ Fits(row, s)
    BY DEF Shaped
  <2> HIDE DEF row
  <2>4. Judges(e, 4, row, t) /\ (Evaluate(e, row, t) = TRUE <=> EvaluatePredicate(p, row, t))
    BY <1>1, <2>1, <2>2, <2>3, PredicateMirrors
  <2> HIDE DEF e
  <2> QED BY <2>1, <2>4 DEF row
<1>5. FilterByExpression(e, list, t) = IF list # <<>> /\ InferExpression(e, t) = Invalid THEN Throws
                                       ELSE Keeping(list, truths)
  BY Zenon DEF FilterByExpression
<1>6. ~(list # <<>> /\ InferExpression(e, t) = Invalid)
  <2>1. SUFFICES ASSUME list # <<>> PROVE InferExpression(e, t) # Invalid
    OBVIOUS
  <2>2. 1 \in DOMAIN list
    <3>1. list \in Seq(ToSet(list))
      BY DEF Shaped, IsSequence
    <3> QED BY <2>1, <3>1
  <2>3. Judges(e, 4, list[1], t)
    BY <1>4, <2>2
  <2> HIDE DEF e
  <2> QED BY <2>3, FieldsAreValid DEF Judges, IsTest
<1>7. ASSUME NEW i \in DOMAIN list PROVE truths[i] # Throws /\ (truths[i] <=> verdicts[i])
  <2> DEFINE v == Evaluate(e, list[i], t)
  <2>1. truths[i] = IF v = Throws THEN Throws ELSE v = TRUE
    BY Zenon
  <2>2. v \in Truth /\ (v = TRUE <=> verdicts[i])
    BY <1>4 DEF Judges, Truth
  <2> HIDE DEF v, truths, verdicts
  <2>3. v # Throws
    BY <2>2, MarkersAreNoTruths DEF Truth
  <2>4. truths[i] = (v = TRUE)
    BY <2>1, <2>3
  <2>5. (v = TRUE) \in BOOLEAN
    OBVIOUS
  <2>6. truths[i] \in BOOLEAN
    BY <2>4, <2>5
  <2>7. truths[i] # Throws
    BY <2>6, MarkersAreNoTruths
  <2> QED BY <2>2, <2>4, <2>7
<1> HIDE DEF e, verdicts, truths
<1>8. {i \in DOMAIN list : truths[i]} = {i \in DOMAIN list : verdicts[i]}
  BY <1>7
<1>9. Keeping(list, truths) = Picked(list, {i \in DOMAIN list : truths[i]})
  BY <1>7 DEF Keeping
<1>10. FilterByExpression(e, list, t) = FilterRows(p, list, t)
  BY <1>1, <1>3, <1>5, <1>6, <1>8, <1>9
<1> QED BY <1>10 DEF e

\* The result of a filter has the property.
LEMMA FilterAgrees ==
  ASSUME Ran("filter"), WellConfigured(last), FilterRan(last, before, rows)
  PROVE  FilterFormsAgree
<1> DEFINE p == last.predicate
           t == before.shape
<1>1. SUFFICES ASSUME \A c \in ToSet(p.conditions) : ~NullCheck(c)
               PROVE  rows = FilterByExpression(Combined(p.combinator, WrittenList(p, t)), before.left, t)
  BY Zenon DEF FilterFormsAgree, WrittenList
<1>2. last.op = "filter"
  BY DEF Ran
<1>3. /\ p.combinator \in {"and", "or"} /\ IsSequence(p.conditions) /\ p.conditions # <<>>
      /\ \A c \in ToSet(p.conditions) : WellFormedCondition(c)
  BY <1>2, Zenon DEF WellConfigured
<1>4. PICK s : /\ Shaped(s, t, before.left)
               /\ rows = FilterRows(p, before.left, t) /\ rows # Throws
  BY DEF FilterRan
<1> HIDE DEF p, t
<1> QED BY <1>1, <1>3, <1>4, FormsAgreeOnRows

\* The two forms of a filter agree, whatever the plan, the predicate and the rows.
THEOREM FormsAgree == DagSpec /\ []JoinKeysAreThere => []FilterFormsAgree
<1>1. Recorded => FilterFormsAgree
  <2>1. CASE Ran("filter")
    <3>1. Recorded => WellConfigured(last) /\ FilterRan(last, before, rows)
      BY <2>1 DEF Recorded, DoneBy, Ran
    <3> QED BY <2>1, <3>1, FilterAgrees
  <2>2. CASE ~Ran("filter")
    BY <2>2 DEF FilterFormsAgree
  <2> QED BY <2>1, <2>2
<1> QED BY <1>1, RunsAreOnRecord, PTL

-----------------------------------------------------------------------------
(* Totals *)

\* S gives the totals of the first numbers of g.
Totals(S, g, N) ==
  /\ S \in [0 .. N -> Int]
  /\ S[0] = 0
  /\ \A n \in 1 .. N : S[n] = S[n - 1] + g[n]

\* Any numbers have totals.
LEMMA TotalsExist ==
  ASSUME NEW N \in Nat, NEW g, \A n \in 1 .. N : g[n] \in Int
  PROVE  \E S : Totals(S, g, N)
<1> DEFINE step == [n \in 1 .. N |-> [a \in Int |-> a + g[n]]]
<1>1. step \in [1 .. N -> [Int -> Int]]
  OBVIOUS
<1>2. \A n \in 1 .. N : \A a \in Int : step[n][a] = a + g[n]
  OBVIOUS
<1>3. PICK S : Iterates(S, Int, N, 0, step)
  <2>1. 0 \in Int
    OBVIOUS
  <2> HIDE DEF step
  <2> QED BY <1>1, <2>1, IterationExists
<1> HIDE DEF step
<1>4. ASSUME NEW n \in 1 .. N PROVE S[n] = S[n - 1] + g[n]
  <2>1. n - 1 \in 0 .. N
    OBVIOUS
  <2>2. S[n - 1] \in Int /\ S[n] = step[n][S[n - 1]]
    BY <1>3, <2>1 DEF Iterates
  <2> QED BY <1>2, <2>2
<1> QED BY <1>3, <1>4 DEF Iterates, Totals

\* What holds of the totals of nothing, and of more if it does of less.
LEMMA UpToNumber ==
  ASSUME NEW N \in Nat, NEW Holding \in SUBSET Nat, 0 \in Holding,
         \A n \in 1 .. N : n - 1 \in Holding => n \in Holding
  PROVE  \A n \in 0 .. N : n \in Holding
<1> DEFINE Good == {n \in Nat : n <= N => n \in Holding}
<1>1. 0 \in Good
  OBVIOUS
<1>2. ASSUME NEW n \in Nat, n \in Good PROVE n + 1 \in Good
  <2> SUFFICES ASSUME n + 1 <= N PROVE n + 1 \in Holding
    OBVIOUS
  <2>1. n + 1 \in 1 .. N /\ (n + 1) - 1 = n /\ n \in Holding
    BY <1>2
  <2>2. (n + 1) - 1 \in Holding => n + 1 \in Holding
    BY <2>1
  <2> QED BY <2>1, <2>2
<1>3. \A n \in Nat : n \in Good
  <2> HIDE DEF Good
  <2> QED BY <1>1, <1>2, FromNumberToNumber
<1> QED BY <1>3

\* They have one.
LEMMA TotalsAgree ==
  ASSUME NEW N \in Nat, NEW g, NEW h, NEW S, NEW T, Totals(S, g, N), Totals(T, h, N),
         \A n \in 1 .. N : g[n] = h[n]
  PROVE  \A n \in 0 .. N : S[n] = T[n]
<1> DEFINE Good == {n \in Nat : S[n] = T[n]}
<1>1. 0 \in Good /\ Good \in SUBSET Nat
  BY DEF Totals
<1>2. \A n \in 1 .. N : n - 1 \in Good => n \in Good
  BY DEF Totals
<1>3. \A n \in 0 .. N : n \in Good
  <2> HIDE DEF Good
  <2> QED BY <1>1, <1>2, UpToNumber
<1> QED BY <1>3

\* The total of sums is the sum of the totals.
LEMMA TotalsAdd ==
  ASSUME NEW N \in Nat, NEW g, NEW h, NEW both, NEW S, NEW T, NEW U,
         Totals(S, g, N), Totals(T, h, N), Totals(U, both, N),
         \A n \in 1 .. N : both[n] = g[n] + h[n] /\ g[n] \in Int /\ h[n] \in Int
  PROVE  \A n \in 0 .. N : U[n] = S[n] + T[n]
<1> DEFINE Good == {n \in Nat : U[n] = S[n] + T[n]}
<1>1. 0 \in Good /\ Good \in SUBSET Nat
  BY DEF Totals
<1>2. ASSUME NEW n \in 1 .. N, n - 1 \in Good PROVE n \in Good
  <2>1. U[n] = U[n - 1] + (g[n] + h[n]) /\ S[n] = S[n - 1] + g[n] /\ T[n] = T[n - 1] + h[n]
    BY DEF Totals
  <2>2. n - 1 \in 0 .. N
    OBVIOUS
  <2>3. S[n - 1] \in Int /\ T[n - 1] \in Int /\ g[n] \in Int /\ h[n] \in Int
    BY <2>2 DEF Totals
  <2>4. U[n - 1] = S[n - 1] + T[n - 1]
    BY <1>2
  <2>5. U[n] = S[n] + T[n]
    BY <2>1, <2>3, <2>4
  <2> QED BY <2>5
<1>3. \A n \in 0 .. N : n \in Good
  <2> HIDE DEF Good
  <2> QED BY <1>1, <1>2, UpToNumber
<1> QED BY <1>3

\* The total of zeros is zero.
LEMMA TotalOfNothing ==
  ASSUME NEW N \in Nat, NEW g, NEW S, Totals(S, g, N), \A n \in 1 .. N : g[n] = 0
  PROVE  \A n \in 0 .. N : S[n] = 0
<1> DEFINE Good == {n \in Nat : S[n] = 0}
<1>1. 0 \in Good /\ Good \in SUBSET Nat
  BY DEF Totals
<1>2. ASSUME NEW n \in 1 .. N, n - 1 \in Good PROVE n \in Good
  <2>1. S[n] = S[n - 1] + g[n] /\ S[n - 1] = 0 /\ g[n] = 0
    BY <1>2 DEF Totals
  <2> QED BY <2>1
<1>3. \A n \in 0 .. N : n \in Good
  <2> HIDE DEF Good
  <2> QED BY <1>1, <1>2, UpToNumber
<1> QED BY <1>3

\* The total of ones is their number.
LEMMA TotalOfOnes ==
  ASSUME NEW N \in Nat, NEW g, NEW S, Totals(S, g, N), \A n \in 1 .. N : g[n] = 1
  PROVE  \A n \in 0 .. N : S[n] = n
<1> DEFINE Good == {n \in Nat : S[n] = n}
<1>1. 0 \in Good /\ Good \in SUBSET Nat
  BY DEF Totals
<1>2. ASSUME NEW n \in 1 .. N, n - 1 \in Good PROVE n \in Good
  <2>1. S[n] = S[n - 1] + g[n] /\ S[n - 1] = n - 1 /\ g[n] = 1
    BY <1>2 DEF Totals
  <2> QED BY <2>1
<1>3. \A n \in 0 .. N : n \in Good
  <2> HIDE DEF Good
  <2> QED BY <1>1, <1>2, UpToNumber
<1> QED BY <1>3

\* Only the kth of N numbers counts.
OnlyAt(g, k, x, N) == \A n \in 1 .. N : g[n] = IF n = k THEN x ELSE 0

\* If only one number counts, it is the total.
LEMMA TotalOfOne ==
  ASSUME NEW N \in Nat, NEW g, NEW S, Totals(S, g, N), NEW k \in 1 .. N, NEW x \in Int,
         OnlyAt(g, k, x, N)
  PROVE  S[N] = x
<1> DEFINE Good == {n \in Nat : S[n] = IF n >= k THEN x ELSE 0}
<1>1. 0 \in Good /\ Good \in SUBSET Nat
  BY DEF Totals
<1>2. ASSUME NEW n \in 1 .. N, n - 1 \in Good PROVE n \in Good
  <2>1. S[n] = S[n - 1] + g[n] /\ S[n - 1] = IF n - 1 >= k THEN x ELSE 0
    BY <1>2 DEF Totals
  <2>2. g[n] = IF n = k THEN x ELSE 0
    BY DEF OnlyAt
  <2>3. S[n] = IF n >= k THEN x ELSE 0
    <3>1. CASE n = k
      BY <2>1, <2>2, <3>1
    <3>2. CASE n > k
      BY <2>1, <2>2, <3>2
    <3>3. CASE n < k
      BY <2>1, <2>2, <3>3
    <3> QED BY <3>1, <3>2, <3>3
  <2> QED BY <2>3
<1>3. \A n \in 0 .. N : n \in Good
  <2> HIDE DEF Good
  <2> QED BY <1>1, <1>2, UpToNumber
<1>4. N \in 0 .. N /\ N >= k
  OBVIOUS
<1> QED BY <1>3, <1>4

-----------------------------------------------------------------------------
\* The nth of some places has n - 1 of them before it.
LEMMA RankOfNth ==
  ASSUME NEW places \in SUBSET Nat, IsFiniteSet(places), NEW i \in places
  PROVE  Nth(places, Cardinality({j \in places : j < i}) + 1) = i
<1> DEFINE B == [k \in places |-> {j \in places : j < k}]
<1>1. B \in [places -> SUBSET places] /\ \A k \in places : B[k] = {j \in places : j < k}
  OBVIOUS
<1>2. \A k \in places : \A j : j \in B[k] <=> j \in places /\ j < k
  OBVIOUS
<1> HIDE DEF B
<1>3. OrdersBefore(B, places)
  <2>1. \A k \in places : k \notin B[k]
    BY <1>2
  <2>2. ASSUME NEW k \in places, NEW j \in B[k], NEW m \in B[j] PROVE m \in B[k]
    <3>1. j \in places /\ m \in places /\ m < j /\ j < k
      BY <1>1, <1>2
    <3>2. m \in Nat /\ j \in Nat /\ k \in Nat
      BY <3>1
    <3>3. m < k
      BY <3>1, <3>2
    <3> QED BY <1>2, <3>1, <3>3
  <2>3. \A k, j \in places : k # j => k \in B[j] \/ j \in B[k]
    BY <1>2
  <2> QED BY <1>1, <2>1, <2>2, <2>3 DEF OrdersBefore
<1>4. /\ \A k, j \in places : Cardinality(B[k]) = Cardinality(B[j]) => k = j
      /\ \A k \in places : Cardinality(B[k]) \in 0 .. Cardinality(places) - 1
      /\ Cardinality(places) \in Nat
  BY <1>3, RanksAreTaken
<1> DEFINE r == Cardinality({j \in places : j < i})
<1>5. r = Cardinality(B[i]) /\ r \in Nat
  BY <1>1, <1>4
<1> HIDE DEF r
<1>6. Nth(places, r + 1) \in places /\ Cardinality({j \in places : j < Nth(places, r + 1)}) = (r + 1) - 1
  <2>1. Cardinality({j \in places : j < i}) = (r + 1) - 1
    BY <1>5 DEF r
  <2> QED BY <2>1 DEF Nth
<1>7. Cardinality(B[Nth(places, r + 1)]) = r
  <2> DEFINE m == Nth(places, r + 1)
  <2>1. m \in places /\ Cardinality({j \in places : j < m}) = (r + 1) - 1
    BY <1>6
  <2> HIDE DEF m
  <2>2. B[m] = {j \in places : j < m}
    BY <1>1, <2>1
  <2>3. (r + 1) - 1 = r
    BY <1>5
  <2>4. Cardinality(B[m]) = (r + 1) - 1
    BY <2>1, <2>2, Zenon
  <2> QED BY <2>3, <2>4 DEF m
<1>8. Nth(places, r + 1) = i
  BY <1>4, <1>5, <1>6, <1>7
<1> QED BY <1>8 DEF r

\* The total of what is picked is that of all if the rest counts for nothing.
LEMMA PickedTotals ==
  ASSUME NEW N \in Nat, NEW places \in SUBSET (1 .. N), NEW h, NEW g, NEW masked, NEW S, NEW T,
         Totals(S, g, Cardinality(places)), Totals(T, masked, N),
         \A n \in 1 .. Cardinality(places) : g[n] = h[Nth(places, n)],
         \A i \in places : masked[i] = h[i],
         \A i \in (1 .. N) \ places : masked[i] = 0
  PROVE  S[Cardinality(places)] = T[N]
<1> DEFINE Upto(n) == {j \in places : j < n + 1}
           Good == {n \in Nat : T[n] = S[Cardinality(Upto(n))]}
<1>0. \A j \in places : j \in Nat /\ j >= 1 /\ j <= N
  OBVIOUS
<1>00. ASSUME NEW n \in 0 .. N PROVE \A j : j \in Upto(n) <=> j \in places /\ j <= n
  <2>1. \A j \in places : j < n + 1 <=> j <= n
    BY <1>0
  <2> QED BY <2>1
<1>1. IsFiniteSet(places) /\ places \in SUBSET Nat /\ Cardinality(places) \in Nat
  <2>1. IsFiniteSet(1 .. N)
    BY FS_Interval
  <2>2. IsFiniteSet(places)
    BY <2>1, FS_Subset
  <2>3. \A i \in places : i \in Nat
    OBVIOUS
  <2> QED BY <2>2, <2>3, FS_CardinalityType
<1>2. 0 \in Good /\ Good \in SUBSET Nat
  <2>1. \A j : j \notin Upto(0)
    <3>1. \A j \in places : ~(j <= 0)
      BY <1>0
    <3>2. 0 \in 0 .. N
      OBVIOUS
    <3> HIDE DEF Upto
    <3> QED BY <1>00, <3>1, <3>2
  <2>2. Cardinality(Upto(0)) = 0
    <3> HIDE DEF Upto
    <3>1. Upto(0) = {}
      BY <2>1
    <3> QED BY <3>1, FS_EmptySet
  <2> QED BY <2>2 DEF Totals
<1>3. ASSUME NEW n \in 1 .. N, n - 1 \in Good PROVE n \in Good
  <2> DEFINE A == Upto(n - 1)
             r == Cardinality(A)
  <2>1. A = {j \in places : j < n}
    <3>1. (n - 1) + 1 = n
      OBVIOUS
    <3> QED BY <3>1
  <2>2. A \in SUBSET places /\ n \notin A
    BY <2>1
  <2> HIDE DEF A
  <2>3. IsFiniteSet(A) /\ r \in Nat /\ r <= Cardinality(places)
    BY <1>1, <2>2, FS_Subset, FS_CardinalityType
  <2>4. T[n - 1] = S[r]
    BY <1>3 DEF A
  <2>5. T[n] = T[n - 1] + masked[n]
    BY DEF Totals
  <2>6. CASE n \in places
    <3>1. Upto(n) = A \union {n}
      <4>1. \A j : j \in Upto(n) <=> j \in A \/ j = n
        <5>1. \A j \in places : j <= n <=> j < n \/ j = n
          BY <1>0
        <5>2. \A j : j \in A <=> j \in places /\ j < n
          BY <2>1
        <5>3. n \in 0 .. N
          OBVIOUS
        <5> HIDE DEF Upto
        <5> QED BY <1>00, <5>3, <2>6, <5>1, <5>2
      <4> HIDE DEF Upto
      <4> QED BY <4>1
    <3>2. Cardinality(Upto(n)) = r + 1
      <4> HIDE DEF Upto
      <4> QED BY <2>2, <2>3, <3>1, FS_AddElement
    <3>3. Upto(n) \in SUBSET places
      OBVIOUS
    <3>4. r + 1 <= Cardinality(places)
      <4> HIDE DEF Upto
      <4> QED BY <1>1, <3>2, <3>3, FS_Subset
    <3>5. r + 1 \in 1 .. Cardinality(places)
      BY <1>1, <2>3, <3>4
    <3>6. Nth(places, r + 1) = n
      BY <1>1, <2>1, <2>6, RankOfNth
    <3>7. g[r + 1] = h[n] /\ masked[n] = h[n]
      BY <2>6, <3>5, <3>6
    <3>8. S[r + 1] = S[(r + 1) - 1] + g[r + 1]
      BY <3>5 DEF Totals
    <3>9. (r + 1) - 1 = r
      BY <2>3
    <3>10. T[n] = S[r + 1]
      <4> HIDE DEF r, Upto
      <4> QED BY <2>4, <2>5, <3>7, <3>8, <3>9
    <3>11. T[n] = S[Cardinality(Upto(n))]
      BY <3>2, <3>10
    <3> QED BY <3>11
  <2>7. CASE n \notin places
    <3>1. Upto(n) = A
      <4>1. \A j : j \in Upto(n) <=> j \in A
        <5>1. \A j \in places : j <= n <=> j < n
          BY <1>0, <2>7
        <5>2. \A j : j \in A <=> j \in places /\ j < n
          BY <2>1
        <5>3. n \in 0 .. N
          OBVIOUS
        <5> HIDE DEF Upto
        <5> QED BY <1>00, <5>3, <5>1, <5>2
      <4> HIDE DEF Upto
      <4> QED BY <4>1
    <3>2. masked[n] = 0
      BY <2>7
    <3>3. r \in 0 .. Cardinality(places)
      BY <1>1, <2>3
    <3>4. S[r] \in Int
      BY <3>3 DEF Totals
    <3>5. T[n] = S[r]
      <4> HIDE DEF r
      <4> QED BY <2>4, <2>5, <3>2, <3>4
    <3>6. T[n] = S[Cardinality(Upto(n))]
      <4> HIDE DEF Upto
      <4> QED BY <3>1, <3>5
    <3> QED BY <3>6
  <2> QED BY <2>6, <2>7
<1>4. \A n \in 0 .. N : n \in Good
  <2> HIDE DEF Good
  <2> QED BY <1>2, <1>3, UpToNumber
<1>5. N \in Good
  BY <1>4
<1>6. Upto(N) = places
  <2>1. \A j : j \in Upto(N) <=> j \in places
    <3>1. N \in 0 .. N
      OBVIOUS
    <3> HIDE DEF Upto
    <3> QED BY <1>0, <1>00, <3>1
  <2> HIDE DEF Upto
  <2> QED BY <2>1
<1> QED BY <1>5, <1>6

-----------------------------------------------------------------------------
(* Totals of parts *)

\* What a part counts for, of N numbers w that fall into the parts q says.
Part(q, k, w, N) == [i \in 1 .. N |-> IF q[i] = k THEN w[i] ELSE 0]

\* One of K numbers is more than it was, by x.
MoreAt(more, less, at, x, K) ==
  \A k \in 1 .. K : more[k] = less[k] + (IF k = at THEN x ELSE 0) /\ less[k] \in Int

\* One number more by x makes a total more by x.
LEMMA TotalsOfMore ==
  ASSUME NEW K \in Nat, NEW less, NEW more, NEW at \in 1 .. K, NEW x \in Int, NEW V, NEW A,
         Totals(V, more, K), Totals(A, less, K), MoreAt(more, less, at, x, K)
  PROVE  V[K] = A[K] + x
<1> DEFINE h == [k \in 1 .. K |-> IF k = at THEN x ELSE 0]
<1>1. \A k \in 1 .. K : h[k] = (IF k = at THEN x ELSE 0) /\ h[k] \in Int
  OBVIOUS
<1>2. \A k \in 1 .. K : more[k] = less[k] + h[k] /\ less[k] \in Int /\ h[k] \in Int
  BY <1>1 DEF MoreAt
<1> HIDE DEF h
<1>3. PICK B : Totals(B, h, K)
  BY <1>1, TotalsExist
<1>4. B[K] = x
  <2>1. OnlyAt(h, at, x, K)
    BY <1>1 DEF OnlyAt
  <2> QED BY <1>3, <2>1, TotalOfOne
<1>5. \A k \in 0 .. K : V[k] = A[k] + B[k]
  BY <1>2, <1>3, TotalsAdd
<1>6. K \in 0 .. K
  OBVIOUS
<1> QED BY <1>4, <1>5, <1>6

\* Each of N numbers w falls into one of K parts; T has the totals of every part,
\* and the numbers of parts are what each has in all.
Divided(q, w, N, K) == \A i \in 1 .. N : w[i] \in Int /\ q[i] \in 1 .. K
PartTotals(T, q, w, N, K) == \A k \in 1 .. K : Totals(T[k], Part(q, k, w, N), N)
SumsOfParts(parts, T, N, K) == \A k \in 1 .. K : parts[k] = T[k][N]

\* The totals of the parts add up to the total.
LEMMA TotalsOfParts ==
  ASSUME NEW N \in Nat, NEW K \in Nat, NEW w, NEW q, Divided(q, w, N, K),
         NEW T, PartTotals(T, q, w, N, K),
         NEW W, Totals(W, w, N),
         NEW U, NEW parts, Totals(U, parts, K), SumsOfParts(parts, T, N, K)
  PROVE  U[K] = W[N]
<1> DEFINE At(n) == [k \in 1 .. K |-> T[k][n]]
           Good == {n \in Nat : \A V : Totals(V, At(n), K) => V[K] = W[n]}
<1>0. \A n : \A k \in 1 .. K : At(n)[k] = T[k][n]
  OBVIOUS
<1>1. 0 \in Good /\ Good \in SUBSET Nat
  <2>1. \A k \in 1 .. K : At(0)[k] = 0
    BY <1>0 DEF Totals, PartTotals
  <2>2. W[0] = 0 /\ K \in 0 .. K
    BY DEF Totals
  <2> HIDE DEF At
  <2>3. \A V : Totals(V, At(0), K) => V[K] = W[0]
    BY <2>1, <2>2, TotalOfNothing
  <2> QED BY <2>3
<1>2. ASSUME NEW n \in 1 .. N, n - 1 \in Good PROVE n \in Good
  <2> SUFFICES ASSUME NEW V, Totals(V, At(n), K) PROVE V[K] = W[n]
    OBVIOUS
  <2> DEFINE h == [k \in 1 .. K |-> IF k = q[n] THEN w[n] ELSE 0]
  <2>1. q[n] \in 1 .. K /\ w[n] \in Int /\ n - 1 \in 0 .. N /\ n \in 0 .. N
    BY DEF Divided
  <2>2. \A k \in 1 .. K : h[k] = (IF k = q[n] THEN w[n] ELSE 0) /\ h[k] \in Int
    BY <2>1
  <2>3. ASSUME NEW k \in 1 .. K
        PROVE  At(n)[k] = At(n - 1)[k] + h[k] /\ At(n - 1)[k] \in Int
    <3> DEFINE g == Part(q, k, w, N)
    <3>1. Totals(T[k], g, N)
      BY DEF PartTotals
    <3>2. g[n] = IF q[n] = k THEN w[n] ELSE 0
      BY DEF Part
    <3> HIDE DEF g
    <3>3. T[k][n] = T[k][n - 1] + g[n] /\ T[k][n - 1] \in Int
      BY <2>1, <3>1 DEF Totals
    <3>4. g[n] = h[k]
      BY <2>2, <3>2
    <3> HIDE DEF h, At
    <3> QED BY <1>0, <3>3, <3>4
  <2> HIDE DEF h, At
  <2>4. PICK A : Totals(A, At(n - 1), K)
    BY <2>3, TotalsExist
  <2>5. V[K] = A[K] + w[n]
    <3> DEFINE less == At(n - 1)
               more == At(n)
               at == q[n]
               x == w[n]
    <3>1. Totals(V, more, K) /\ Totals(A, less, K)
      BY <2>4
    <3>2. MoreAt(more, less, at, x, K)
      BY <2>2, <2>3 DEF MoreAt
    <3>3. at \in 1 .. K /\ x \in Int
      BY <2>1
    <3> HIDE DEF less, more, at, x
    <3>4. V[K] = A[K] + x
      BY <3>1, <3>2, <3>3, TotalsOfMore
    <3> QED BY <3>4 DEF x
  <2>8. A[K] = W[n - 1]
    BY <1>2, <2>4
  <2>9. W[n] = W[n - 1] + w[n]
    BY DEF Totals
  <2> QED BY <2>5, <2>8, <2>9
<1>3. \A n \in 0 .. N : n \in Good
  <2> HIDE DEF Good
  <2> QED BY <1>1, <1>2, UpToNumber
<1>4. PICK V : Totals(V, At(N), K)
  <2>1. ASSUME NEW k \in 1 .. K PROVE At(N)[k] \in Int
    <3>1. Totals(T[k], Part(q, k, w, N), N) /\ N \in 0 .. N
      BY DEF PartTotals
    <3>2. T[k][N] \in Int
      BY <3>1 DEF Totals
    <3> QED BY <1>0, <3>2
  <2> HIDE DEF At
  <2> QED BY <2>1, TotalsExist
<1>5. V[K] = W[N]
  BY <1>3, <1>4
<1>6. \A k \in 0 .. K : U[k] = V[k]
  <2>1. \A k \in 1 .. K : parts[k] = At(N)[k]
    BY <1>0 DEF SumsOfParts
  <2> HIDE DEF At
  <2> QED BY <1>4, <2>1, TotalsAgree
<1>7. K \in 0 .. K
  OBVIOUS
<1> QED BY <1>5, <1>6, <1>7

-----------------------------------------------------------------------------
\* At a scale wide enough, the sum of numbers is that of their coefficients.
LEMMA PlusAligned ==
  ASSUME NEW a \in Numbers, NEW b \in Numbers, NEW m \in Nat, a.s <= m, b.s <= m
  PROVE  /\ DecimalPlus(a, b) \in Numbers /\ DecimalPlus(a, b).s <= m
         /\ AlignedCoefficient(DecimalPlus(a, b), m)
              = AlignedCoefficient(a, m) + AlignedCoefficient(b, m)
<1> DEFINE w == Wider(a, b)
           x == AlignedCoefficient(a, w)
           y == AlignedCoefficient(b, w)
           p == DecimalPlus(a, b)
           factor == PowerOfTen(m - w)
<1>1. w \in Nat /\ a.s <= w /\ b.s <= w
  BY WiderFacts
<1>2. w <= m
  BY DEF Wider
<1>3. x \in Int /\ y \in Int
  BY <1>1, AlignedFacts
<1>4. p.c = x + y /\ p.s = w /\ p \in Numbers
  BY PlusFacts DEF DecimalPlus
<1>5. AlignedCoefficient(a, m) = x * factor /\ AlignedCoefficient(b, m) = y * factor
  BY <1>1, <1>2, AlignedFurther
<1>6. AlignedCoefficient(p, m) = (x + y) * factor
  BY <1>4 DEF AlignedCoefficient
<1>7. factor \in Nat
  <2>1. m - w \in Nat
    BY <1>1, <1>2
  <2> QED BY <2>1, PowerOfTenFacts
<1> HIDE DEF w, x, y, factor, p
<1>8. (x + y) * factor = x * factor + y * factor
  BY <1>3, <1>7
<1> QED BY <1>2, <1>4, <1>5, <1>6, <1>8 DEF p

\* Writing a number does not change its value.
LEMMA TextAligned ==
  ASSUME NEW v \in Numbers, NEW m \in Nat, v.s <= m
  PROVE  /\ DecimalText(v.c, v.s) \in Numbers /\ DecimalText(v.c, v.s).s <= m
         /\ AlignedCoefficient(DecimalText(v.c, v.s), m) = AlignedCoefficient(v, m)
<1> DEFINE t == DecimalText(v.c, v.s)
           c == v.c
           s == v.s
<1>1. c \in Int /\ s \in Nat
  BY DEF Numbers
<1>2. PICK k \in 0 .. s : t.s = s - k /\ t.c * PowerOfTen(k) = c /\ t \in Numbers
  BY <1>1, DecimalTextFacts
<1>3. t.c \in Int
  BY <1>2 DEF Numbers
<1> HIDE DEF t, c, s
<1>4. k \in Nat /\ m - s \in Nat /\ m - (s - k) = k + (m - s)
  BY <1>1, <1>2 DEF s
<1>5. PowerOfTen(m - t.s) = PowerOfTen(k) * PowerOfTen(m - s)
  BY <1>2, <1>4, PowerOfTenAdds
<1>6. PowerOfTen(k) \in Nat /\ PowerOfTen(m - s) \in Nat
  BY <1>4, PowerOfTenFacts
<1>7. t.c * (PowerOfTen(k) * PowerOfTen(m - s)) = (t.c * PowerOfTen(k)) * PowerOfTen(m - s)
  BY <1>3, <1>6
<1>8. AlignedCoefficient(t, m) = t.c * PowerOfTen(m - t.s) /\ AlignedCoefficient(v, m) = c * PowerOfTen(m - s)
  BY DEF AlignedCoefficient, c, s
<1>9. AlignedCoefficient(t, m) = AlignedCoefficient(v, m)
  BY <1>2, <1>5, <1>7, <1>8
<1>10. t.s <= m
  BY <1>1, <1>2, <1>4
<1> QED BY <1>2, <1>9, <1>10 DEF t, c, s

\* The sum of a list of numbers is the total of their coefficients.
LEMMA SumAligned ==
  ASSUME NEW values \in Seq(Numbers), NEW m \in Nat, \A n \in 1 .. Len(values) : values[n].s <= m,
         NEW g, NEW S, Totals(S, g, Len(values)),
         \A n \in 1 .. Len(values) : g[n] = AlignedCoefficient(values[n], m)
  PROVE  /\ DecimalSum(values) \in Numbers /\ DecimalSum(values).s <= m
         /\ AlignedCoefficient(DecimalSum(values), m) = S[Len(values)]
<1> DEFINE N == Len(values)
<1>1. PICK F : Sums(F, values)
  BY SumFacts
<1>2. N \in Nat /\ \A n \in 1 .. N : values[n] \in Numbers
  OBVIOUS
<1> DEFINE Good == {n \in Nat : F[n].s <= m /\ AlignedCoefficient(F[n], m) = S[n]}
<1>3. 0 \in Good /\ Good \in SUBSET Nat
  <2>1. F[0] = Integer(0) /\ S[0] = 0
    BY <1>1 DEF Sums, Totals
  <2>2. Integer(0).s = 0 /\ Integer(0).c = 0
    BY DEF Integer
  <2>3. PowerOfTen(m - 0) \in Nat
    <3>1. m - 0 \in Nat
      OBVIOUS
    <3> QED BY <3>1, PowerOfTenFacts
  <2>4. AlignedCoefficient(Integer(0), m) = 0
    BY <2>2, <2>3 DEF AlignedCoefficient
  <2> QED BY <2>1, <2>2, <2>4
<1>4. ASSUME NEW n \in 1 .. N, n - 1 \in Good PROVE n \in Good
  <2>1. n - 1 \in 0 .. N
    BY <1>2
  <2>2. F[n - 1] \in Numbers /\ F[n] = DecimalPlus(F[n - 1], values[n])
    BY <1>1, <2>1 DEF Sums
  <2>3. F[n - 1].s <= m /\ AlignedCoefficient(F[n - 1], m) = S[n - 1]
    BY <1>4
  <2>4. values[n] \in Numbers /\ values[n].s <= m
    BY <1>2
  <2>5. S[n] = S[n - 1] + AlignedCoefficient(values[n], m)
    BY DEF Totals
  <2> DEFINE a == F[n - 1]
             b == values[n]
             p == DecimalPlus(a, b)
  <2>6. p.s <= m /\ AlignedCoefficient(p, m) = AlignedCoefficient(a, m) + AlignedCoefficient(b, m)
    <3> HIDE DEF a, b
    <3> QED BY <2>2, <2>3, <2>4, PlusAligned DEF a, b
  <2>7. F[n] = p
    BY <2>2
  <2> HIDE DEF p
  <2>8. F[n].s <= m /\ AlignedCoefficient(F[n], m) = S[n]
    BY <2>3, <2>5, <2>6, <2>7
  <2> QED BY <2>8
<1>5. \A n \in 0 .. N : n \in Good
  <2> HIDE DEF Good, N
  <2> QED BY <1>2, <1>3, <1>4, UpToNumber
<1>6. N \in Good /\ DecimalSum(values) = F[N] /\ F[N] \in Numbers
  <2>1. N \in 0 .. N
    BY <1>2
  <2> QED BY <1>1, <1>5, <2>1 DEF Sums
<1> QED BY <1>6

-----------------------------------------------------------------------------
(* Sums of fields *)

\* What a row counts for in the sum of a field.
Weight(row, f, m) == IF Value(row, f) = None THEN 0 ELSE AlignedCoefficient(Value(row, f), m)

\* No value of a field in a list has more decimal places.
ScaledWithin(list, f, m) ==
  m \in Nat /\ \A i \in DOMAIN list : Value(list[i], f) # None => Value(list[i], f).s <= m

\* The values of a field have a common scale.
LEMMA ScaleExists ==
  ASSUME NEW list, IsSequence(list), NEW f,
         \A i \in DOMAIN list : Value(list[i], f) \in Numbers \union {None}
  PROVE  \E m : ScaledWithin(list, f, m)
<1> DEFINE N == Len(list)
           v(i) == Value(list[i], f)
           Good == {n \in Nat : \E m \in Nat : \A i \in 1 .. n : v(i) # None => v(i).s <= m}
<1>1. N \in Nat /\ DOMAIN list = 1 .. N
  BY SequenceFacts
<1>2. 0 \in Good /\ Good \in SUBSET Nat
  OBVIOUS
<1>3. ASSUME NEW n \in 1 .. N, n - 1 \in Good PROVE n \in Good
  <2>1. PICK m \in Nat : \A i \in 1 .. n - 1 : v(i) # None => v(i).s <= m
    BY <1>3
  <2>2. v(n) \in Numbers \union {None}
    BY <1>1
  <2>3. \A i \in 1 .. n : i \in 1 .. n - 1 \/ i = n
    OBVIOUS
  <2>4. n \in Nat
    OBVIOUS
  <2> HIDE DEF v
  <2>5. \E k \in Nat : k >= m /\ (v(n) # None => v(n).s <= k)
    <3>1. CASE v(n) = None
      BY <3>1
    <3>2. CASE v(n) # None /\ v(n).s <= m
      BY <3>2
    <3>3. CASE v(n) # None /\ ~(v(n).s <= m)
      <4>1. v(n).s \in Nat
        BY <2>2, <3>3 DEF Numbers
      <4> QED BY <3>3, <4>1
    <3> QED BY <3>1, <3>2, <3>3
  <2>6. PICK k \in Nat : k >= m /\ (v(n) # None => v(n).s <= k)
    BY <2>5
  <2>7. ASSUME NEW i \in 1 .. n, v(i) # None PROVE v(i).s <= k
    <3>1. CASE i = n
      BY <2>6, <2>7, <3>1
    <3>2. CASE i \in 1 .. n - 1
      <4>1. v(i).s <= m
        BY <2>1, <2>7, <3>2
      <4>2. v(i) \in Numbers \union {None}
        <5>1. i \in DOMAIN list
          BY <1>1, <3>2
        <5> QED BY <5>1 DEF v
      <4>3. v(i).s \in Nat
        BY <2>7, <4>2 DEF Numbers
      <4> QED BY <2>6, <4>1, <4>3
    <3> QED BY <2>3, <3>1, <3>2
  <2> QED BY <2>4, <2>7
<1>4. \A n \in 0 .. N : n \in Good
  <2> HIDE DEF Good, N
  <2> QED BY <1>1, <1>2, <1>3, UpToNumber
<1>5. N \in Good
  <2>1. N \in 0 .. N
    BY <1>1
  <2> HIDE DEF Good, N
  <2> QED BY <1>4, <2>1
<1>6. PICK m \in Nat : \A i \in 1 .. N : v(i) # None => v(i).s <= m
  BY <1>5
<1> QED BY <1>1, <1>6 DEF ScaledWithin

\* The sum of the values of a field is the total of what each row counts for.
LEMMA GivenTotals ==
  ASSUME NEW s, NEW t, NEW group, Shaped(s, t, group), NEW f \in DOMAIN s, s[f].type \in Numeric,
         NEW m, ScaledWithin(group, f, m),
         NEW g, NEW S, Totals(S, g, Len(group)),
         \A i \in 1 .. Len(group) : g[i] = Weight(group[i], f, m)
  PROVE  /\ DecimalSum(Given(group, f)) \in Numbers /\ DecimalSum(Given(group, f)).s <= m
         /\ AlignedCoefficient(DecimalSum(Given(group, f)), m) = S[Len(group)]
<1> DEFINE places == With(group, f)
           values == Given(group, f)
           N == Len(group)
           C == Cardinality(places)
<1>1. N \in Nat /\ DOMAIN group = 1 .. N
  BY SequenceFacts DEF Shaped
<1>2. ValuesOf(s[f].type) = Numbers
  BY TypesOfValues DEF Numeric
<1>3. values \in Seq(Numbers) /\ Len(values) = C
      /\ \A n \in 1 .. C : Nth(places, n) \in places /\ values[n] = Value(group[Nth(places, n)], f)
  BY <1>2, GivenFacts
<1>4. C \in Nat
  <2>1. Len(values) \in Nat
    BY <1>3
  <2> QED BY <1>3, <2>1
<1>5. \A i : i \in places <=> i \in 1 .. N /\ Value(group[i], f) # None
  BY <1>1 DEF With
<1>6. \A n \in 1 .. C : values[n] \in Numbers
  BY <1>3
<1> HIDE DEF places, values, N, C
<1>7. ASSUME NEW n \in 1 .. C
      PROVE  /\ values[n].s <= m
             /\ AlignedCoefficient(values[n], m) = g[Nth(places, n)]
             /\ AlignedCoefficient(values[n], m) \in Int
  <2> DEFINE i == Nth(places, n)
  <2>1. i \in 1 .. N /\ Value(group[i], f) # None /\ values[n] = Value(group[i], f)
    BY <1>3, <1>5
  <2> HIDE DEF i
  <2>2. values[n].s <= m /\ m \in Nat
    BY <1>1, <2>1 DEF ScaledWithin
  <2>3. AlignedCoefficient(values[n], m) \in Int
    BY <1>6, <2>2, AlignedFacts
  <2>4. g[i] = AlignedCoefficient(values[n], m)
    BY <2>1 DEF Weight, N
  <2> QED BY <2>2, <2>3, <2>4 DEF i
<1> DEFINE w == [n \in 1 .. C |-> AlignedCoefficient(values[n], m)]
<1>8. \A n \in 1 .. C : w[n] = AlignedCoefficient(values[n], m) /\ w[n] = g[Nth(places, n)] /\ w[n] \in Int
  BY <1>7
<1> HIDE DEF w
<1>9. PICK R : Totals(R, w, C)
  BY <1>4, <1>8, TotalsExist
<1>10. R[C] = S[N]
  <2>1. places \in SUBSET (1 .. N)
    BY <1>5
  <2>2. \A i \in (1 .. N) \ places : g[i] = 0
    <3>1. \A i \in (1 .. N) \ places : Value(group[i], f) = None
      BY <1>5
    <3> QED BY <3>1 DEF Weight, N
  <2>3. \A n \in 1 .. Cardinality(places) : w[n] = g[Nth(places, n)]
    BY <1>8 DEF C
  <2>4. Totals(R, w, Cardinality(places)) /\ Totals(S, g, N)
    BY <1>9 DEF C, N
  <2>5. R[Cardinality(places)] = S[N]
    BY <1>1, <2>1, <2>2, <2>3, <2>4, PickedTotals
  <2> QED BY <2>5 DEF C
<1>11. /\ DecimalSum(values) \in Numbers /\ DecimalSum(values).s <= m
       /\ AlignedCoefficient(DecimalSum(values), m) = R[Len(values)]
  <2>1. m \in Nat
    BY DEF ScaledWithin
  <2>2. Totals(R, w, Len(values))
    BY <1>3, <1>9
  <2>3. \A n \in 1 .. Len(values) : values[n].s <= m /\ w[n] = AlignedCoefficient(values[n], m)
    BY <1>3, <1>7, <1>8
  <2> QED BY <1>3, <2>1, <2>2, <2>3, SumAligned
<1> QED BY <1>3, <1>10, <1>11 DEF values, N

-----------------------------------------------------------------------------
(* The rows of groups *)

\* M are the rows of the groups of list, which have these keys.
GroupedAs(M, keys, o, list, t) ==
  /\ DOMAIN M = DOMAIN keys
  /\ \A k \in DOMAIN keys : M[k] = GroupRow(o, Group(o, list, keys[k]), t) /\ M[k] # Throws

\* An aggregate has one row for each key.
LEMMA AggregatedAs ==
  ASSUME NEW o, NEW list, NEW t, AggregateRows(o, list, t) # Throws
  PROVE  GroupedAs(AggregateRows(o, list, t), GroupKeys(o, list), o, list, t)
<1> DEFINE keys == GroupKeys(o, list)
           made == [k \in DOMAIN keys |-> GroupRow(o, Group(o, list, keys[k]), t)]
<1>1. AggregateRows(o, list, t) = Attempt(made)
  BY Zenon DEF AggregateRows
<1>2. DOMAIN made = DOMAIN keys /\ \A k \in DOMAIN keys : made[k] = GroupRow(o, Group(o, list, keys[k]), t)
  OBVIOUS
<1> HIDE DEF made, keys
<1>3. Attempt(made) = made /\ \A i \in DOMAIN made : made[i] # Throws
  BY <1>1, AttemptFacts
<1> QED BY <1>1, <1>2, <1>3 DEF GroupedAs, keys

\* What the row of a group has in its fields.
RowOfGroup(R, o, group, t) ==
  /\ DOMAIN R = ToSet(o.groupBy) \union Named(o)
  /\ \A f \in ToSet(o.groupBy) : R[f] = Value(group[1], f)
  /\ \A f \in Named(o) : f \notin ToSet(o.groupBy) => R[f] = Measured(Measure(o, f), group, t)

\* The row of a group has its key and its measures.
LEMMA GroupedRowIs ==
  ASSUME NEW o, NEW group, NEW t, GroupRow(o, group, t) # Throws
  PROVE  RowOfGroup(GroupRow(o, group, t), o, group, t)
<1>1. /\ DOMAIN GroupRow(o, group, t) = ToSet(o.groupBy) \union Named(o)
      /\ \A f \in ToSet(o.groupBy) : GroupRow(o, group, t)[f] = Value(group[1], f)
      /\ \A f \in Named(o) : f \notin ToSet(o.groupBy) =>
            GroupRow(o, group, t)[f] = Measured(Measure(o, f), group, t)
  BY GroupRowFacts
<1> QED BY <1>1 DEF RowOfGroup

\* The row of a group has the key of the rows in it.
LEMMA KeyOfGroupRow ==
  ASSUME NEW s, NEW t, NEW list, Shaped(s, t, list), NEW o, IsSequence(o.groupBy),
         NEW i \in DOMAIN list,
         NEW R, R = GroupRow(o, Group(o, list, GroupKey(o, list[i])), t), R # Throws
  PROVE  GroupKey(o, R) = GroupKey(o, list[i])
<1> DEFINE group == Group(o, list, GroupKey(o, list[i]))
<1>1. PICK j \in DOMAIN list : GroupKey(o, list[j]) = GroupKey(o, list[i]) /\ group[1] = list[j]
  BY GroupFacts
<1>0. R = GroupRow(o, group, t)
  OBVIOUS
<1> HIDE DEF group
<1>00. RowOfGroup(R, o, group, t)
  BY <1>0, GroupedRowIs
<1>2. /\ DOMAIN R = ToSet(o.groupBy) \union Named(o)
      /\ \A f \in ToSet(o.groupBy) : R[f] = Value(group[1], f)
  BY <1>00 DEF RowOfGroup
<1>3. ASSUME NEW n \in DOMAIN o.groupBy PROVE Value(R, o.groupBy[n]) = Value(list[j], o.groupBy[n])
  <2>1. o.groupBy[n] \in ToSet(o.groupBy)
    BY SequenceFacts
  <2> QED BY <1>1, <1>2, <2>1 DEF Value
<1>4. GroupKey(o, R) = GroupKey(o, list[j])
  BY <1>3 DEF GroupKey
<1> QED BY <1>1, <1>4

\* Measures have different names.
LEMMA MeasureOfName ==
  ASSUME NEW o, WellConfigured(o), o.op = "aggregate", NEW m \in ToSet(o.measures)
  PROVE  m.name \in Named(o) /\ Measure(o, m.name) = m
<1>1. IsSequence(o.measures) /\ DistinctNames(o.measures)
  BY Zenon DEF WellConfigured
<1>2. m.name \in Named(o)
  BY DEF Named
<1>3. Measure(o, m.name) \in ToSet(o.measures) /\ Measure(o, m.name).name = m.name
  BY <1>2, MeasureFacts
<1>4. PICK i \in DOMAIN o.measures, j \in DOMAIN o.measures :
        m = o.measures[i] /\ Measure(o, m.name) = o.measures[j]
  BY <1>1, <1>3, SequenceFacts
<1>5. i = j
  BY <1>1, <1>3, <1>4 DEF DistinctNames
<1> QED BY <1>2, <1>4, <1>5

\* The rows M of an aggregate: one of every key, with the measures of its group.
RowsOfGroups(M, keys, o, list, t) ==
  /\ IsSequence(keys) /\ Len(keys) \in Nat /\ DOMAIN keys = 1 .. Len(keys)
  /\ DOMAIN M = DOMAIN keys
  /\ \A k \in DOMAIN keys :
       /\ GroupKey(o, M[k]) = keys[k]
       /\ \E i \in DOMAIN list : keys[k] = GroupKey(o, list[i])
       /\ \A m \in ToSet(o.measures) :
            m.name \in DOMAIN M[k] /\ M[k][m.name] = Measured(m, Group(o, list, keys[k]), t)
  /\ \A i \in DOMAIN list : \E k \in DOMAIN keys : keys[k] = GroupKey(o, list[i])
  /\ \A k, j \in DOMAIN keys : keys[k] = keys[j] => k = j

\* The rows of an aggregate are one of each key, with the measures of its group.
LEMMA GroupedRows ==
  ASSUME NEW s, NEW t, NEW list, Shaped(s, t, list), NEW o, WellConfigured(o), o.op = "aggregate",
         AggregateShape(o, s) # Invalid, AggregateRows(o, list, t) # Throws
  PROVE  RowsOfGroups(AggregateRows(o, list, t), GroupKeys(o, list), o, list, t)
<1> DEFINE M == AggregateRows(o, list, t)
           keys == GroupKeys(o, list)
<1>1. GroupedAs(M, keys, o, list, t)
  BY AggregatedAs
<1>2. IsSequence(list)
  BY DEF Shaped
<1>3. /\ IsSequence(keys)
      /\ \A k \in DOMAIN keys : \E i \in DOMAIN list : keys[k] = GroupKey(o, list[i])
      /\ \A i \in DOMAIN list : \E k \in DOMAIN keys : keys[k] = GroupKey(o, list[i])
      /\ \A k, m \in DOMAIN keys : keys[k] = keys[m] => k = m
  BY <1>2, GroupKeysFacts
<1>4. IsSequence(o.groupBy)
  BY Zenon DEF WellConfigured
<1>5. \A m \in ToSet(o.measures) : m.name \notin ToSet(o.groupBy)
  BY AggregateShapeFacts
<1> HIDE DEF M, keys
<1>6. Len(keys) \in Nat /\ DOMAIN keys = 1 .. Len(keys)
  BY <1>3, SequenceFacts
<1>7. ASSUME NEW k \in DOMAIN keys
      PROVE  /\ GroupKey(o, M[k]) = keys[k]
             /\ \E i \in DOMAIN list : keys[k] = GroupKey(o, list[i])
             /\ \A m \in ToSet(o.measures) :
                  m.name \in DOMAIN M[k] /\ M[k][m.name] = Measured(m, Group(o, list, keys[k]), t)
  <2>1. PICK i \in DOMAIN list : keys[k] = GroupKey(o, list[i])
    BY <1>3
  <2>2. M[k] = GroupRow(o, Group(o, list, keys[k]), t) /\ M[k] # Throws
    BY <1>1 DEF GroupedAs
  <2>3. GroupKey(o, M[k]) = keys[k]
    BY <1>4, <2>1, <2>2, KeyOfGroupRow
  <2>4. ASSUME NEW m \in ToSet(o.measures)
        PROVE  m.name \in DOMAIN M[k] /\ M[k][m.name] = Measured(m, Group(o, list, keys[k]), t)
    <3>1. m.name \in Named(o) /\ Measure(o, m.name) = m
      BY MeasureOfName
    <3> DEFINE group == Group(o, list, keys[k])
    <3>2. M[k] = GroupRow(o, group, t) /\ M[k] # Throws
      BY <2>2
    <3> HIDE DEF group
    <3>3. RowOfGroup(M[k], o, group, t)
      BY <3>2, GroupedRowIs
    <3> QED BY <1>5, <3>1, <3>3 DEF RowOfGroup, group
  <2> QED BY <2>1, <2>3, <2>4
<1>8. DOMAIN M = DOMAIN keys
  BY <1>1 DEF GroupedAs
<1>9. RowsOfGroups(M, keys, o, list, t)
  BY <1>3, <1>6, <1>7, <1>8 DEF RowsOfGroups
<1> QED BY <1>9 DEF M, keys

\* Every row is in the group of exactly one of them.
LEMMA OneGroup ==
  ASSUME NEW M, NEW keys, NEW o, NEW list, NEW t, RowsOfGroups(M, keys, o, list, t),
         NEW i \in DOMAIN list
  PROVE  Cardinality({n \in DOMAIN M : GroupKey(o, M[n]) = GroupKey(o, list[i])}) = 1
<1>1. PICK k \in DOMAIN keys : keys[k] = GroupKey(o, list[i])
  BY DEF RowsOfGroups
<1>2. \A n \in DOMAIN M : GroupKey(o, M[n]) = GroupKey(o, list[i]) <=> n = k
  BY <1>1 DEF RowsOfGroups
<1>3. {n \in DOMAIN M : GroupKey(o, M[n]) = GroupKey(o, list[i])} = {k}
  BY <1>1, <1>2 DEF RowsOfGroups
<1> QED BY <1>3, FS_Singleton

\* x is what the numbers w at some places add up to.
AddsUp(x, w, places) ==
  \E S, g : /\ Totals(S, g, Cardinality(places))
            /\ \A n \in 1 .. Cardinality(places) : g[n] = w[Nth(places, n)]
            /\ x = S[Cardinality(places)]

\* A group's part is what the numbers w of its rows add up to.
PartsByGroup(parts, w, keys, o, list) ==
  /\ \A i \in DOMAIN list : w[i] \in Int
  /\ \A k \in DOMAIN keys : AddsUp(parts[k], w, InGroup(o, list, keys[k]))

\* What the groups add up to is what all rows do.
LEMMA GroupTotals ==
  ASSUME NEW M, NEW keys, NEW o, NEW list, NEW t, RowsOfGroups(M, keys, o, list, t),
         IsSequence(list), NEW w, NEW parts, PartsByGroup(parts, w, keys, o, list),
         NEW W, Totals(W, w, Len(list)), NEW U, Totals(U, parts, Len(keys))
  PROVE  U[Len(keys)] = W[Len(list)]
<1> DEFINE N == Len(list)
           K == Len(keys)
           q == [i \in 1 .. N |-> CHOOSE k \in DOMAIN keys : keys[k] = GroupKey(o, list[i])]
           T == [k \in 1 .. K |-> CHOOSE R : Totals(R, Part(q, k, w, N), N)]
<1>1. N \in Nat /\ DOMAIN list = 1 .. N
  BY SequenceFacts
<1>2. K \in Nat /\ DOMAIN keys = 1 .. K
  BY DEF RowsOfGroups
<1>0. \A i \in 1 .. N : w[i] \in Int
  BY <1>1 DEF PartsByGroup
<1>3. \A i \in 1 .. N : q[i] \in 1 .. K /\ keys[q[i]] = GroupKey(o, list[i])
  BY <1>1, <1>2 DEF RowsOfGroups
<1>4. \A i \in 1 .. N : \A k \in 1 .. K : keys[k] = GroupKey(o, list[i]) <=> q[i] = k
  BY <1>2, <1>3 DEF RowsOfGroups
<1> HIDE DEF q, N
<1>5. ASSUME NEW k \in 1 .. K PROVE Totals(T[k], Part(q, k, w, N), N)
  <2> DEFINE g == Part(q, k, w, N)
  <2>1. \A n \in 1 .. N : g[n] \in Int
    BY <1>0 DEF Part
  <2> HIDE DEF g
  <2>2. \E R : Totals(R, g, N)
    BY <1>1, <2>1, TotalsExist
  <2> QED BY <2>2 DEF g
<1> HIDE DEF T
<1>6. ASSUME NEW k \in 1 .. K PROVE parts[k] = T[k][N]
  <2> DEFINE places == InGroup(o, list, keys[k])
             masked == Part(q, k, w, N)
  <2>1. places \in SUBSET (1 .. N) /\ \A i \in 1 .. N : i \in places <=> q[i] = k
    BY <1>1, <1>4 DEF InGroup
  <2>2. \A i \in 1 .. N : masked[i] = IF q[i] = k THEN w[i] ELSE 0
    BY DEF Part
  <2>3. Totals(T[k], masked, N)
    BY <1>5
  <2>4. AddsUp(parts[k], w, places)
    BY <1>2 DEF PartsByGroup
  <2> HIDE DEF places, masked
  <2>5. PICK S, g : /\ Totals(S, g, Cardinality(places))
                    /\ \A n \in 1 .. Cardinality(places) : g[n] = w[Nth(places, n)]
                    /\ parts[k] = S[Cardinality(places)]
    BY <2>4 DEF AddsUp
  <2>6. /\ \A i \in places : masked[i] = w[i]
        /\ \A i \in (1 .. N) \ places : masked[i] = 0
    BY <2>1, <2>2
  <2> DEFINE Z == T[k]
  <2>7. Totals(Z, masked, N)
    BY <2>3
  <2> HIDE DEF Z
  <2>8. S[Cardinality(places)] = Z[N]
    BY <1>1, <2>1, <2>5, <2>6, <2>7, PickedTotals
  <2> QED BY <2>5, <2>8 DEF Z
<1> HIDE DEF K
<1>7. Totals(U, parts, K) /\ Totals(W, w, N)
  BY DEF K, N
<1>8. \A i \in 1 .. N : q[i] \in 1 .. K
  BY <1>3
<1>9. U[K] = W[N]
  <2>1. PartTotals(T, q, w, N, K)
    BY <1>5 DEF PartTotals
  <2>2. SumsOfParts(parts, T, N, K)
    BY <1>6 DEF SumsOfParts
  <2>3. Divided(q, w, N, K)
    BY <1>0, <1>8 DEF Divided
  <2> QED BY <1>1, <1>2, <1>7, <2>1, <2>2, <2>3, TotalsOfParts
<1> QED BY <1>9 DEF K, N

\* A group has as many rows as there are places with its key.
LEMMA GroupLength ==
  ASSUME NEW list, IsSequence(list), NEW o, NEW key
  PROVE  /\ Len(Group(o, list, key)) = Cardinality(InGroup(o, list, key))
         /\ Cardinality(InGroup(o, list, key)) \in Nat
         /\ \A n \in 1 .. Cardinality(InGroup(o, list, key)) :
              /\ Nth(InGroup(o, list, key), n) \in InGroup(o, list, key)
              /\ Group(o, list, key)[n] = list[Nth(InGroup(o, list, key), n)]
<1> DEFINE places == InGroup(o, list, key)
<1>1. places \in SUBSET DOMAIN list /\ Group(o, list, key) = Picked(list, places)
  BY DEF InGroup, Group
<1> HIDE DEF places
<1>2. list \in Seq(ToSet(list))
  BY DEF IsSequence
<1>3. /\ Len(Picked(list, places)) = Cardinality(places)
      /\ Cardinality(places) \in Nat
      /\ \A n \in 1 .. Cardinality(places) :
           Nth(places, n) \in places /\ Picked(list, places)[n] = list[Nth(places, n)]
  BY <1>1, <1>2, PickedFacts
<1> QED BY <1>1, <1>3 DEF places

\* A group counts for as many as its rows.
LEMMA OnesAddUp ==
  ASSUME NEW places, Cardinality(places) \in Nat, NEW w, NEW N,
         \A n \in 1 .. Cardinality(places) : w[Nth(places, n)] = 1
  PROVE  AddsUp(Cardinality(places), w, places)
<1> DEFINE C == Cardinality(places)
           g == [n \in 1 .. C |-> 1]
<1>1. \A n \in 1 .. C : g[n] = 1 /\ g[n] \in Int
  OBVIOUS
<1>2. C \in Nat /\ \A n \in 1 .. C : g[n] = w[Nth(places, n)]
  OBVIOUS
<1> HIDE DEF g, C
<1>3. PICK S : Totals(S, g, C)
  BY <1>1, <1>2, TotalsExist
<1>4. \A n \in 0 .. C : S[n] = n
  BY <1>1, <1>2, <1>3, TotalOfOnes
<1>5. S[C] = C
  BY <1>2, <1>4
<1> QED BY <1>2, <1>3, <1>5 DEF AddsUp, C

-----------------------------------------------------------------------------
(* Counts and sums add up *)

\* The counts of the groups make up the number of the rows.
LEMMA CountsAddUp ==
  ASSUME NEW M, NEW keys, NEW o, NEW list, NEW t, RowsOfGroups(M, keys, o, list, t),
         IsSequence(list), NEW m \in ToSet(o.measures), m.op = "count_rows",
         NEW parts, \A k \in DOMAIN keys : parts[k] = M[k][m.name].c,
         NEW U, Totals(U, parts, Len(keys))
  PROVE  U[Len(keys)] = Len(list)
<1> DEFINE N == Len(list)
           w == [i \in 1 .. N |-> 1]
<1>1. N \in Nat /\ DOMAIN list = 1 .. N
  BY SequenceFacts
<1>2. \A i \in 1 .. N : w[i] = 1 /\ w[i] \in Int
  OBVIOUS
<1> HIDE DEF w, N
<1>3. ASSUME NEW k \in DOMAIN keys PROVE AddsUp(parts[k], w, InGroup(o, list, keys[k]))
  <2> DEFINE places == InGroup(o, list, keys[k])
             group == Group(o, list, keys[k])
  <2>1. /\ Len(group) = Cardinality(places) /\ Cardinality(places) \in Nat
        /\ \A n \in 1 .. Cardinality(places) : Nth(places, n) \in places
    BY GroupLength
  <2>2. places \subseteq 1 .. N
    BY <1>1 DEF InGroup
  <2>3. M[k][m.name] = Measured(m, group, t)
    BY DEF RowsOfGroups
  <2>4. Measured(m, group, t) = Integer(Len(group))
    BY DEF Measured
  <2> HIDE DEF places, group
  <2>5. parts[k] = Cardinality(places)
    BY <2>1, <2>3, <2>4 DEF Integer
  <2>6. \A n \in 1 .. Cardinality(places) : w[Nth(places, n)] = 1
    BY <1>2, <2>1, <2>2
  <2>7. AddsUp(Cardinality(places), w, places)
    BY <2>1, <2>6, OnesAddUp
  <2> QED BY <2>5, <2>7 DEF places
<1>4. PICK W : Totals(W, w, N)
  BY <1>1, <1>2, TotalsExist
<1>5. W[N] = N
  <2>1. \A n \in 0 .. N : W[n] = n
    BY <1>1, <1>2, <1>4, TotalOfOnes
  <2>2. N \in 0 .. N
    BY <1>1
  <2> QED BY <2>1, <2>2
<1>6. U[Len(keys)] = W[N]
  <2>1. PartsByGroup(parts, w, keys, o, list)
    BY <1>1, <1>2, <1>3 DEF PartsByGroup
  <2>2. Totals(W, w, Len(list))
    BY <1>4 DEF N
  <2> QED BY <2>1, <2>2, GroupTotals DEF N
<1> QED BY <1>5, <1>6 DEF N

\* What the values of a field in a group add up to, at some scale.
LEMMA GroupWeights ==
  ASSUME NEW s, NEW t, NEW list, Shaped(s, t, list), NEW o, NEW i \in DOMAIN list,
         NEW f \in DOMAIN s, s[f].type \in Numeric, NEW b, ScaledWithin(list, f, b),
         NEW w, \A j \in DOMAIN list : w[j] = Weight(list[j], f, b) /\ w[j] \in Int,
         NEW key, key = GroupKey(o, list[i]),
         NEW sum, sum = DecimalSum(Given(Group(o, list, key), f))
  PROVE  /\ sum \in Numbers /\ sum.s <= b
         /\ AddsUp(AlignedCoefficient(sum, b), w, InGroup(o, list, key))
<1> DEFINE places == InGroup(o, list, key)
           group == Group(o, list, key)
           C == Cardinality(places)
           g == [n \in 1 .. C |-> w[Nth(places, n)]]
<1>1. IsSequence(list)
  BY DEF Shaped
<1>2. /\ Len(group) = C /\ C \in Nat
      /\ \A n \in 1 .. C : Nth(places, n) \in places /\ group[n] = list[Nth(places, n)]
  BY <1>1, GroupLength
<1>3. Shaped(s, t, group)
  BY GroupFacts
<1>4. places \subseteq DOMAIN list
  BY DEF InGroup
<1>5. sum = DecimalSum(Given(group, f))
  OBVIOUS
<1> HIDE DEF places, group, C
<1>6. \A n \in 1 .. C : g[n] = w[Nth(places, n)] /\ g[n] \in Int /\ g[n] = Weight(group[n], f, b)
  BY <1>2, <1>4
<1> HIDE DEF g
<1>7. ScaledWithin(group, f, b)
  <2>1. DOMAIN group = 1 .. C
    BY <1>2, <1>3, SequenceFacts DEF Shaped
  <2> QED BY <1>2, <1>4, <2>1 DEF ScaledWithin
<1>8. PICK S : Totals(S, g, C)
  BY <1>2, <1>6, TotalsExist
<1>9. /\ DecimalSum(Given(group, f)) \in Numbers /\ DecimalSum(Given(group, f)).s <= b
      /\ AlignedCoefficient(DecimalSum(Given(group, f)), b) = S[Len(group)]
  <2>1. Totals(S, g, Len(group)) /\ \A n \in 1 .. Len(group) : g[n] = Weight(group[n], f, b)
    BY <1>2, <1>6, <1>8
  <2> QED BY <1>3, <1>7, <2>1, GivenTotals
<1>10. AddsUp(S[C], w, places)
  BY <1>6, <1>8 DEF AddsUp, C
<1> QED BY <1>2, <1>5, <1>9, <1>10 DEF places

\* What a row counts for is an integer.
LEMMA WeightsAreIntegers ==
  ASSUME NEW s, NEW t, NEW list, Shaped(s, t, list), NEW f \in DOMAIN s, s[f].type \in Numeric,
         NEW b, ScaledWithin(list, f, b), NEW i \in DOMAIN list
  PROVE  Weight(list[i], f, b) \in Int
<1>1. ValuesOf(s[f].type) = Numbers
  BY TypesOfValues DEF Numeric
<1>2. Fits(list[i], s)
  BY DEF Shaped
<1>3. Value(list[i], f) \in Numbers \union {None}
  BY <1>1, <1>2, FieldOfRow
<1>4. CASE Value(list[i], f) = None
  BY <1>4 DEF Weight
<1>5. CASE Value(list[i], f) # None
  <2>1. Value(list[i], f) \in Numbers /\ b \in Nat /\ Value(list[i], f).s <= b
    BY <1>3, <1>5 DEF ScaledWithin
  <2> QED BY <1>5, <2>1, AlignedFacts DEF Weight
<1> QED BY <1>4, <1>5

\* The values of a numeric field have a common scale.
LEMMA ScaleOfField ==
  ASSUME NEW s, NEW t, NEW list, Shaped(s, t, list), NEW f \in DOMAIN s, s[f].type \in Numeric
  PROVE  \E b : ScaledWithin(list, f, b)
<1>1. ValuesOf(s[f].type) = Numbers
  BY TypesOfValues DEF Numeric
<1>2. IsSequence(list) /\ \A i \in DOMAIN list : Fits(list[i], s)
  BY DEF Shaped
<1>3. \A i \in DOMAIN list : Value(list[i], f) \in Numbers \union {None}
  BY <1>1, <1>2, FieldOfRow
<1> QED BY <1>2, <1>3, ScaleExists

\* A sum in the row of a group is that of the group.
LEMMA SumOfGroup ==
  ASSUME NEW sum \in Numbers, NEW b \in Nat, sum.s <= b, NEW m, m.op = "sum", NEW group, NEW t,
         sum = DecimalSum(Given(group, m.field)),
         NEW row, NEW f \in DOMAIN row, row[f] = Measured(m, group, t)
  PROVE  /\ Value(row, f) # None /\ Value(row, f).s <= b
         /\ Weight(row, f, b) = AlignedCoefficient(sum, b)
<1> DEFINE v == DecimalText(sum.c, sum.s)
<1>1. Measured(m, group, t) = v
  BY Zenon DEF Measured
<1>2. v \in Numbers /\ v.s <= b /\ AlignedCoefficient(v, b) = AlignedCoefficient(sum, b)
  BY TextAligned
<1> HIDE DEF v
<1>3. v # None
  BY <1>2, MarkersAreNoValues
<1>4. Value(row, f) = v
  BY <1>1 DEF Value
<1> QED BY <1>2, <1>3, <1>4 DEF Weight

\* The sums of the groups make up the sum of the rows.
LEMMA SumsAddUp ==
  ASSUME NEW s, NEW t, NEW list, Shaped(s, t, list), NEW o, WellConfigured(o), o.op = "aggregate",
         AggregateShape(o, s) # Invalid, AggregateRows(o, list, t) # Throws,
         NEW M, M = AggregateRows(o, list, t), NEW m \in ToSet(o.measures), m.op = "sum"
  PROVE  CompareSemanticValues("decimal", DecimalSum(Given(M, m.name)),
                               DecimalSum(Given(list, m.field))) = 0
<1> DEFINE S == AggregateShape(o, s)
           T == AggregateShape(o, t)
           keys == GroupKeys(o, list)
           K == Len(keys)
           N == Len(list)
           f == m.field
<1>1. Shaped(S, T, M)
  BY AggregatedRowsFit
<1>2. RowsOfGroups(M, keys, o, list, t)
  BY GroupedRows
<1>3. m.name \in DOMAIN S /\ S[m.name] = s[f] /\ f \in DOMAIN s /\ s[f].type \in Numeric
  <2>1. ValidMeasure(m, s)
    BY AggregateShapeFacts
  <2>2. f \in DOMAIN s /\ s[f].type \in Numeric
    BY <2>1 DEF ValidMeasure
  <2>3. AggregateFields(o, s, S)
    BY AggregateShapeFacts, AggregateShapeIs
  <2>4. m.name \in Named(o) /\ Measure(o, m.name) = m
    BY MeasureOfName
  <2>5. MeasureField(m, s) = s[f]
    BY DEF MeasureField
  <2> HIDE DEF S
  <2> QED BY <2>2, <2>3, <2>4, <2>5 DEF AggregateFields
<1>4. IsSequence(list) /\ DOMAIN list = 1 .. N /\ N \in Nat
  BY SequenceFacts DEF Shaped
<1>5. /\ DOMAIN M = DOMAIN keys /\ DOMAIN keys = 1 .. K /\ K \in Nat
      /\ \A k \in DOMAIN keys :
           /\ \E i \in DOMAIN list : keys[k] = GroupKey(o, list[i])
           /\ m.name \in DOMAIN M[k] /\ M[k][m.name] = Measured(m, Group(o, list, keys[k]), t)
  BY <1>2 DEF RowsOfGroups
<1>6. Len(M) = K
  <2>1. Len(M) \in Nat /\ DOMAIN M = 1 .. Len(M)
    BY <1>1, SequenceFacts DEF Shaped
  <2> QED BY <1>5, <2>1
<1> HIDE DEF S, T, keys, K, N
<1>7. PICK b : ScaledWithin(list, f, b)
  BY <1>3, ScaleOfField
<1> DEFINE w == [j \in DOMAIN list |-> Weight(list[j], f, b)]
           parts == [k \in DOMAIN keys |-> Weight(M[k], m.name, b)]
<1>8. \A j \in DOMAIN list : w[j] = Weight(list[j], f, b) /\ w[j] \in Int
  BY <1>3, <1>7, WeightsAreIntegers
<1>9. \A k \in DOMAIN keys : parts[k] = Weight(M[k], m.name, b)
  OBVIOUS
<1> HIDE DEF w, parts
<1>10. ASSUME NEW k \in DOMAIN keys
       PROVE  /\ AddsUp(parts[k], w, InGroup(o, list, keys[k]))
              /\ Value(M[k], m.name).s <= b
  <2> DEFINE group == Group(o, list, keys[k])
             sum == DecimalSum(Given(group, f))
  <2>1. PICK i \in DOMAIN list : keys[k] = GroupKey(o, list[i])
    BY <1>5
  <2>2. /\ sum \in Numbers /\ sum.s <= b
        /\ AddsUp(AlignedCoefficient(sum, b), w, InGroup(o, list, keys[k]))
    BY <1>3, <1>7, <1>8, <2>1, GroupWeights
  <2>3. b \in Nat
    BY <1>7 DEF ScaledWithin
  <2> HIDE DEF sum
  <2>4. sum = DecimalSum(Given(group, m.field))
    BY DEF sum
  <2>5. m.name \in DOMAIN M[k] /\ M[k][m.name] = Measured(m, group, t)
    BY <1>5
  <2> HIDE DEF group
  <2>6. Value(M[k], m.name).s <= b /\ Weight(M[k], m.name, b) = AlignedCoefficient(sum, b)
    BY <2>2, <2>3, <2>4, <2>5, SumOfGroup
  <2> QED BY <1>9, <2>2, <2>6
<1>11. ScaledWithin(M, m.name, b)
  BY <1>5, <1>7, <1>10 DEF ScaledWithin
<1>12. \A k \in DOMAIN M : Weight(M[k], m.name, b) \in Int
  BY <1>1, <1>3, <1>11, WeightsAreIntegers
<1>13. PICK U : Totals(U, parts, K)
  <2>1. \A k \in 1 .. K : parts[k] \in Int
    BY <1>5, <1>9, <1>12
  <2> QED BY <1>5, <2>1, TotalsExist
<1>14. PICK W : Totals(W, w, N)
  BY <1>4, <1>8, TotalsExist
<1>15. U[K] = W[N]
  <2>1. PartsByGroup(parts, w, keys, o, list)
    BY <1>8, <1>10 DEF PartsByGroup
  <2>2. Totals(U, parts, Len(keys)) /\ Totals(W, w, Len(list))
    BY <1>13, <1>14 DEF K, N
  <2> QED BY <1>2, <1>4, <2>1, <2>2, GroupTotals DEF K, N
<1> DEFINE x == DecimalSum(Given(M, m.name))
           y == DecimalSum(Given(list, f))
<1>16. x \in Numbers /\ x.s <= b /\ AlignedCoefficient(x, b) = U[K]
  <2>1. S[m.name].type \in Numeric /\ Totals(U, parts, Len(M))
        /\ \A k \in 1 .. Len(M) : parts[k] = Weight(M[k], m.name, b)
    BY <1>3, <1>5, <1>6, <1>9, <1>13
  <2> QED BY <1>1, <1>3, <1>6, <1>11, <2>1, GivenTotals
<1>17. y \in Numbers /\ y.s <= b /\ AlignedCoefficient(y, b) = W[N]
  <2>1. Totals(W, w, Len(list)) /\ \A i \in 1 .. Len(list) : w[i] = Weight(list[i], f, b)
    BY <1>4, <1>8, <1>14 DEF N
  <2> QED BY <1>3, <1>7, <2>1, GivenTotals DEF N
<1> HIDE DEF x, y
<1>18. b \in Nat
  BY <1>7 DEF ScaledWithin
<1>19. /\ CompareSemanticValues("decimal", x, y) = Order(AlignedCoefficient(x, b), AlignedCoefficient(y, b))
       /\ AlignedCoefficient(x, b) \in Int /\ AlignedCoefficient(y, b) \in Int
  BY <1>16, <1>17, <1>18, ComparedAtAnyScale
<1>20. CompareSemanticValues("decimal", x, y) = 0
  BY <1>15, <1>16, <1>17, <1>19, OrderFacts
<1> QED BY <1>20 DEF x, y

-----------------------------------------------------------------------------
(* Rows are accounted for *)

\* The recursion of Counted gives the totals of the counts.
LEMMA CountedTotals ==
  ASSUME NEW name, NEW N \in Nat, N = Len(rows),
         NEW parts, \A n \in 1 .. N : parts[n] = rows[n][name].c /\ parts[n] \in Int
  PROVE  \E U : Totals(U, parts, N) /\ Counted(name) = U[N]
<1> DEFINE Is(F) == F = [n \in 0 .. N |-> IF n = 0 THEN 0 ELSE F[n - 1] + rows[n][name].c]
           C == CHOOSE F : Is(F)
<1>1. PICK F : Totals(F, parts, N)
  BY TotalsExist
<1>2. Is(F)
  <2>1. ASSUME NEW n \in 0 .. N PROVE F[n] = IF n = 0 THEN 0 ELSE F[n - 1] + rows[n][name].c
    <3>1. CASE n = 0
      BY <1>1, <3>1 DEF Totals
    <3>2. CASE n # 0
      <4>1. n \in 1 .. N
        BY <3>2
      <4>2. F[n] = F[n - 1] + parts[n] /\ parts[n] = rows[n][name].c
        BY <1>1, <4>1 DEF Totals
      <4> QED BY <3>2, <4>2
    <3> QED BY <3>1, <3>2
  <2> QED BY <1>1, <2>1 DEF Totals
<1>3. Is(C)
  BY <1>2
<1>4. Counted(name) = C[N]
  BY DEF Counted
<1> HIDE DEF C
<1>5. C = [n \in 0 .. N |-> C[n]] /\ C[0] = 0 /\ \A n \in 1 .. N : C[n] = C[n - 1] + parts[n]
  <2> DEFINE e(n) == IF n = 0 THEN 0 ELSE C[n - 1] + rows[n][name].c
  <2>1. C = [n \in 0 .. N |-> e(n)]
    BY <1>3, Zenon
  <2>2. e(0) = 0 /\ \A n \in 1 .. N : e(n) = C[n - 1] + parts[n]
    OBVIOUS
  <2>3. 0 \in 0 .. N /\ \A n \in 1 .. N : n \in 0 .. N
    OBVIOUS
  <2> HIDE DEF e
  <2>4. C = [n \in 0 .. N |-> C[n]] /\ \A n \in 0 .. N : C[n] = e(n)
    BY <2>1
  <2> QED BY <2>2, <2>3, <2>4
<1>6. C \in [0 .. N -> Int]
  <2>1. ASSUME NEW n \in 1 .. N, C[n - 1] \in Int PROVE C[n] \in Int
    <3>1. C[n] = C[n - 1] + parts[n] /\ parts[n] \in Int
      BY <1>5
    <3> QED BY <2>1, <3>1
  <2>2. C[0] \in Int
    BY <1>5
  <2> QED BY <1>5, <2>1, <2>2, RecursionTyped
<1>7. Totals(C, parts, N)
  BY <1>5, <1>6 DEF Totals
<1> QED BY <1>4, <1>7

\* No row of an aggregate's input is lost or counted twice.
LEMMA GroupsAccountFor ==
  ASSUME NEW s, Shaped(s, before.shape, before.left), WellConfigured(last), last.op = "aggregate",
         AggregateShape(last, s) # Invalid,
         rows = AggregateRows(last, before.left, before.shape), rows # Throws
  PROVE  /\ \A row \in ToSet(before.left) :
              Cardinality({n \in DOMAIN rows : GroupKey(last, rows[n]) = GroupKey(last, row)}) = 1
         /\ \A m \in ToSet(last.measures) :
              /\ m.op = "count_rows" => Counted(m.name) = Len(before.left)
              /\ m.op = "sum" =>
                   CompareSemanticValues("decimal", DecimalSum(Given(rows, m.name)),
                                         DecimalSum(Given(before.left, m.field))) = 0
<1> DEFINE list == before.left
           t == before.shape
           keys == GroupKeys(last, list)
           K == Len(keys)
<1>1. IsSequence(list) /\ Shaped(AggregateShape(last, s), AggregateShape(last, t), rows)
  BY AggregatedRowsFit DEF Shaped
<1>2. RowsOfGroups(rows, keys, last, list, t)
  BY GroupedRows
<1>3. /\ DOMAIN rows = DOMAIN keys /\ DOMAIN keys = 1 .. K /\ K \in Nat
      /\ \A k \in DOMAIN keys : \A m \in ToSet(last.measures) :
           rows[k][m.name] = Measured(m, Group(last, list, keys[k]), t)
  BY <1>2 DEF RowsOfGroups
<1> HIDE DEF keys, K, t
<1>4. Len(rows) = K
  <2>1. Len(rows) \in Nat /\ DOMAIN rows = 1 .. Len(rows)
    BY <1>1, SequenceFacts DEF Shaped
  <2> QED BY <1>3, <2>1
<1>5. ASSUME NEW row \in ToSet(list)
      PROVE  Cardinality({n \in DOMAIN rows : GroupKey(last, rows[n]) = GroupKey(last, row)}) = 1
  <2>1. PICK i \in DOMAIN list : row = list[i]
    BY <1>1, SequenceFacts
  <2> QED BY <1>2, <2>1, OneGroup
<1>6. ASSUME NEW m \in ToSet(last.measures), m.op = "count_rows"
      PROVE  Counted(m.name) = Len(list)
  <2> DEFINE name == m.name
             parts == [k \in 1 .. K |-> rows[k][name].c]
  <2>1. ASSUME NEW k \in 1 .. K PROVE rows[k][name].c \in Int
    <3> DEFINE group == Group(last, list, keys[k])
    <3>1. rows[k][name] = Measured(m, group, t)
      BY <1>3
    <3>2. Measured(m, group, t) = Integer(Len(group))
      BY <1>6 DEF Measured
    <3>3. Len(group) \in Nat
      <4>1. Len(group) = Cardinality(InGroup(last, list, keys[k]))
            /\ Cardinality(InGroup(last, list, keys[k])) \in Nat
        BY <1>1, GroupLength
      <4> QED BY <4>1
    <3> HIDE DEF group, name
    <3> QED BY <3>1, <3>2, <3>3 DEF Integer
  <2>2. \A k \in 1 .. K : parts[k] = rows[k][name].c /\ parts[k] \in Int
    BY <2>1
  <2> HIDE DEF parts, name
  <2>3. PICK U : Totals(U, parts, K) /\ Counted(name) = U[K]
    BY <1>3, <1>4, <2>2, CountedTotals
  <2>4. U[Len(keys)] = Len(list)
    <3>1. Totals(U, parts, Len(keys))
      BY <2>3 DEF K
    <3>2. \A k \in DOMAIN keys : parts[k] = rows[k][m.name].c
      BY <1>3, <2>2 DEF name
    <3> QED BY <1>1, <1>2, <1>6, <3>1, <3>2, CountsAddUp
  <2> QED BY <2>3, <2>4 DEF name, K
<1>7. ASSUME NEW m \in ToSet(last.measures), m.op = "sum"
      PROVE  CompareSemanticValues("decimal", DecimalSum(Given(rows, m.name)),
                                   DecimalSum(Given(list, m.field))) = 0
  BY <1>7, SumsAddUp
<1> QED BY <1>5, <1>6, <1>7

\* R has the fields of a row, as they are, and otherwise none of the shape s.
Preserves(R, row, s) ==
  /\ \A f \in DOMAIN row : f \in DOMAIN R /\ R[f] = row[f]
  /\ \A f \in DOMAIN s : f \in DOMAIN R => f \in DOMAIN row

\* A left row keeps its fields in a join, and gets none the left shape declares.
LEMMA JoinPreservesRow ==
  ASSUME NEW o, NEW sl, NEW sr, NEW added, Joins(o, sl, sr, added),
         NEW row, Fits(row, sl), KeysThere(o, sl, row), NEW right, IsSequence(right),
         \A j \in DOMAIN right : Fits(right[j], sr)
  PROVE  Preserves(JoinRow(o, row, right), row, sl)
<1>1. CASE Matches(o, row, right) = {}
  <2>1. JoinRow(o, row, right) = row
    BY <1>1 DEF JoinRow
  <2> QED BY <2>1 DEF Preserves
<1>2. CASE Matches(o, row, right) # {}
  <2> DEFINE R == JoinRow(o, row, right)
  <2>1. PICK j \in Matches(o, row, right) :
          Extended(R, o, row, right[j], DOMAIN right[j] \ (RightKeys(o) \intersect DOMAIN row))
    BY <1>2, JoinRowExtends
  <2> HIDE DEF R
  <2> DEFINE got == DOMAIN right[j] \ (RightKeys(o) \intersect DOMAIN row)
  <2>2. Fits(right[j], sr)
    BY DEF Matches
  <2>3. got \subseteq added
    BY <2>2 DEF Joins, KeysThere, Fits
  <2>4. Extended(R, o, row, right[j], got)
    BY <2>1
  <2> HIDE DEF got
  <2>5. ASSUME NEW f \in DOMAIN sl PROVE f \notin Renamed(o, got)
    <3>1. SUFFICES ASSUME NEW g \in got, f = Prefixed(o, g) PROVE FALSE
      BY RenamedFacts
    <3> QED BY <2>3, <3>1 DEF Joins
  <2>6. DOMAIN row \subseteq DOMAIN sl
    BY DEF Fits
  <2>7. Preserves(R, row, sl)
    BY <2>4, <2>5, <2>6 DEF Preserves, Extended
  <2> QED BY <2>7 DEF R
<1> QED BY <1>1, <1>2

\* So it keeps its key.
LEMMA KeptKey ==
  ASSUME NEW o, IsSequence(o.keys), NEW s, \A k \in ToSet(o.keys) : k.left \in DOMAIN s,
         NEW R, NEW row, Preserves(R, row, s)
  PROVE  LeftKey(o, R) = LeftKey(o, row)
<1>1. ASSUME NEW i \in DOMAIN o.keys PROVE Value(R, o.keys[i].left) = Value(row, o.keys[i].left)
  <2> DEFINE f == o.keys[i].left
  <2>1. f \in DOMAIN s
    <3>1. o.keys[i] \in ToSet(o.keys)
      BY SequenceFacts
    <3> QED BY <3>1
  <2> HIDE DEF f
  <2>2. Value(R, f) = Value(row, f)
    BY <2>1 DEF Value, Preserves
  <2> QED BY <2>2 DEF f
<1> QED BY <1>1 DEF LeftKey

\* A join has its left rows in its rows, and drops none that it finds a row for.
LEMMA JoinAccountsFor ==
  ASSUME WellConfigured(last), last.op = "join", JoinRan(last, before, rows)
  PROVE  /\ \A row \in ToSet(rows) : \E l \in ToSet(before.left) :
              \A f \in DOMAIN l : f \in DOMAIN row /\ row[f] = l[f]
         /\ last.type = "left" => Len(rows) = Len(before.left)
         /\ \A i \in DOMAIN before.left :
              Matches(last, before.left[i], before.right) # {} =>
                \E row \in ToSet(rows) : LeftKey(last, row) = LeftKey(last, before.left[i])
<1> DEFINE left == before.left
           right == before.right
<1>1. PICK sl, tl, sr, tr :
        /\ Shaped(sl, tl, left) /\ Shaped(sr, tr, right) /\ JoinShape(last, sl, sr) # Invalid
        /\ \A i \in DOMAIN left : KeysThere(last, sl, left[i])
        /\ rows = JoinRows(last, left, right)
  BY DEF JoinRan
<1> DEFINE added == Added(last, sl, sr)
           places == {i \in DOMAIN left : last.type = "left" \/ Matches(last, left[i], right) # {}}
           matched == Joined(last, left, right)
           N == Len(left)
<1>2. /\ \A k \in ToSet(last.keys) : k.left \in DOMAIN sl
      /\ \A f \in added : Prefixed(last, f) \notin DOMAIN sl
      /\ \A f \in added : \A g \in added : Prefixed(last, f) = Prefixed(last, g) => f = g
  BY <1>1 DEF JoinShape
<1>3. Joins(last, sl, sr, added)
  BY <1>2 DEF Joins, Added
<1>4. /\ IsSequence(left) /\ IsSequence(right)
      /\ \A i \in DOMAIN left : Fits(left[i], sl)
      /\ \A i \in DOMAIN right : Fits(right[i], sr)
  BY <1>1 DEF Shaped
<1>5. IsSequence(last.keys)
  BY Zenon DEF WellConfigured
<1> HIDE DEF added
<1>6. ASSUME NEW i \in DOMAIN left
      PROVE  /\ Preserves(JoinRow(last, left[i], right), left[i], sl)
             /\ LeftKey(last, JoinRow(last, left[i], right)) = LeftKey(last, left[i])
  <2>1. Fits(left[i], sl) /\ KeysThere(last, sl, left[i])
    BY <1>1, <1>4
  <2>2. Preserves(JoinRow(last, left[i], right), left[i], sl)
    BY <1>3, <1>4, <2>1, JoinPreservesRow
  <2> QED BY <1>2, <1>5, <2>2, KeptKey
<1>7. places \in SUBSET DOMAIN left /\ matched = Picked(left, places)
  BY DEF Joined
<1>8. rows = [n \in DOMAIN matched |-> JoinRow(last, matched[n], right)]
  BY <1>1 DEF JoinRows
<1>9. /\ N \in Nat /\ DOMAIN left = 1 .. N /\ left \in Seq(ToSet(left))
      /\ \A x : x \in ToSet(left) <=> \E i \in DOMAIN left : x = left[i]
  BY <1>4, SequenceFacts DEF IsSequence
<1>10. /\ last.type = "left" => places = 1 .. N
       /\ \A i \in DOMAIN left : Matches(last, left[i], right) # {} => i \in places
  BY <1>9
<1> HIDE DEF places, matched, N
<1>11. /\ IsSequence(matched)
       /\ ToSet(matched) = {left[i] : i \in places}
       /\ \A n \in DOMAIN matched : \E i \in places : matched[n] = left[i]
  BY <1>4, <1>7, PickedIsSequence
<1>12. IsSequence(rows) /\ DOMAIN rows = DOMAIN matched /\ Len(rows) = Len(matched)
  BY <1>8, <1>11, ListOfLikeLength
<1>13. \A n \in DOMAIN matched : rows[n] = JoinRow(last, matched[n], right)
  BY <1>8
<1>14. ASSUME NEW row \in ToSet(rows)
       PROVE  \E l \in ToSet(left) : \A f \in DOMAIN l : f \in DOMAIN row /\ row[f] = l[f]
  <2>1. PICK n \in DOMAIN rows : row = rows[n]
    BY <1>12, SequenceFacts
  <2>2. PICK i \in places : matched[n] = left[i]
    BY <1>11, <1>12
  <2>3. i \in DOMAIN left /\ row = JoinRow(last, left[i], right)
    BY <1>7, <1>12, <1>13, <2>1, <2>2
  <2>4. Preserves(row, left[i], sl)
    BY <1>6, <2>3
  <2>5. left[i] \in ToSet(left)
    BY <1>9, <2>3
  <2> QED BY <2>4, <2>5 DEF Preserves
<1>15. ASSUME last.type = "left" PROVE Len(rows) = Len(left)
  <2>1. Len(matched) = Cardinality(places)
    BY <1>7, <1>9, PickedFacts
  <2>2. Cardinality(1 .. N) = N
    <3>1. Cardinality(1 .. N) = N - 1 + 1
      BY <1>9, FS_Interval
    <3> QED BY <1>9, <3>1
  <2>3. places = 1 .. N
    BY <1>10, <1>15
  <2> QED BY <1>12, <2>1, <2>2, <2>3 DEF N
<1>16. ASSUME NEW i \in DOMAIN left, Matches(last, left[i], right) # {}
       PROVE  \E row \in ToSet(rows) : LeftKey(last, row) = LeftKey(last, left[i])
  <2>1. left[i] \in ToSet(matched)
    BY <1>10, <1>11, <1>16
  <2>2. PICK n \in DOMAIN matched : matched[n] = left[i]
    BY <2>1 DEF ToSet
  <2>3. rows[n] = JoinRow(last, left[i], right) /\ rows[n] \in ToSet(rows)
    <3>1. rows[n] \in ToSet(rows)
      BY <1>12, <2>2, SequenceFacts
    <3> QED BY <1>13, <2>2, <3>1
  <2> QED BY <1>6, <2>3
<1> QED BY <1>14, <1>15, <1>16

\* A union has as many rows as its inputs.
LEMMA UnionAccountsFor ==
  ASSUME UnionRan(last, before, rows)
  PROVE  Len(rows) = Len(before.left) + Len(before.right)
<1> DEFINE a == Marked(last, before.left, LeftText)
           b == Marked(last, before.right, RightText)
<1>1. /\ IsSequence(before.left) /\ IsSequence(before.right)
      /\ a = [i \in DOMAIN before.left |-> a[i]] /\ b = [i \in DOMAIN before.right |-> b[i]]
  BY DEF UnionRan, Marked
<1>2. rows = a \o b
  BY DEF UnionRan, UnionRows
<1> HIDE DEF a, b
<1>3. /\ IsSequence(a) /\ Len(a) = Len(before.left)
      /\ IsSequence(b) /\ Len(b) = Len(before.right)
  BY <1>1, ListOfLikeLength
<1>4. a \in Seq(ToSet(a)) /\ b \in Seq(ToSet(b))
  BY <1>3 DEF IsSequence
<1>5. Len(a \o b) = Len(a) + Len(b)
  BY <1>4
<1> QED BY <1>2, <1>3, <1>5

\* The result of every node has the property.
LEMMA RecordedRowsAreAccountedFor ==
  ASSUME Recorded
  PROVE  RowsAreAccountedFor
<1>1. ASSUME NEW op, Ran(op) PROVE WellConfigured(last) /\ last.op = op /\ DoneBy(last, before, rows)
  BY <1>1 DEF Ran, Recorded, DoneBy
<1>2. ASSUME Ran("aggregate")
      PROVE  /\ \A row \in ToSet(before.left) :
                  Cardinality({n \in DOMAIN rows : GroupKey(last, rows[n]) = GroupKey(last, row)}) = 1
             /\ \A m \in ToSet(last.measures) :
                  /\ m.op = "count_rows" => Counted(m.name) = Len(before.left)
                  /\ m.op = "sum" =>
                       CompareSemanticValues("decimal", DecimalSum(Given(rows, m.name)),
                                             DecimalSum(Given(before.left, m.field))) = 0
  <2>1. WellConfigured(last) /\ last.op = "aggregate" /\ AggregateRan(last, before, rows)
    BY <1>1, <1>2 DEF DoneBy
  <2>2. PICK s : /\ Shaped(s, before.shape, before.left) /\ AggregateShape(last, s) # Invalid
                 /\ rows = AggregateRows(last, before.left, before.shape) /\ rows # Throws
    BY <2>1 DEF AggregateRan
  <2> QED BY <2>1, <2>2, GroupsAccountFor
<1>3. Ran("union") => Len(rows) = Len(before.left) + Len(before.right)
  <2>1. Ran("union") => UnionRan(last, before, rows)
    BY <1>1 DEF DoneBy
  <2> QED BY <2>1, UnionAccountsFor
<1>4. ASSUME Ran("join")
      PROVE  /\ \A row \in ToSet(rows) : \E l \in ToSet(before.left) :
                  \A f \in DOMAIN l : f \in DOMAIN row /\ row[f] = l[f]
             /\ last.type = "left" => Len(rows) = Len(before.left)
             /\ \A i \in DOMAIN before.left :
                  Matches(last, before.left[i], before.right) # {} =>
                    \E row \in ToSet(rows) : LeftKey(last, row) = LeftKey(last, before.left[i])
  <2>1. WellConfigured(last) /\ last.op = "join" /\ JoinRan(last, before, rows)
    BY <1>1, <1>4 DEF DoneBy
  <2> QED BY <2>1, JoinAccountsFor
<1> QED BY <1>2, <1>3, <1>4, Zenon DEF RowsAreAccountedFor

\* No row is lost or counted twice, whatever the plan and the rows.
THEOREM RowsAddUp == DagSpec /\ []JoinKeysAreThere => []RowsAreAccountedFor
<1>1. Recorded => RowsAreAccountedFor
  BY RecordedRowsAreAccountedFor
<1> QED BY <1>1, RunsAreOnRecord, PTL

-----------------------------------------------------------------------------
(* Quotients *)

\* The quotient and the rest of natural numbers.
LEMMA QuotientAndRest ==
  ASSUME NEW n \in Nat, NEW d \in Nat, d > 0
  PROVE  /\ n \div d \in Nat /\ n % d \in Nat /\ n % d < d
         /\ n = (n \div d) * d + (n % d)
OBVIOUS

\* How far a quotient of natural numbers, rounded up or not, is from the exact one.
LEMMA RestOfQuotient ==
  ASSUME NEW N \in Nat, NEW D \in Nat, D > 0, NEW q \in Nat, NEW r \in Nat, r < D, N = q * D + r,
         NEW up \in {0, 1}, NEW p \in Int, p = (q + up) * D
  PROVE  N - p = r - up * D
<1>1. CASE up = 0
  <2>1. (q + 0) * D = q * D
    OBVIOUS
  <2> QED BY <1>1, <2>1
<1>2. CASE up = 1
  <2>1. (q + 1) * D = q * D + D
    OBVIOUS
  <2> QED BY <1>2, <2>1
<1> QED BY <1>1, <1>2

\* The magnitude and the sign of a product.
LEMMA SignedProduct ==
  ASSUME NEW q \in Nat, NEW D \in Int
  PROVE  (-q) * D = -(q * D) /\ q * (-D) = -(q * D) /\ (-q) * (-D) = q * D
OBVIOUS

\* A quotient rounded to even is the nearest integer, and a tie is even.
LEMMA RoundedToNearest ==
  ASSUME NEW n \in Int, NEW d \in Int, d # 0, NEW x, x = RoundedQuotient(n, d)
  PROVE  /\ x \in Int
         /\ 2 * Magnitude(n - x * d) <= Magnitude(d)
         /\ 2 * Magnitude(n - x * d) = Magnitude(d) => x % 2 = 0
<1> DEFINE N == Magnitude(n)
           D == Magnitude(d)
           q == N \div D
           r == N % D
           up == IF 2 * r - D > 0 \/ (2 * r - D = 0 /\ q % 2 # 0) THEN 1 ELSE 0
           k == q + up
<1>1. N \in Nat /\ D \in Nat /\ D > 0
  BY MagnitudeFacts
<1>2. q \in Nat /\ r \in Nat /\ r < D /\ N = q * D + r
  <2> HIDE DEF N, D
  <2> QED BY <1>1, QuotientAndRest
<1>3. x = IF (n < 0) # (d < 0) THEN -k ELSE k
  BY DEF RoundedQuotient
<1>4. n = (IF n < 0 THEN -N ELSE N) /\ d = (IF d < 0 THEN -D ELSE D)
  BY DEF Magnitude
<1> HIDE DEF N, D, q, r
<1>5. up \in {0, 1}
  OBVIOUS
<1>6. /\ 2 * r < D => up = 0
      /\ 2 * r > D => up = 1
      /\ 2 * r = D => (q + up) % 2 = 0
  <2>1. CASE 2 * r < D
    BY <1>1, <1>2, <2>1
  <2>2. CASE 2 * r > D
    BY <1>1, <1>2, <2>2
  <2>3. CASE 2 * r = D
    BY <1>1, <1>2, <2>3
  <2> QED BY <1>1, <1>2, <2>1, <2>2, <2>3
<1> HIDE DEF up
<1>7. k \in Nat
  BY <1>2, <1>5
<1> DEFINE p == k * D
<1>8. p \in Nat
  BY <1>1, <1>7
<1>9. N - p = r - up * D
  BY <1>1, <1>2, <1>5, <1>8, RestOfQuotient
<1> HIDE DEF k
<1>10. x * d = IF n < 0 THEN -p ELSE p
  <2>1. (-k) * D = -p /\ k * (-D) = -p /\ (-k) * (-D) = p /\ k * D = p
    BY <1>1, <1>7, SignedProduct
  <2>2. CASE n < 0 /\ d < 0
    <3>1. x = k /\ d = -D
      BY <1>3, <1>4, <2>2
    <3> QED BY <2>1, <2>2, <3>1
  <2>3. CASE n < 0 /\ ~(d < 0)
    <3>1. x = -k /\ d = D
      BY <1>3, <1>4, <2>3
    <3> QED BY <2>1, <2>3, <3>1
  <2>4. CASE ~(n < 0) /\ d < 0
    <3>1. x = -k /\ d = -D
      BY <1>3, <1>4, <2>4
    <3> QED BY <2>1, <2>4, <3>1
  <2>5. CASE ~(n < 0) /\ ~(d < 0)
    <3>1. x = k /\ d = D
      BY <1>3, <1>4, <2>5
    <3> QED BY <2>1, <2>5, <3>1
  <2> QED BY <2>2, <2>3, <2>4, <2>5
<1> HIDE DEF p
<1>11. Magnitude(n - x * d) = Magnitude(N - p)
  <2>1. CASE n < 0
    <3>1. n - x * d = p - N
      BY <1>1, <1>4, <1>8, <1>10, <2>1
    <3> QED BY <1>1, <1>8, <3>1 DEF Magnitude
  <2>2. CASE ~(n < 0)
    <3>1. n - x * d = N - p
      BY <1>1, <1>4, <1>8, <1>10, <2>2
    <3> QED BY <3>1
  <2> QED BY <2>1, <2>2
<1>12. Magnitude(N - p) = IF up = 0 THEN r ELSE D - r
  <2>1. CASE up = 0
    BY <1>1, <1>2, <1>8, <1>9, <2>1 DEF Magnitude
  <2>2. CASE up = 1
    BY <1>1, <1>2, <1>8, <1>9, <2>2 DEF Magnitude
  <2> QED BY <1>5, <2>1, <2>2
<1>13. x \in Int
  BY <1>3, <1>7
<1>14. 2 * Magnitude(n - x * d) <= D
  BY <1>1, <1>2, <1>5, <1>6, <1>11, <1>12
<1>15. ASSUME 2 * Magnitude(n - x * d) = D PROVE x % 2 = 0
  <2>1. 2 * r = D
    BY <1>1, <1>2, <1>5, <1>11, <1>12, <1>15
  <2>2. k % 2 = 0
    BY <1>6, <2>1 DEF k
  <2>3. (-k) % 2 = 0
    BY <1>7, <2>2
  <2> QED BY <1>3, <2>2, <2>3
<1> QED BY <1>13, <1>14, <1>15 DEF D

\* An average is within half a unit of the exact one.
LEMMA AverageIsNear ==
  ASSUME NEW n \in Int, NEW d \in Nat, d > 0, NEW x, x = AverageQuotient(n, d)
  PROVE  x \in Int /\ 2 * Magnitude(n - x * d) <= d
<1> DEFINE q == Truncated(n, d)
           away == IF 2 * Magnitude(n - q * d) < d THEN 0 ELSE IF n < 0 THEN -1 ELSE 1
<1>1. x = q + away
  BY DEF AverageQuotient
<1>2. CASE n < 0
  <2> DEFINE m == -n
             k == m \div d
             r == m % d
  <2>1. m \in Nat
    BY <1>2
  <2>2. k \in Nat /\ r \in Nat /\ r < d /\ m = k * d + r
    <3> HIDE DEF m
    <3> QED BY <2>1, QuotientAndRest
  <2>3. q = -k
    BY <1>2 DEF Truncated
  <2> HIDE DEF k, r, q
  <2>4. q * d = -(k * d)
    BY <2>2, <2>3, SignedProduct
  <2>5. k * d \in Nat
    BY <2>2
  <2>6. n - q * d = -r
    BY <2>2, <2>4, <2>5
  <2>7. Magnitude(n - q * d) = r
    BY <2>2, <2>6 DEF Magnitude
  <2>8. away = IF 2 * r < d THEN 0 ELSE -1
    BY <1>2, <2>7
  <2> HIDE DEF away
  <2>9. CASE 2 * r < d
    <3>1. x = q
      BY <1>1, <2>2, <2>3, <2>8, <2>9
    <3> QED BY <2>2, <2>3, <2>7, <2>9, <3>1
  <2>10. CASE ~(2 * r < d)
    <3>1. x = -(k + 1)
      BY <1>1, <2>2, <2>3, <2>8, <2>10
    <3>2. x * d = -((k + 1) * d) /\ (k + 1) * d = k * d + d
      BY <2>2, <3>1, SignedProduct
    <3>3. n - x * d = d - r
      BY <2>2, <2>5, <3>2
    <3>4. Magnitude(n - x * d) = d - r
      BY <2>2, <3>3 DEF Magnitude
    <3> QED BY <2>2, <2>10, <3>1, <3>4
  <2> QED BY <2>9, <2>10
<1>3. CASE ~(n < 0)
  <2> DEFINE k == n \div d
             r == n % d
  <2>1. n \in Nat
    BY <1>3
  <2>2. k \in Nat /\ r \in Nat /\ r < d /\ n = k * d + r
    BY <2>1, QuotientAndRest
  <2>3. q = k
    BY <1>3 DEF Truncated
  <2> HIDE DEF k, r, q
  <2>5. k * d \in Nat
    BY <2>2
  <2>6. n - q * d = r
    BY <2>2, <2>3, <2>5
  <2>7. Magnitude(n - q * d) = r
    BY <2>2, <2>6 DEF Magnitude
  <2>8. away = IF 2 * r < d THEN 0 ELSE 1
    BY <1>3, <2>7
  <2> HIDE DEF away
  <2>9. CASE 2 * r < d
    <3>1. x = q
      BY <1>1, <2>2, <2>3, <2>8, <2>9
    <3> QED BY <2>2, <2>3, <2>7, <2>9, <3>1
  <2>10. CASE ~(2 * r < d)
    <3>1. x = k + 1
      BY <1>1, <2>2, <2>3, <2>8, <2>10
    <3>2. (k + 1) * d = k * d + d
      BY <2>2
    <3>3. n - x * d = r - d
      BY <2>2, <2>5, <3>1, <3>2
    <3>4. Magnitude(n - x * d) = d - r
      BY <2>2, <3>3 DEF Magnitude
    <3> QED BY <2>2, <2>10, <3>1, <3>4
  <2> QED BY <2>9, <2>10
<1> QED BY <1>2, <1>3

\* A text stands for the number it is written for.
LEMMA TextHasItsValue ==
  ASSUME NEW c \in Int, NEW s \in Nat
  PROVE  /\ DecimalText(c, s) \in Numbers /\ DecimalText(c, s).s <= s
         /\ AlignedCoefficient(DecimalText(c, s), s) = c
<1> DEFINE v == DecimalText(c, s)
<1>1. PICK k \in 0 .. s : v.s = s - k /\ v.c * PowerOfTen(k) = c /\ v \in Numbers
  BY DecimalTextFacts
<1> HIDE DEF v
<1>2. s - v.s = k /\ v.s <= s
  BY <1>1
<1> QED BY <1>1, <1>2 DEF AlignedCoefficient, v

\* The magnitude of a multiple.
LEMMA MagnitudeOfProduct ==
  ASSUME NEW a \in Int, NEW p \in Nat, p > 0
  PROVE  Magnitude(a * p) = Magnitude(a) * p
<1>1. CASE a < 0
  <2>1. a * p < 0 /\ -(a * p) = (-a) * p
    BY <1>1
  <2> QED BY <1>1, <2>1 DEF Magnitude
<1>2. CASE ~(a < 0)
  <2>1. ~(a * p < 0)
    BY <1>2
  <2> QED BY <1>2, <2>1 DEF Magnitude
<1> QED BY <1>1, <1>2

\* v is the multiple of the last place that is nearest to a divided by b.
Nearest(v, a, b) ==
  LET units == AlignedCoefficient(v, Places)
      step == Magnitude(b.c) * PowerOfTen(a.s)
      off == 2 * Magnitude(a.c * PowerOfTen(b.s + Places) - units * b.c * PowerOfTen(a.s))
  IN  off <= step /\ (off = step => units % 2 = 0)

\* A division, written with Places, is the nearest multiple.
LEMMA DividedToNearest ==
  ASSUME NEW a \in Numbers, NEW b \in Numbers, b.c # 0,
         NEW v, v = DecimalText(RoundedQuotient(a.c * PowerOfTen(b.s + Places),
                                                b.c * PowerOfTen(a.s)), Places)
  PROVE  Nearest(v, a, b)
<1> DEFINE p == PowerOfTen(a.s)
           n == a.c * PowerOfTen(b.s + Places)
           d == b.c * p
           q == RoundedQuotient(n, d)
           y == b.c
<1>1. a.c \in Int /\ y \in Int /\ y # 0 /\ a.s \in Nat /\ b.s + Places \in Nat
  BY PlacesAssumption DEF Numbers
<1>2. p \in Nat /\ p > 0 /\ PowerOfTen(b.s + Places) \in Nat
  BY <1>1, PowerOfTenFacts
<1>3. n \in Int
  <2> DEFINE c == a.c  z == PowerOfTen(b.s + Places)
  <2>1. c \in Int /\ z \in Nat
    BY <1>1, <1>2
  <2> HIDE DEF c, z
  <2>2. c * z \in Int
    BY <2>1
  <2> QED BY <2>2 DEF c, z
<1>4. d = y * p
  OBVIOUS
<1>5. v = DecimalText(q, Places)
  OBVIOUS
<1> HIDE DEF p, n, q, d, y
<1>6. d \in Int /\ d # 0 /\ Magnitude(d) = Magnitude(y) * p
  <2>1. y * p \in Int /\ y * p # 0
    BY <1>1, <1>2
  <2> QED BY <1>1, <1>2, <1>4, <2>1, MagnitudeOfProduct
<1>7. /\ q \in Int
      /\ 2 * Magnitude(n - q * d) <= Magnitude(d)
      /\ 2 * Magnitude(n - q * d) = Magnitude(d) => q % 2 = 0
  BY <1>3, <1>6, RoundedToNearest DEF q
<1>8. AlignedCoefficient(v, Places) = q
  BY <1>5, <1>7, PlacesAssumption, TextHasItsValue
<1>9. q * d = q * y * p
  BY <1>1, <1>2, <1>4, <1>7
<1>10. LET off == 2 * Magnitude(n - q * y * p)
           step == Magnitude(y) * p
       IN  off <= step /\ (off = step => q % 2 = 0)
  BY <1>6, <1>7, <1>9
<1> QED BY <1>8, <1>10 DEF Nearest, n, y, p

\* The inputs of a well-formed expression are well formed.
LEMMA OperandIsWellFormed ==
  ASSUME NEW e, WellFormed(e), NEW x \in Operands(e)
  PROVE  WellFormed(x)
<1>1. WellNested(e)
  BY DEF WellFormed, WellNested
<1>2. WellNested(x) /\ Parts(x) \subseteq Parts(e)
  BY <1>1, OperandsNest, PartsOfOperands
<1> QED BY <1>2 DEF WellFormed, WellNested

\* So is the value of a division in an expression.
LEMMA DivisionIsNearest ==
  ASSUME NEW s, NEW t, NEW row, IsShape(s), IsShape(t), SameFields(s, t), Fits(row, s),
         NEW e, WellFormed(e), e.op = "safe_divide", InferExpression(e, s) # Invalid,
         NEW v, v = Evaluate(e, row, t), v # None, v # Throws
  PROVE  Nearest(v, Evaluate(e.inputs[1], row, t), Evaluate(e.inputs[2], row, t))
<1> DEFINE A == [i \in DOMAIN e.inputs |-> InferExpression(e.inputs[i], s)]
           B == [i \in DOMAIN e.inputs |-> InferExpression(e.inputs[i], t)]
           u == [i \in DOMAIN e.inputs |-> Evaluate(e.inputs[i], row, t)]
<1>1. WellNested(e) /\ IsPart(e)
  BY PartsAreWellFormed
<1>2. DOMAIN e.inputs = 1 .. 2
  <2>1. PICK n \in Nat : Takes(e.op, n) /\ DOMAIN e.inputs = 1 .. n
    BY <1>1 DEF IsPart
  <2>2. n = 2
    BY <2>1 DEF Takes, Unary, Variadic
  <2> QED BY <2>1, <2>2
<1>3. InferExpression(e, s) = IF \E i \in DOMAIN A : A[i] = Invalid THEN Invalid
                              ELSE InferOperation(e.op, A)
  BY <1>1, InferenceIsRecursive
<1>4. v = Operate(e.op, u, B)
  BY <1>1, EvaluationIsRecursive
<1>5. /\ DOMAIN A = 1 .. 2 /\ DOMAIN u = 1 .. 2
      /\ \A i \in 1 .. 2 : /\ A[i] = InferExpression(e.inputs[i], s)
                           /\ u[i] = Evaluate(e.inputs[i], row, t)
  BY <1>2
<1> HIDE DEF A, B, u
<1>6. /\ InferOperation("safe_divide", A) # Invalid
      /\ \A i \in 1 .. 2 : A[i] # Invalid
  BY <1>3, <1>5
<1>7. \A i \in 1 .. 2 : A[i].type \in Numeric
  BY <1>5, <1>6 DEF InferOperation, AllOf, Comparisons
<1>8. ASSUME NEW i \in 1 .. 2 PROVE u[i] \in Numbers \union {None, Throws}
  <2> DEFINE x == e.inputs[i]
  <2>1. x \in Operands(e)
    BY <1>2 DEF Operands
  <2> HIDE DEF x
  <2>2. Sound(x, s, t, row)
    BY <2>1, OperandIsWellFormed, ExpressionsAreSound
  <2>3. A[i] = InferExpression(x, s) /\ u[i] = Evaluate(x, row, t) /\ A[i] # Invalid
    BY <1>5, <1>6 DEF x
  <2>4. Allowed(A[i], u[i])
    BY <2>2, <2>3 DEF Sound
  <2>5. ValuesOf(A[i].type) = Numbers
    BY <1>7, TypesOfValues DEF Numeric
  <2> QED BY <2>4, <2>5 DEF Allowed
<1>9. v = Strict("safe_divide", u, MergedType(B))
  BY <1>4 DEF Operate
<1>10. /\ v = Compute("safe_divide", u, MergedType(B))
       /\ u[1] # Throws /\ u[2] # Throws /\ u[1] # None /\ u[2] # None
  BY <1>5, <1>9 DEF Strict
<1>11. u[1] \in Numbers /\ u[2] \in Numbers
  BY <1>8, <1>10
<1>12. v = IF u[2].c = 0 THEN None
           ELSE DecimalText(RoundedQuotient(u[1].c * PowerOfTen(u[2].s + Places),
                                            u[2].c * PowerOfTen(u[1].s)), Places)
  BY <1>10 DEF Compute, Comparisons
<1> DEFINE a == u[1]  b == u[2]
<1>13. a \in Numbers /\ b \in Numbers /\ b.c # 0
       /\ v = DecimalText(RoundedQuotient(a.c * PowerOfTen(b.s + Places), b.c * PowerOfTen(a.s)), Places)
  BY <1>11, <1>12
<1>14. a = Evaluate(e.inputs[1], row, t) /\ b = Evaluate(e.inputs[2], row, t)
  BY <1>5
<1> HIDE DEF a, b
<1>15. Nearest(v, a, b)
  BY <1>13, DividedToNearest
<1> QED BY <1>14, <1>15

-----------------------------------------------------------------------------
(* Averages *)

\* The quotients in the rows of a map are the nearest ones.
LEMMA MappedQuotients ==
  ASSUME NEW s, NEW t, NEW list, Shaped(s, t, list),
         NEW o, WellConfigured(o), o.op = "map", MapShape(o, s) # Invalid,
         NEW M, M = MapRows(o, list, t), M # Throws,
         NEW d \in ToSet(o.fields), NEW i \in DOMAIN M,
         d.expression.op = "safe_divide", M[i][d.name] # None
  PROVE  Nearest(M[i][d.name], Evaluate(d.expression.inputs[1], list[i], t),
                 Evaluate(d.expression.inputs[2], list[i], t))
<1> DEFINE results == [j \in DOMAIN list |-> MapRow(o, list[j], t)]
           row == list[i]
           e == d.expression
           made == [f \in Defined(o) |-> Evaluate(DefinitionOf(o, f).expression, row, t)]
           kept == Defined(o) \union (IF o.mode = "extend" THEN DOMAIN row ELSE {})
<1>1. /\ IsSequence(o.fields) /\ DistinctNames(o.fields)
      /\ WellFormed(e)
  BY DEF WellConfigured
<1>2. InferExpression(e, s) # Invalid
  BY DEF MapShape
<1>3. IsShape(s) /\ IsShape(t) /\ SameFields(s, t) /\ \A j \in DOMAIN list : Fits(list[j], s)
  BY DEF Shaped
<1>4. M = results /\ \A j \in DOMAIN results : results[j] # Throws
  <2>1. M = Attempt(results)
    BY DEF MapRows
  <2> HIDE DEF results
  <2> QED BY <2>1, AttemptFacts
<1>5. i \in DOMAIN list /\ M[i] = MapRow(o, row, t) /\ MapRow(o, row, t) # Throws
  BY <1>4
<1>6. DefinitionOf(o, d.name) = d /\ d.name \in Defined(o)
  <2>1. d.name \in Defined(o)
    BY DEF Defined
  <2>2. DefinitionOf(o, d.name) \in ToSet(o.fields) /\ DefinitionOf(o, d.name).name = d.name
    BY DEF DefinitionOf
  <2>3. PICK j \in DOMAIN o.fields, k \in DOMAIN o.fields :
          d = o.fields[j] /\ DefinitionOf(o, d.name) = o.fields[k]
    BY <1>1, <2>2, SequenceFacts
  <2>4. j = k
    BY <1>1, <2>2, <2>3 DEF DistinctNames
  <2> QED BY <2>1, <2>3, <2>4
<1>7. MapRow(o, row, t) = IF \E f \in Defined(o) : made[f] = Throws THEN Throws
                          ELSE [f \in kept |-> IF f \in Defined(o) THEN made[f] ELSE row[f]]
  BY Zenon DEF MapRow
<1>8. made[d.name] = Evaluate(e, row, t)
  BY <1>6
<1>9. d.name \in kept
  BY <1>6
<1> HIDE DEF made, kept, row, e
<1>10. M[i][d.name] = Evaluate(e, row, t) /\ Evaluate(e, row, t) # Throws
  BY <1>5, <1>6, <1>7, <1>8, <1>9
<1>11. e.op = "safe_divide" /\ Fits(row, s)
  BY <1>3, <1>5 DEF e, row
<1>12. Evaluate(e, row, t) # None
  BY <1>10
<1>13. Nearest(Evaluate(e, row, t), Evaluate(e.inputs[1], row, t), Evaluate(e.inputs[2], row, t))
  BY <1>1, <1>2, <1>3, <1>10, <1>11, <1>12, DivisionIsNearest
<1> QED BY <1>10, <1>13 DEF e, row

-----------------------------------------------------------------------------
\* An average is within half a unit of its last place.
NearAverage(values, average) ==
  LET sum == DecimalSum(values)
      scale == sum.s + average.s
  IN  2 * Magnitude(sum.c * PowerOfTen(average.s) - Len(values) * average.c * PowerOfTen(sum.s))
        * PowerOfTen(sum.s + Places)
      <= Len(values) * PowerOfTen(scale)

\* Both sides of the comparison at one scale.
LEMMA SameScale ==
  ASSUME NEW c \in Int, NEW a \in Int, NEW b \in Int, NEW L \in Nat, NEW z \in Nat, NEW p \in Nat,
         NEW k \in Nat, NEW l \in Nat, NEW w \in Nat, w = p * l, w = z * k, b = a * k
  PROVE  (c * z - L * a * p) * w = (c * l - b * L) * (p * z)
<1>1. (c * z) * w = (c * l) * (p * z)
  <2>1. (c * z) * (p * l) = (c * l) * (p * z)
    OBVIOUS
  <2> QED BY <2>1
<1>2. (L * a * p) * w = (b * L) * (p * z)
  <2>1. (L * a * p) * (z * k) = ((a * k) * L) * (p * z)
    OBVIOUS
  <2> QED BY <2>1
<1> DEFINE x == c * z  y == L * a * p  u == c * l  v == b * L  q == p * z
<1>3. x \in Int /\ y \in Int /\ u \in Int /\ v \in Int /\ q \in Int
  OBVIOUS
<1>4. x * w = u * q /\ y * w = v * q
  BY <1>1, <1>2
<1> HIDE DEF x, y, u, v, q
<1>5. (x - y) * w = x * w - y * w /\ (u - v) * q = u * q - v * q
  BY <1>3
<1>6. (x - y) * w = (u - v) * q
  BY <1>4, <1>5
<1> QED BY <1>6 DEF x, y, u, v, q

\* A bound carries over to another scale.
LEMMA ScaledBound ==
  ASSUME NEW x \in Int, NEW w \in Nat, w > 0, NEW e \in Int, NEW q \in Nat, q > 0,
         x * w = e * q, NEW L \in Nat, 2 * Magnitude(e) <= L
  PROVE  2 * Magnitude(x) * w <= L * q
<1>1. Magnitude(x) * w = Magnitude(e) * q
  BY MagnitudeOfProduct
<1>2. Magnitude(x) \in Nat /\ Magnitude(e) \in Nat
  BY MagnitudeFacts
<1> DEFINE m == Magnitude(x)  n == Magnitude(e)
<1>3. m * w = n * q /\ m \in Nat /\ n \in Nat /\ 2 * n <= L
  BY <1>1, <1>2
<1> HIDE DEF m, n
<1>4. (2 * n) * q <= L * q
  BY <1>3
<1>5. 2 * m * w = (2 * n) * q
  <2>1. 2 * m * w = 2 * (m * w) /\ (2 * n) * q = 2 * (n * q)
    BY <1>3
  <2> QED BY <1>3, <2>1
<1> QED BY <1>4, <1>5 DEF m

\* A power of ten is positive.
LEMMA PositivePower ==
  ASSUME NEW n \in Nat
  PROVE  PowerOfTen(n) \in Nat /\ PowerOfTen(n) > 0
BY PowerOfTenFacts

\* A sum divided by the number of values is near their average.
LEMMA DividedNearAverage ==
  ASSUME NEW values \in Seq(Numbers), values # <<>>,
         NEW average, average = DivideDecimal(DecimalSum(values), Len(values))
  PROVE  NearAverage(values, average)
<1> DEFINE sum == DecimalSum(values)
           L == Len(values)
           l == PowerOfTen(Places)
           S == sum.s + Places
           A == AverageQuotient(sum.c * l, L)
<1>1. sum.c \in Int /\ sum.s \in Nat
  BY SumIsNumber DEF Numbers
<1>2. L \in Nat /\ L > 0
  OBVIOUS
<1>3. l \in Nat /\ l > 0 /\ S \in Nat /\ Places \in Nat
  <2>1. Places \in Nat
    BY PlacesAssumption
  <2>2. l \in Nat /\ l > 0
    BY <2>1, PositivePower
  <2>3. S \in Nat
    BY <1>1, <2>1
  <2> QED BY <2>1, <2>2, <2>3
<1>4. sum.c * l \in Int
  <2> DEFINE c == sum.c
  <2>1. c \in Int
    BY <1>1
  <2> HIDE DEF c, l
  <2>2. c * l \in Int
    BY <1>3, <2>1
  <2> QED BY <2>2 DEF c
<1>5. A \in Int /\ 2 * Magnitude(sum.c * l - A * L) <= L
  <2> DEFINE n == sum.c * l
  <2>1. n \in Int
    BY <1>4
  <2> HIDE DEF n, L
  <2> QED BY <1>2, <2>1, AverageIsNear DEF n
<1>6. average = DecimalText(A, S)
  BY DEF DivideDecimal
<1> HIDE DEF A, S, L, l
<1>7. PICK k \in 0 .. S : /\ average.s = S - k
                          /\ average.c * PowerOfTen(k) = A
                          /\ average \in Numbers
  BY <1>3, <1>5, <1>6, DecimalTextFacts
<1>8. average.c \in Int /\ average.s \in Nat /\ k \in Nat /\ S = average.s + k
  BY <1>3, <1>7 DEF Numbers
<1> DEFINE c == sum.c  a == average.c  z == PowerOfTen(average.s)  p == PowerOfTen(sum.s)
           w == PowerOfTen(S)  pk == PowerOfTen(k)  q == PowerOfTen(sum.s + average.s)
<1>9. /\ z \in Nat /\ p \in Nat /\ w \in Nat /\ w > 0 /\ pk \in Nat /\ q \in Nat /\ q > 0
      /\ z > 0 /\ p > 0
  <2>1. sum.s + average.s \in Nat
    BY <1>1, <1>8
  <2>2. z \in Nat /\ z > 0
    BY <1>8, PositivePower
  <2>3. p \in Nat /\ p > 0
    BY <1>1, PositivePower
  <2>4. w \in Nat /\ w > 0
    BY <1>3, PositivePower
  <2>5. pk \in Nat
    BY <1>8, PositivePower
  <2>6. q \in Nat /\ q > 0
    BY <2>1, PositivePower
  <2> QED BY <2>2, <2>3, <2>4, <2>5, <2>6
<1>10. w = p * l
  BY <1>1, <1>3, PowerOfTenAdds DEF S, l
<1>11. w = z * pk /\ q = p * z
  BY <1>1, <1>8, PowerOfTenAdds
<1>12. A = a * pk
  BY <1>7
<1>13. c \in Int /\ a \in Int
  BY <1>1, <1>8
<1>14. 2 * Magnitude(c * l - A * L) <= L
  BY <1>5
<1>15. sum.s + Places = S
  BY DEF S
<1> HIDE DEF c, a, z, p, w, pk, q
<1>16. (c * z - L * a * p) * w = (c * l - A * L) * q
  BY <1>2, <1>3, <1>5, <1>9, <1>10, <1>11, <1>12, <1>13, SameScale
<1> DEFINE x == c * z - L * a * p
           e == c * l - A * L
<1>17. x \in Int /\ e \in Int
  BY <1>2, <1>3, <1>5, <1>9, <1>13
<1>18. x * w = e * q /\ 2 * Magnitude(e) <= L
  BY <1>14, <1>16
<1> HIDE DEF x, e
<1>19. 2 * Magnitude(x) * w <= L * q
  BY <1>2, <1>9, <1>17, <1>18, ScaledBound
<1> QED BY <1>15, <1>19 DEF NearAverage, x, w, q, c, a, z, p, L, S

-----------------------------------------------------------------------------
(* Rounding *)

\* The average in a row of an aggregate is near that of the values of its group.
LEMMA AveragesAreNear ==
  ASSUME NEW s, NEW t, NEW list, Shaped(s, t, list), NEW o, WellConfigured(o), o.op = "aggregate",
         AggregateShape(o, s) # Invalid,
         NEW M, M = AggregateRows(o, list, t), M # Throws,
         NEW m \in ToSet(o.measures), m.op = "average",
         NEW n \in DOMAIN M, M[n][m.name] # None
  PROVE  NearAverage(Given(Group(o, list, GroupKey(o, M[n])), m.field), M[n][m.name])
<1> DEFINE keys == GroupKeys(o, list)
           key == keys[n]
           group == Group(o, list, key)
           values == Given(group, m.field)
           average == DivideDecimal(DecimalSum(values), Len(values))
<1>1. RowsOfGroups(M, keys, o, list, t)
  BY GroupedRows
<1>2. /\ GroupKey(o, M[n]) = key
      /\ \E i \in DOMAIN list : key = GroupKey(o, list[i])
      /\ M[n][m.name] = Measured(m, group, t)
  <2> HIDE DEF keys
  <2> QED BY <1>1 DEF RowsOfGroups
<1>3. Shaped(s, t, group)
  BY <1>2, GroupFacts
<1>4. m.field \in DOMAIN s /\ s[m.field].type \in Numeric
  <2>1. ValidMeasure(m, s)
    BY AggregateShapeFacts
  <2> QED BY <2>1 DEF ValidMeasure
<1>5. ValuesOf(s[m.field].type) = Numbers
  BY <1>4, TypesOfValues DEF Numeric
<1> HIDE DEF key, group
<1>6. values \in Seq(Numbers)
  BY <1>3, <1>4, <1>5, GivenFacts
<1>7. Measured(m, group, t) = IF values = <<>> THEN None ELSE average
  BY Zenon DEF Measured
<1> HIDE DEF values, average
<1>8. values # <<>> /\ M[n][m.name] = average
  BY <1>2, <1>7
<1>9. NearAverage(values, average)
  BY <1>6, <1>8, DividedNearAverage DEF average
<1> QED BY <1>2, <1>8, <1>9 DEF values, group

\* The rows are what a map made: its quotients are the nearest ones.
QuotientsOfMap ==
  \A d \in ToSet(last.fields), i \in DOMAIN rows :
    d.expression.op = "safe_divide" /\ rows[i][d.name] # None =>
      Nearest(rows[i][d.name], Evaluate(d.expression.inputs[1], before.left[i], before.shape),
              Evaluate(d.expression.inputs[2], before.left[i], before.shape))

\* The rows are what an aggregate made: its averages are near the exact ones.
AveragesOfAggregate ==
  \A m \in ToSet(last.measures), n \in DOMAIN rows :
    m.op = "average" /\ rows[n][m.name] # None =>
      NearAverage(Given(Group(last, before.left, GroupKey(last, rows[n])), m.field),
                  rows[n][m.name])

\* The result of every node has the property.
LEMMA RecordedRoundingIsNearest ==
  ASSUME Recorded
  PROVE  RoundingIsNearest
<1>1. ASSUME NEW op, Ran(op) PROVE WellConfigured(last) /\ last.op = op /\ DoneBy(last, before, rows)
  BY <1>1 DEF Ran, Recorded, DoneBy
<1>2. Ran("map") => QuotientsOfMap
  <2> SUFFICES ASSUME Ran("map") PROVE QuotientsOfMap
    OBVIOUS
  <2>1. WellConfigured(last) /\ last.op = "map" /\ MapRan(last, before, rows)
    BY <1>1 DEF DoneBy
  <2>2. PICK s : /\ Shaped(s, before.shape, before.left) /\ MapShape(last, s) # Invalid
                 /\ rows = MapRows(last, before.left, before.shape) /\ rows # Throws
    BY <2>1 DEF MapRan
  <2> QED BY <2>1, <2>2, MappedQuotients DEF QuotientsOfMap
<1>3. Ran("aggregate") => AveragesOfAggregate
  <2> SUFFICES ASSUME Ran("aggregate") PROVE AveragesOfAggregate
    OBVIOUS
  <2>1. WellConfigured(last) /\ last.op = "aggregate" /\ AggregateRan(last, before, rows)
    BY <1>1 DEF DoneBy
  <2>2. PICK s : /\ Shaped(s, before.shape, before.left) /\ AggregateShape(last, s) # Invalid
                 /\ rows = AggregateRows(last, before.left, before.shape) /\ rows # Throws
    BY <2>1 DEF AggregateRan
  <2> QED BY <2>1, <2>2, AveragesAreNear DEF AveragesOfAggregate
<1> QED BY <1>2, <1>3, Zenon DEF RoundingIsNearest, QuotientsOfMap, AveragesOfAggregate, Nearest,
                                 NearAverage

\* A division is rounded to the nearest multiple of the last place and an average
\* to within half a unit of it, whatever the plan, the rows and the places.
THEOREM RoundingStaysNearest == DagSpec /\ []JoinKeysAreThere => []RoundingIsNearest
<1>1. Recorded => RoundingIsNearest
  BY RecordedRoundingIsNearest
<1> QED BY <1>1, RunsAreOnRecord, PTL

\* All of it at once, of every plan whose names are apart, whatever its nodes,
\* its sources and the number of its steps.
THEOREM PlansAreRight ==
  NamesApart => (DagSpec => [](RowsFitTheirShape /\ RowsAreAccountedFor /\ SortKeepsTheTop
                                 /\ RoundingIsNearest /\ FilterFormsAgree))
<1>1. NamesApart => (DagSpec => []JoinKeysAreThere)
  BY KeysStayThere
<1> QED BY <1>1, RowsFit, RowsAddUp, TopIsKept, RoundingStaysNearest, FormsAgree, PTL
=============================================================================
