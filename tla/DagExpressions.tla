--------------------------- MODULE DagExpressions ---------------------------
(***************************************************************************)
(* The expression language of Map and Filter: the type an expression is    *)
(* inferred to have, and what it evaluates to on a row.                    *)
(*                                                                         *)
(* A number is the text the code computes with: a coefficient and a scale, *)
(* so that "1.0" and "1" are two values that compare equal.  A text is its *)
(* rank in the order of texts, Booleans are Booleans.  The operators on    *)
(* texts and instants, json and the units of fields are left out.          *)
(*                                                                         *)
(* A definition marked "Slip" is no part of the model: it is the one after *)
(* it with a plausible mistake, for testing the properties.                *)
(***************************************************************************)
EXTENDS Decimals, Sequences

CONSTANTS
  None,    \* null
  Throws,  \* the evaluation throws
  Invalid, \* the compiler rejects
  Places   \* decimal places of a quotient

Numeric == {"integer", "decimal"}
Types == Numeric \union {"boolean", "string"}

\* Numbers of both types are written alike.
Numbers == [c : Int, s : Nat]
ValuesOf(type) ==
  CASE type \in Numeric -> Numbers [] type = "boolean" -> BOOLEAN [] type = "string" -> Int

Field(type, nullable) == [type |-> type, nullable |-> nullable]

ASSUME MarkersAreNoValues ==
  /\ None # Throws /\ None # Invalid /\ Throws # Invalid
  /\ \A marker \in {None, Throws, Invalid} :
       marker \notin Numbers /\ marker \notin BOOLEAN /\ marker \notin Int
  /\ Invalid \notin Types /\ Invalid \notin [type : Types, nullable : BOOLEAN]

ASSUME PlacesAssumption == Places \in Nat

-----------------------------------------------------------------------------
(* Exact decimals *)

\* Zeros at the end of a fraction are not written.
DecimalText(c, s) ==
  LET zeros == CHOOSE k \in 0 .. s : /\ c % PowerOfTen(k) = 0
                                     /\ \A j \in k + 1 .. s : c % PowerOfTen(j) # 0
  IN  [c |-> c \div PowerOfTen(zeros), s |-> s - zeros]

Integer(n) == [c |-> n, s |-> 0]

Wider(a, b) == IF a.s >= b.s THEN a.s ELSE b.s

AlignedCoefficient(v, scale) == v.c * PowerOfTen(scale - v.s)

IntegerFromDecimal(v, mode) ==
  LET factor == PowerOfTen(v.s)
      quotient == Truncated(v.c, factor)
  IN  CASE mode = "exact" -> IF quotient * factor = v.c THEN Integer(quotient) ELSE Throws
        [] mode = "floor" -> Integer(FloorQuotient(v.c, factor))
        [] mode = "ceil" -> Integer(CeilQuotient(v.c, factor))
        [] mode = "round" -> Integer(RoundedQuotient(v.c, factor))

Order(a, b) == IF a < b THEN -1 ELSE IF b < a THEN 1 ELSE 0

\* BigInt refuses a text with a fraction, even ".0".
CompareSemanticValues(type, a, b) ==
  CASE type = "integer" -> IF a.s = 0 /\ b.s = 0 THEN Order(a.c, b.c) ELSE Throws
    [] type = "decimal" ->
         Order(AlignedCoefficient(a, Wider(a, b)), AlignedCoefficient(b, Wider(a, b)))
    [] type = "boolean" -> IF a = b THEN 0 ELSE IF b THEN -1 ELSE 1
    [] type = "string" -> Order(a, b)

-----------------------------------------------------------------------------
(* Expressions, which are nested *)

MaxDepth == 8

Operands(e) == IF e.op \in {"field", "literal"} THEN {} ELSE {e.inputs[i] : i \in DOMAIN e.inputs}

\* What is that many steps inside an expression.
Levels(e, depth) ==
  LET Level[n \in 0 .. depth] ==
        IF n = 0 THEN {e} ELSE UNION {Operands(x) : x \in Level[n - 1]}
  IN  Level

\* At this depth there are only fields and literals.
NestsWithin(e, depth) == \A x \in Levels(e, depth)[depth] : Operands(x) = {}

\* The expressions an expression is made of, itself among them.
Parts(e) == UNION {Levels(e, MaxDepth)[n] : n \in 0 .. MaxDepth}

Comparisons == {"eq", "ne", "lt", "lte", "gt", "gte"}
Unary == {"not", "to_integer", "to_decimal", "abs", "round", "floor", "ceil"}
Binary == Comparisons \union {"add", "subtract", "multiply", "safe_divide"}
Variadic == {"and", "or", "coalesce"}

\* What the compiler asks of an expression whatever the fields are.
WellFormed(e) ==
  /\ NestsWithin(e, MaxDepth)
  /\ \A x \in Parts(e) :
       \/ x.op = "field"
       \/ x.op = "literal" /\ x.valueType \in Types
                           /\ x.value \in ValuesOf(x.valueType) \union {None}
       \/ x.op \in Unary /\ DOMAIN x.inputs = 1 .. 1
       \/ x.op \in Binary /\ DOMAIN x.inputs = 1 .. 2
       \/ x.op \in Variadic /\ \E n \in 2 .. 8 : DOMAIN x.inputs = 1 .. n
       \/ x.op = "if" /\ DOMAIN x.inputs = 1 .. 3

-----------------------------------------------------------------------------
(* Inference *)

Compatible(s, t) == s = t \/ {s, t} \subseteq Numeric

AllOf(inputs, types) == \A i \in DOMAIN inputs : inputs[i].type \in types

Nullable(inputs) == \E i \in DOMAIN inputs : inputs[i].nullable

Widest(inputs) ==
  IF \E i \in DOMAIN inputs : inputs[i].type = "decimal" THEN "decimal" ELSE "integer"

MergedType(inputs) ==
  IF \E i \in DOMAIN inputs : ~Compatible(inputs[1].type, inputs[i].type) THEN Invalid
  ELSE IF AllOf(inputs, Numeric) THEN Widest(inputs)
  ELSE inputs[1].type

InferOperation(op, inputs) ==
  CASE op \in {"not", "and", "or"} /\ AllOf(inputs, {"boolean"}) ->
         Field("boolean", Nullable(inputs))
    [] op \in Comparisons /\ Compatible(inputs[1].type, inputs[2].type) ->
         Field("boolean", Nullable(inputs))
    [] op \in {"add", "subtract", "multiply"} /\ AllOf(inputs, Numeric) ->
         Field(Widest(inputs), Nullable(inputs))
    [] op = "safe_divide" /\ AllOf(inputs, Numeric) -> Field("decimal", TRUE)
    [] op \in {"to_integer", "round", "floor", "ceil"} /\ AllOf(inputs, Numeric) ->
         Field("integer", inputs[1].nullable)
    [] op = "to_decimal" /\ AllOf(inputs, Numeric) -> Field("decimal", inputs[1].nullable)
    [] op = "abs" /\ AllOf(inputs, Numeric) -> inputs[1]
    [] op = "coalesce" /\ MergedType(inputs) # Invalid ->
         Field(MergedType(inputs), \A i \in DOMAIN inputs : inputs[i].nullable)
    [] op = "if" /\ inputs[1].type = "boolean" /\ MergedType(<<inputs[2], inputs[3]>>) # Invalid ->
         Field(MergedType(<<inputs[2], inputs[3]>>), Nullable(inputs))
    [] OTHER -> Invalid

\* A shape gives fields their type and whether they may be null.
InferExpression(e, shape) ==
  LET Inferred[x \in Parts(e)] ==
        CASE x.op = "field" -> IF x.field \in DOMAIN shape THEN shape[x.field] ELSE Invalid
          [] x.op = "literal" -> Field(x.valueType, x.value = None)
          [] OTHER ->
               LET inputs == [i \in DOMAIN x.inputs |-> Inferred[x.inputs[i]]]
               IN  IF \E i \in DOMAIN inputs : inputs[i] = Invalid THEN Invalid
                   ELSE InferOperation(x.op, inputs)
  IN  Inferred[e]

-----------------------------------------------------------------------------
(* Evaluation *)

Holds(op, comparison) ==
  CASE op = "eq" -> comparison = 0
    [] op = "ne" -> comparison # 0
    [] op = "lt" -> comparison < 0
    [] op = "lte" -> comparison <= 0
    [] op = "gt" -> comparison > 0
    [] op = "gte" -> comparison >= 0

\* What a strict operator computes of values none of which is null; type is
\* the one comparisons use.
Compute(op, v, type) ==
  CASE op = "not" -> ~v[1]
    [] op \in Comparisons ->
         LET comparison == CompareSemanticValues(type, v[1], v[2])
         IN  IF comparison = Throws THEN Throws ELSE Holds(op, comparison)
    [] op = "to_integer" -> IntegerFromDecimal(v[1], "exact")
    [] op \in {"round", "floor", "ceil"} -> IntegerFromDecimal(v[1], op)
    [] op = "to_decimal" -> DecimalText(v[1].c, v[1].s)
    [] op = "abs" -> DecimalText(Magnitude(v[1].c), v[1].s)
    [] op \in {"add", "subtract"} ->
         LET scale == Wider(v[1], v[2])
             right == AlignedCoefficient(v[2], scale)
         IN  DecimalText(AlignedCoefficient(v[1], scale)
                           + (IF op = "add" THEN right ELSE -right), scale)
    [] op = "multiply" -> DecimalText(v[1].c * v[2].c, v[1].s + v[2].s)
    [] op = "safe_divide" ->
         IF v[2].c = 0 THEN None
         ELSE DecimalText(RoundedQuotient(v[1].c * PowerOfTen(v[2].s + Places),
                                          v[2].c * PowerOfTen(v[1].s)), Places)

FirstOf(indices) == CHOOSE i \in indices : \A j \in indices : i <= j

\* Slip: null decides like any other value.
LogicalStrict(op, v) ==
  LET deciding == {i \in DOMAIN v : v[i] = Throws \/ v[i] = None \/ v[i] = (op = "or")}
  IN  IF deciding # {} THEN v[FirstOf(deciding)] ELSE op = "and"

\* The first input that settles the result ends the evaluation.
Logical(op, v) ==
  LET deciding == {i \in DOMAIN v : v[i] = Throws \/ v[i] = (op = "or")}
  IN  IF deciding # {} THEN v[FirstOf(deciding)]
      ELSE IF \E i \in DOMAIN v : v[i] = None THEN None
      ELSE op = "and"

Strict(op, v, type) ==
  IF \E i \in DOMAIN v : v[i] = Throws THEN Throws
  ELSE IF \E i \in DOMAIN v : v[i] = None THEN None
  ELSE Compute(op, v, type)

\* An integer that stands for a decimal is written as one.
Coalesce(v, types, outputType) ==
  LET given == {i \in DOMAIN v : v[i] # None}
      i == FirstOf(given)
  IN  IF given = {} THEN None
      ELSE IF v[i] # Throws /\ outputType = "decimal" /\ types[i].type = "integer"
      THEN DecimalText(v[i].c, v[i].s)
      ELSE v[i]

\* What an operator makes of the values and the types of its inputs.
Operate(op, v, types) ==
  CASE op = "if" -> IF v[1] = None \/ v[1] = Throws THEN v[1] ELSE IF v[1] THEN v[2] ELSE v[3]
    [] op \in {"and", "or"} -> Logical(op, v)
    [] op = "coalesce" -> Coalesce(v, types, MergedType(types))
    [] OTHER -> Strict(op, v, MergedType(types))

Evaluate(e, row, shape) ==
  LET Evaluated[x \in Parts(e)] ==
        CASE x.op = "field" -> IF x.field \in DOMAIN row THEN row[x.field] ELSE Throws
          [] x.op = "literal" -> x.value
          [] OTHER -> Operate(x.op,
                              [i \in DOMAIN x.inputs |-> Evaluated[x.inputs[i]]],
                              [i \in DOMAIN x.inputs |-> InferExpression(x.inputs[i], shape)])
  IN  Evaluated[e]
=============================================================================
