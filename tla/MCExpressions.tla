--------------------------- MODULE MCExpressions ---------------------------
(* Writing expressions and conditions down. *)

F(name) == [op |-> "field", field |-> name]
L(type, v) == [op |-> "literal", valueType |-> type, value |-> v]
Op(op, inputs) == [op |-> op, inputs |-> inputs]
Condition(field, operator, values) ==
  [field |-> field, operator |-> operator, values |-> values]
=============================================================================
