------------------------- MODULE ExpressionPushdown -------------------------
(***************************************************************************)
(* Comparisons that are not of a column with a constant, put to MongoDB as *)
(* $expr.  Source: mongo_expr_pushdown.cpp.                                *)
(*                                                                         *)
(* An expression compares two operands: a column, a column cast to         *)
(* VARCHAR, length of a column, substring of a column from a start on for  *)
(* a number of letters, a constant, or any other function.  Operands name   *)
(* a column by its position among the columns DuckDB reads (ids).          *)
(***************************************************************************)
EXTENDS FilterPushdown, Sequences

FunctionKinds == {"length", "substring", "other"}
IsColumn(operand) == operand.kind \in {"column", "cast"}

(* MongoDB's answer to an expression it refuses.                            *)
Error == <<"error", 0>>

(* DuckDB: substring and functions it knows nothing about can throw.         *)
CanThrow(e) == \E operand \in {e.left, e.right} : operand.kind \in {"substring", "other"}

IsSafeMongoFunction(operand) ==
    operand.kind = "substring" /\ operand.start >= 1 /\ operand.length >= 0

(* Only the left operand is looked at when it is a function.                 *)
IsSafeMongoExpr(e) ==
    IF e.left.kind \in FunctionKinds THEN IsSafeMongoFunction(e.left) ELSE IsSafeMongoFunction(e.right)

(* Mutant: every start is taken for safe.                                   *)
ConvertsAnyStart(e) ==
    /\ e.left.kind # "constant"
    /\ \A operand \in {e.left, e.right} : operand.kind # "other"
    /\ ~(IsColumn(e.left) /\ e.right.kind = "constant")
    /\ ~e.foreign

(* ConvertExpressionToMongoExpr gives an expression and does not refuse.     *)
Converts(e) ==
    /\ CanThrow(e) => IsSafeMongoExpr(e)
    /\ ~(IsColumn(e.left) /\ e.right.kind = "constant")
    /\ ~e.foreign
    /\ e.left.kind # "constant"
    /\ \A operand \in {e.left, e.right} : operand.kind # "other"

(* The name under which MongoDB is asked for a position: the schema's        *)
(* column at that position, whatever column DuckDB reads there.             *)
GetMongoPathForColumn(table, index) == table.path[table.schema[index]]

-----------------------------------------------------------------------------
(* Values.  A word of n letters has length n, and a part of it is a word.   *)

Length(value) == CASE value[1] = "hex" -> 24 [] value[1] = "digits" -> 1 [] OTHER -> value[2]
Least(m, n) == IF m < n THEN m ELSE n
AtLeastZero(n) == IF n < 0 THEN 0 ELSE n

(* MongoDB: $strLenCP insists on a string, $substrCP takes a missing field  *)
(* for "" and insists on a start that is not negative.                     *)
ServerLength(field) == IF field[1] \in StringClasses THEN <<"number", Length(field)>> ELSE Error
ServerSubstring(field, from, length) ==
    IF from < 0 \/ length < 0 THEN Error
    ELSE CASE field[1] \in {"missing", "null"} -> <<"string", 0>>
           [] field[1] = "string" -> <<"string", AtLeastZero(Least(length, field[2] - from))>>
           [] OTHER -> Error

(* The operand ConvertFunctionToMongoExpr and its caller write, as MongoDB   *)
(* evaluates it: SQL counts letters from 1, MongoDB from 0; casts are gone. *)
ConvertOperand(table, document, operand) ==
    LET field == document[GetMongoPathForColumn(table, operand.index)]
    IN  CASE IsColumn(operand) -> field
          [] operand.kind = "length" -> ServerLength(field)
          [] operand.kind = "substring" -> ServerSubstring(field, operand.start - 1, operand.length)
          [] OTHER -> operand.value

Errs(table, document, e) ==
    Error \in {ConvertOperand(table, document, e.left), ConvertOperand(table, document, e.right)}
Holds(table, document, e) ==
    Compare(e.op, ConvertOperand(table, document, e.left), ConvertOperand(table, document, e.right))

-----------------------------------------------------------------------------
(* SQL: the value of an operand and when an expression is TRUE.              *)

SqlSubstring(value, start, length) ==
    LET first == IF start < 1 THEN 1 ELSE start
        past == Least(start + length, value[2] + 1)
    IN  <<"string", AtLeastZero(past - first)>>

OperandValue(table, ids, document, operand) ==
    LET value == Value(table, document, ids[operand.index])
    IN  IF operand.kind = "constant" THEN operand.value
        ELSE IF operand.kind = "column" \/ value = Null THEN value
        ELSE CASE operand.kind = "cast" -> Converted("VARCHAR", value)
               [] operand.kind = "length" -> <<"number", Length(value)>>
               [] operand.kind = "substring" -> SqlSubstring(value, operand.start, operand.length)
               [] OTHER -> value

ExpressionIsTrue(table, ids, document, e) ==
    LET left == OperandValue(table, ids, document, e.left)
        right == OperandValue(table, ids, document, e.right)
    IN  left # Null /\ right # Null /\ Compare(e.op, left, right)

(* Where $expr says the same: the columns are read in the schema's order, no *)
(* cast was dropped, MongoDB can evaluate what it is given, and no field is *)
(* missing, null or of another type: $expr puts null below every value.      *)
OperandAgrees(table, ids, document, operand) ==
    \/ operand.kind = "constant"
    \/ LET column == ids[operand.index]
           field == document[table.path[column]]
       IN  /\ operand.kind # "cast"
           /\ operand.index <= Len(table.schema) /\ table.schema[operand.index] = column
           /\ field \notin {Missing, Null}
           /\ \/ table.type[column] = "BIGINT" /\ field[1] = "number"
              \/ table.type[column] = "VARCHAR" /\ field[1] = "string"

ExpressionAgrees(table, ids, document, e) ==
    /\ OperandAgrees(table, ids, document, e.left)
    /\ OperandAgrees(table, ids, document, e.right)

=============================================================================
