---------------------------- MODULE MongoValues ----------------------------
(***************************************************************************)
(* Values as the translation of filters and the reading of documents tell  *)
(* them apart: a class and a number within the class.  A field of a        *)
(* document and a value of a column are both such pairs.                   *)
(*                                                                         *)
(*   "number"  an int32 or int64; as a filter meets it, also a double      *)
(*   "double"  a double with a fraction: <<"double", n>> is n and a half   *)
(*   "decimal" a decimal128: <<"decimal", n>> is n and a half              *)
(*   "digits"  a string that spells a number                               *)
(*   "hex"     a string of 24 hexadecimal digits                           *)
(*   "string"  any other string: <<"string", n>> is a word of n letters    *)
(*   "oid"     an ObjectId, which <<"hex", n>> spells                       *)
(*   "date"    in a document, a date in milliseconds, of which a day has   *)
(*             DayMs; in a column, an instant in units, of which a         *)
(*             millisecond has two and a day DayUnits                      *)
(*   "bool"    <<"bool", 0>> is false, <<"bool", 1>> true                  *)
(*   "text"    in a column, the text of any other field                    *)
(* A document holds its fields, an array its elements: see Documents.      *)
(*                                                                         *)
(* Sources: IsBSONTypeCompatible, and the conversions of single fields in  *)
(* FlattenDocument.                                                        *)
(***************************************************************************)
EXTENDS Integers

Missing == <<"missing", 0>>
Null == <<"null", 0>>

StringClasses == {"digits", "hex", "string"}
Types == {"BIGINT", "HUGEINT", "INTEGER", "VARCHAR", "DATE", "TIMESTAMP"}

(* A second is made of two milliseconds, a day of two seconds.              *)
SecondMs == 2
DayMs == 4
DayUnits == 8

(* The classes a column's type accepts.  INTEGER, which a user may declare, *)
(* and BLOB have no case of their own and fall under the default.          *)
IsBSONTypeCompatible(class, type) ==
    \/ type = "VARCHAR"
    \/ type \in {"BIGINT", "HUGEINT", "DOUBLE"} /\ class \in {"number", "double"}
    \/ type \in {"HUGEINT", "DOUBLE"} /\ class = "decimal"
    \/ type = "BOOLEAN" /\ class = "bool"
    \/ type \in {"DATE", "TIMESTAMP"} /\ class = "date"

(* The column value FlattenDocument makes of a field its type accepts; the  *)
(* default case, for other types, is NULL.                                 *)
Converted(type, field) ==
    CASE type = "VARCHAR" ->
           (CASE field[1] \in StringClasses -> field
              [] field[1] = "oid" -> <<"hex", field[2]>>
              [] field[1] \in {"number", "date"} -> <<"digits", field[2]>>
              [] OTHER -> <<"text", field>>)
      [] type = "TIMESTAMP" -> <<"date", 2 * field[2]>>
      [] type = "DATE" -> <<"date", DayUnits * ((2 * field[2]) \div DayUnits)>>
      [] type \in {"BIGINT", "HUGEINT"} -> <<"number", field[2]>>
      [] type = "DOUBLE" -> (IF field[1] = "decimal" THEN <<"double", field[2]>> ELSE field)
      [] type = "BOOLEAN" -> field
      [] OTHER -> Null

(* A field as a column shows it in permissive mode.                        *)
Read(type, field) ==
    IF field[1] \in {"missing", "null"} \/ ~IsBSONTypeCompatible(field[1], type)
    THEN Null
    ELSE Converted(type, field)

(* MongoDB's order of classes in aggregation expressions; among strings it  *)
(* is also the order of DuckDB.                                            *)
Rank(class) ==
    CASE class = "missing" -> 0
      [] class = "undefined" -> 1
      [] class = "null" -> 2
      [] class = "number" -> 3
      [] class = "digits" -> 4
      [] class = "hex" -> 5
      [] class = "string" -> 6
      [] class = "document" -> 7
      [] class = "oid" -> 8
      [] class = "date" -> 9

Less(x, y) == Rank(x[1]) < Rank(y[1]) \/ (x[1] = y[1] /\ x[2] < y[2])
Compare(op, x, y) ==
    CASE op = "eq" -> x = y
      [] op = "ne" -> x # y
      [] op = "lt" -> Less(x, y)
      [] op = "lte" -> Less(x, y) \/ x = y
      [] op = "gt" -> Less(y, x)
      [] op = "gte" -> Less(y, x) \/ x = y

=============================================================================
