------------------------------- MODULE Records -------------------------------
(***************************************************************************)
(* The record layer as operators: the columns of a record, items in which  *)
(* records are stored, expressions over a record, predicates and updates.  *)
(*                                                                         *)
(* A column is [table, name, type]; a record is the sequence of its values *)
(* over a sequence of columns.  A value is what column_value_t holds, a    *)
(* sequence of numbers: one of them, 0 or 1 for a truth value, or the      *)
(* letters of a string.  An item is a sequence of cells: one for a number, *)
(* for a string one for its size and one for each letter.  Floats are left *)
(* out.                                                                    *)
(***************************************************************************)
EXTENDS Integers, Sequences, FiniteSets

CONSTANTS
    Expressions,   \* closed under subexpressions
    Depth(_),      \* how many operators an expression is made of
    Half           \* INT32 is -Half .. Half - 1, UINT64 is 0 .. 2 * Half - 1

ColumnTypes == {"STRING", "BOOL", "UINT64", "INT32"}
Operators == {"arithmetic", "comparison", "logical"}

(* The values of a type.                                                   *)
Typed(type, v) ==
    CASE type = "STRING" -> v \in Seq(Nat)
      [] type = "BOOL" -> v \in {<<0>>, <<1>>}
      [] type = "UINT64" -> \E n \in 0 .. 2 * Half - 1 : v = <<n>>
      [] type = "INT32" -> \E n \in -Half .. Half - 1 : v = <<n>>

(* What the constructors make: literal_expr_uint64 and the like take a     *)
(* value of their type, expr_of two expressions that are there already,    *)
(* and the operators have the type of their result.                        *)
ASSUME RecordsAssumption ==
    /\ Half \in Nat \ {0}
    /\ \A e \in Expressions :
          /\ Depth(e) \in Nat
          /\ e.kind \in {"literal", "column"} \cup Operators
          /\ e.kind = "literal" => e.type \in ColumnTypes /\ Typed(e.type, e.value)
          /\ e.kind \in Operators =>
                /\ {e.first, e.second} \subseteq Expressions
                /\ Depth(e.first) < Depth(e) /\ Depth(e.second) < Depth(e)
                /\ e.type = IF e.kind = "arithmetic" THEN e.operands ELSE "BOOL"
          /\ e.kind = "arithmetic" => e.op \in {"PLUS", "MINUS", "MUL"}

COLUMN_NOT_FOUND == "COLUMN_NOT_FOUND"
Ok(v) == [error |-> "none", value |-> v]
Error(e) == [error |-> e, value |-> <<>>]
Failed(r) == r.error # "none"
Bool(b) == IF b THEN <<1>> ELSE <<0>>
IsTrue(v) == v = <<1>>

(* The least of a set of positions; 0 if there is none.                    *)
First(ks) == IF ks = {} THEN 0 ELSE CHOOSE k \in ks : \A j \in ks : k <= j

(* strncmp over the length of the shorter string: a string equals every    *)
(* string it begins.                                                       *)
Difference(a, b, k) == IF k = 0 THEN 0 ELSE a[k] - b[k]
str_compare(a, b) ==
    Difference(a, b, First({k \in DOMAIN a \cap DOMAIN b : a[k] # b[k]}))
str_eq(a, b) == str_compare(a, b) = 0

(* The columns of a table, and a record of them.                           *)
AreColumns(columns) ==
    /\ Len(columns) \in Nat /\ DOMAIN columns = 1 .. Len(columns)
    /\ \A c \in DOMAIN columns : columns[c].type \in ColumnTypes
IsRecord(columns, record) ==
    /\ record \in Seq(Seq(Int)) /\ Len(record) = Len(columns)
    /\ \A c \in 1 .. Len(columns) : Typed(columns[c].type, record[c])
-----------------------------------------------------------------------------
(* The first column that matches; 0 if none does.                          *)
find_schema(columns, table, name) ==
    First({k \in DOMAIN columns :
             str_eq(table, columns[k].table) /\ str_eq(name, columns[k].name)})

ValueAt(record, k) == IF k = 0 THEN Error(COLUMN_NOT_FOUND) ELSE Ok(record[k])
record_get_value(columns, record, table, name) ==
    ValueAt(record, find_schema(columns, table, name))

(* The type of the value is not compared with the column's.                *)
WithValue(record, k, value) ==
    IF k = 0 THEN Error(COLUMN_NOT_FOUND) ELSE Ok([record EXCEPT ![k] = value])
record_set_value(columns, record, table, name, value) ==
    WithValue(record, find_schema(columns, table, name), value)
-----------------------------------------------------------------------------
ColumnCells(type, value) ==
    IF type = "STRING" THEN <<Len(value)>> \o value ELSE value

serialize_columns(columns, record) ==
    LET from[k \in 0 .. Len(columns)] ==
          IF k = Len(columns) THEN <<>>
          ELSE ColumnCells(columns[k + 1].type, record[k + 1]) \o from[k + 1]
    IN  from[0]

(* The columns of which an item has all cells; a string may claim more     *)
(* letters than the item has, because its size is compared with the cells  *)
(* that hold the size as well ("Overread").                                *)
deserialize_column(type, cells) ==
    IF cells = <<>> THEN Error("INCORRECT_ITEM_SIZE")
    ELSE IF type = "STRING"
         THEN IF Head(cells) \notin 0 .. Len(cells) THEN Error("INVALID_DATA")
              ELSE IF Head(cells) = Len(cells) THEN Error("Overread")
              ELSE Ok(SubSeq(cells, 2, Head(cells) + 1))
    ELSE IF type = "BOOL" /\ Head(cells) \notin {0, 1} THEN Error("INVALID_DATA")
    ELSE Ok(<<Head(cells)>>)

ColumnSize_NoPrefix(type, value) == IF type = "STRING" THEN Len(value) ELSE 1
ColumnSize(type, value) == IF type = "STRING" THEN Len(value) + 1 ELSE 1

(* The columns up to one of them and the cells behind it.                  *)
Joining(type, before, column) ==
    IF Failed(before) THEN before
    ELSE IF Failed(column) THEN [before EXCEPT !.error = column.error]
    ELSE [error |-> "none", value |-> Append(before.value, column.value),
          rest |-> SubSeq(before.rest, ColumnSize(type, column.value) + 1,
                          Len(before.rest))]
Deserialized(type, before) ==
    Joining(type, before, deserialize_column(type, before.rest))
record_deserialize(columns, item) ==
    LET upTo[k \in 0 .. Len(columns)] ==
          IF k = 0 THEN [error |-> "none", value |-> <<>>, rest |-> item]
          ELSE Deserialized(columns[k].type, upTo[k - 1])
    IN  upTo[Len(columns)]
-----------------------------------------------------------------------------
Wrapped(type, n) ==
    IF type = "UINT64" THEN n % (2 * Half)
    ELSE ((n + Half) % (2 * Half)) - Half

arithmetic_operator_apply(op, type, a, b) ==
    IF type \notin {"INT32", "UINT64"} THEN Error("NON_NUMERIC_TYPE")
    ELSE Ok(<<Wrapped(type, CASE op = "PLUS" -> a[1] + b[1]
                              [] op = "MINUS" -> a[1] - b[1]
                              [] op = "MUL" -> a[1] * b[1])>>)

Compared(op, a, b) ==
    CASE op = "EQ" -> a = b  [] op = "NEQ" -> a # b
      [] op = "LESS" -> a < b  [] op = "LEQ" -> a <= b
      [] op = "GREATER" -> a > b  [] op = "GEQ" -> a >= b

comparison_operator_apply(op, type, a, b) ==
    Ok(Bool(IF type = "STRING" THEN Compared(op, str_compare(a, b), 0)
            ELSE Compared(op, a[1], b[1])))

logical_operator_apply(op, a, b) ==
    Ok(Bool(CASE op = "AND" -> IsTrue(a) /\ IsTrue(b)
              [] op = "OR" -> IsTrue(a) \/ IsTrue(b)
              [] op = "NOT" -> ~IsTrue(a)))

Apply(e, a, b) ==
    CASE e.kind = "arithmetic" -> arithmetic_operator_apply(e.op, e.operands, a, b)
      [] e.kind = "comparison" -> comparison_operator_apply(e.op, e.operands, a, b)
      [] e.kind = "logical" -> logical_operator_apply(e.op, a, b)

(* Both operands are evaluated, whatever the operator; the types are those *)
(* the expressions were made with.                                         *)
expression_get(columns, record, expression) ==
    LET value[e \in Expressions] ==
          CASE e.kind = "literal" -> Ok(e.value)
            [] e.kind = "column" ->
                 record_get_value(columns, record, e.table, e.name)
            [] OTHER ->
                 IF e.first.type # e.operands \/ e.second.type # e.operands
                 THEN Error("NON_MATCHING_TYPES")
                 ELSE IF Failed(value[e.first]) THEN value[e.first]
                 ELSE IF Failed(value[e.second]) THEN value[e.second]
                 ELSE Apply(e, value[e.first].value, value[e.second].value)
    IN  value[expression]

predicate_apply(columns, record, predicate) ==
    IF predicate.type # "BOOL" THEN Error("NON_BOOL_EXPRESSION")
    ELSE expression_get(columns, record, predicate)

(* One column after the other: an expression sees what the ones before it  *)
(* have set.                                                               *)
SetTo(columns, record, table, name, v) ==
    IF Failed(v) THEN v ELSE record_set_value(columns, record, table, name, v.value)
record_update_apply(columns, record, table, updates) ==
    LET upTo[k \in 0 .. Len(updates)] ==
          IF k = 0 THEN Ok(record)
          ELSE IF Failed(upTo[k - 1]) THEN upTo[k - 1]
          ELSE SetTo(columns, upTo[k - 1].value, table, updates[k].name,
                     expression_get(columns, upTo[k - 1].value, updates[k].expression))
    IN  upTo[Len(updates)]

(* The columns an expression names have the types it was made with, which  *)
(* column_expr is told and nothing compares with the table's.              *)
DeclaredAt(columns, c, type) == c > 0 => columns[c].type = type
AsDeclared(columns, expression) ==
    LET ok[e \in Expressions] ==
          CASE e.kind = "literal" -> TRUE
            [] e.kind = "column" ->
                 DeclaredAt(columns, find_schema(columns, e.table, e.name), e.type)
            [] OTHER -> ok[e.first] /\ ok[e.second]
    IN  ok[expression]

(* A string of its own is part of the expression's memory.                 *)
HasString(expression) ==
    LET has[e \in Expressions] ==
          CASE e.kind = "literal" -> e.type = "STRING"
            [] e.kind = "column" -> FALSE
            [] OTHER -> has[e.first] \/ has[e.second]
    IN  has[expression]

HasLogical(expression) ==
    LET has[e \in Expressions] ==
          CASE e.kind \in {"literal", "column"} -> FALSE
            [] OTHER -> e.kind = "logical" \/ has[e.first] \/ has[e.second]
    IN  has[expression]
=============================================================================
