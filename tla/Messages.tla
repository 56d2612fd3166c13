------------------------------ MODULE Messages ------------------------------
(***************************************************************************)
(* The structures of service.thrift as the generated code of               *)
(* service_types.c writes and reads them.  A wire is a sequence of units:  *)
(* the beginning of a message or of a field, a value, the beginning of a   *)
(* list, or the stop behind the last field of a structure; how the binary  *)
(* protocol spells them is left out.  All values are strings.              *)
(*                                                                         *)
(* An object is [isset, fields]: which alternatives of a union are set,    *)
(* and for each field the sequence of what it holds: one value, one        *)
(* object, nothing, or the elements of a list.                             *)
(***************************************************************************)
EXTENDS Integers, Sequences, SequencesExt

Plain(id, name, wire) == [id |-> id, name |-> name, wire |-> wire, of |-> ""]
Struct(id, name, of) == [id |-> id, name |-> name, wire |-> "STRUCT", of |-> of]
List_(id, name, of) == [id |-> id, name |-> name, wire |-> "LIST", of |-> of]

(* <struct>_write: the fields in the order in which they are written.      *)
error_write ==
    <<Plain(1, "errorSource", "STRING"), Plain(2, "errorType", "STRING"),
      Plain(3, "errorCode", "I64"), Plain(4, "errorMessage", "STRING")>>
column_value_write ==
    <<Plain(1, "i32_val", "I32"), Plain(2, "u64_val", "I64"),
      Plain(3, "float_val", "DOUBLE"), Plain(4, "string_val", "STRING"),
      Plain(5, "bool_val", "BOOL")>>
column_schema_write == <<Plain(1, "columnName", "STRING"), Plain(2, "columnType", "I32")>>
table_schema_write ==
    <<Plain(1, "tableName", "STRING"), List_(2, "columns", "ColumnSchema")>>
arithmethic_operator_write == <<Plain(1, "operator", "I32"), Plain(2, "operandType", "I32")>>
comparison_operator_write == <<Plain(1, "opereator", "I32"), Plain(2, "opereandType", "I32")>>
logical_operator_write == <<Plain(1, "operator", "I32")>>
expression_operator_write ==
    <<Struct(1, "arithmethicOper", "ArithmethicOperator"),
      Struct(2, "compaarisonOper", "ComparisonOperator"),
      Struct(3, "logicalOper", "LogicalOperator")>>
literal_expr_write == <<Struct(1, "val", "ColumnValue"), Plain(2, "columnType", "I32")>>
column_expr_write ==
    <<Plain(1, "tableName", "STRING"), Plain(2, "columnName", "STRING"),
      Plain(3, "columnType", "I32")>>
expression_write ==
    <<Struct(1, "literal", "LiteralExpr"), Struct(2, "column", "ColumnExpr")>>
predicate_write == <<Struct(1, "expression", "Expression")>>
join_write == <<Plain(1, "what", "STRING"), Struct(2, "on", "Predicate")>>
record_write == <<List_(1, "columnValues", "ColumnValue")>>
record_group_write ==
    <<Struct(1, "schema", "TableSchema"), List_(2, "records", "Record")>>
record_update_write ==
    <<Plain(1, "tableName", "STRING"), List_(2, "columnSchemas", "ColumnSchema"),
      List_(3, "values", "Expression")>>
create_table_stmt_write == <<Struct(1, "schema", "TableSchema")>>
drop_table_stmt_write == <<Plain(1, "tableName", "STRING")>>
query_stmt_write ==
    <<Plain(1, "fromTable", "STRING"), Struct(2, "where", "Predicate"),
      List_(3, "joins", "Join")>>
insert_stmt_write == <<Plain(1, "into", "STRING"), Struct(2, "records", "RecordGroup")>>
update_stmt_write ==
    <<Plain(1, "what", "STRING"), Struct(2, "setValues", "RecordUpdate"),
      Struct(3, "where", "Predicate")>>
delete_stmt_write == <<Plain(1, "fromTable", "STRING"), Struct(2, "where", "Predicate")>>
statement_write ==
    <<Struct(1, "createTableStmt", "CreateTableStmt"),
      Struct(2, "dropTableStmt", "DropTableStmt"), Struct(3, "queryStmt", "QueryStmt"),
      Struct(4, "insertStmt", "InsertStmt"), Struct(5, "updateStmt", "UpdateStmt"),
      Struct(6, "deleteStmt", "DeleteStmt")>>
record_view_write ==
    <<List_(1, "records", "Record"), List_(2, "columns", "ColumnSchema")>>
statement_result_write == <<Struct(1, "view", "RecordView")>>
execute_args_write == <<Struct(1, "stmt", "Statement")>>
execute_result_write == <<Struct(0, "success", "StatementResult"), Struct(1, "err", "Error")>>

(* <struct>_read: the fields it knows, by id and type, in any order.       *)
Known(fields) == {fields[k] : k \in DOMAIN fields}
error_read == Known(error_write)
column_value_read == Known(column_value_write)
column_schema_read == Known(column_schema_write)
table_schema_read == Known(table_schema_write)
arithmethic_operator_read == Known(arithmethic_operator_write)
comparison_operator_read == Known(comparison_operator_write)
logical_operator_read == Known(logical_operator_write)
expression_operator_read == Known(expression_operator_write)
literal_expr_read == Known(literal_expr_write)
column_expr_read == Known(column_expr_write)
expression_read == Known(expression_write)
predicate_read == Known(predicate_write)
join_read == Known(join_write)
record_read == Known(record_write)
record_group_read == Known(record_group_write)
record_update_read == Known(record_update_write)
create_table_stmt_read == Known(create_table_stmt_write)
drop_table_stmt_read == Known(drop_table_stmt_write)
query_stmt_read == Known(query_stmt_write)
insert_stmt_read == Known(insert_stmt_write)
update_stmt_read == Known(update_stmt_write)
delete_stmt_read == Known(delete_stmt_write)
statement_read == Known(statement_write)
record_view_read == Known(record_view_write)
statement_result_read == Known(statement_result_write)
execute_args_read == Known(execute_args_write)
execute_result_read == Known(execute_result_write)

Type(write, read) == [write |-> write, read |-> read]
Types ==
    [Error |-> Type(error_write, error_read),
     ColumnValue |-> Type(column_value_write, column_value_read),
     ColumnSchema |-> Type(column_schema_write, column_schema_read),
     TableSchema |-> Type(table_schema_write, table_schema_read),
     ArithmethicOperator |-> Type(arithmethic_operator_write, arithmethic_operator_read),
     ComparisonOperator |-> Type(comparison_operator_write, comparison_operator_read),
     LogicalOperator |-> Type(logical_operator_write, logical_operator_read),
     ExpressionOperator |-> Type(expression_operator_write, expression_operator_read),
     LiteralExpr |-> Type(literal_expr_write, literal_expr_read),
     ColumnExpr |-> Type(column_expr_write, column_expr_read),
     Expression |-> Type(expression_write, expression_read),
     Predicate |-> Type(predicate_write, predicate_read),
     Join |-> Type(join_write, join_read),
     Record |-> Type(record_write, record_read),
     RecordGroup |-> Type(record_group_write, record_group_read),
     RecordUpdate |-> Type(record_update_write, record_update_read),
     CreateTableStmt |-> Type(create_table_stmt_write, create_table_stmt_read),
     DropTableStmt |-> Type(drop_table_stmt_write, drop_table_stmt_read),
     QueryStmt |-> Type(query_stmt_write, query_stmt_read),
     InsertStmt |-> Type(insert_stmt_write, insert_stmt_read),
     UpdateStmt |-> Type(update_stmt_write, update_stmt_read),
     DeleteStmt |-> Type(delete_stmt_write, delete_stmt_read),
     Statement |-> Type(statement_write, statement_read),
     RecordView |-> Type(record_view_write, record_view_read),
     StatementResult |-> Type(statement_result_write, statement_result_read),
     ExecuteArgs |-> Type(execute_args_write, execute_args_read),
     ExecuteResult |-> Type(execute_result_write, execute_result_read)]

(* Unions and the result of a call write only what is set.                 *)
Unions == {"ColumnValue", "Expression", "Statement", "ExecuteResult"}
Writes(struct, object, f) == struct \in Unions => f.name \in object.isset
-----------------------------------------------------------------------------
RECURSIVE instance_init(_)
(* Every nested object exists from the beginning, except the error of a    *)
(* result; a string is NULL, which is written as the empty one.            *)
instance_init(struct) ==
    LET fields == Types[struct].write
        initially(f) ==
            CASE f.wire = "STRUCT" -> IF f.of = "Error" THEN <<>> ELSE <<instance_init(f.of)>>
              [] f.wire = "LIST" -> <<>>
              [] f.wire = "STRING" -> <<"">>
              [] OTHER -> <<"0">>
    IN  [isset |-> {},
         fields |-> [n \in {f.name : f \in Known(fields)} |->
                        initially(CHOOSE f \in Known(fields) : f.name = n)]]

(* g_object_new with some properties.                                      *)
g_object_new(struct, properties) ==
    LET initial == instance_init(struct)
    IN  [isset |-> IF struct \in Unions THEN DOMAIN properties ELSE {},
         fields |-> [n \in DOMAIN initial.fields |->
                        IF n \in DOMAIN properties THEN properties[n]
                        ELSE initial.fields[n]]]
-----------------------------------------------------------------------------
Unit(mark, wire, id, value) == [mark |-> mark, wire |-> wire, id |-> id, value |-> value]
Message(type) == Unit("message", type, 0, "")
FieldBegin(f) == Unit("field", f.wire, f.id, "")
ListBegin(length) == Unit("list", "STRUCT", length, "")
Value(v) == Unit("value", "", 0, v)
Stop == Unit("stop", "", 0, "")

RECURSIVE thrift_struct_write(_, _)
thrift_struct_write(struct, object) ==
    LET fields == Types[struct].write
        field(f) ==
            LET held == object.fields[f.name]
                structs == [k \in DOMAIN held |-> thrift_struct_write(f.of, held[k])]
            IN  <<FieldBegin(f)>> \o
                CASE f.wire = "STRUCT" -> structs[1]
                  [] f.wire = "LIST" -> <<ListBegin(Len(held))>> \o FlattenSeq(structs)
                  [] OTHER -> <<Value(held[1])>>
    IN  FlattenSeq([k \in DOMAIN fields |->
                      IF Writes(struct, object, fields[k]) THEN field(fields[k]) ELSE <<>>])
        \o <<Stop>>
-----------------------------------------------------------------------------
(* What was read and what is left of the wire; the wire may end anywhere.  *)
Done(read, rest) == [ok |-> TRUE, read |-> read, rest |-> rest]
Broken == [ok |-> FALSE, read |-> <<>>, rest |-> <<>>]

(* A field with an id or a type that is not known is passed over.          *)
RECURSIVE thrift_protocol_skip(_, _), SkipStructs(_, _)
thrift_protocol_skip(wire, units) ==
    IF units = <<>> THEN Broken
    ELSE CASE wire = "STRUCT" -> SkipStructs(1, units)
           [] wire = "LIST" -> SkipStructs(Head(units).id, Tail(units))
           [] OTHER -> Done(<<>>, Tail(units))
SkipStructs(n, units) ==
    IF n = 0 THEN Done(<<>>, units)
    ELSE IF units = <<>> THEN Broken
    ELSE IF Head(units).mark = "stop" THEN SkipStructs(n - 1, Tail(units))
    ELSE LET field == thrift_protocol_skip(Head(units).wire, Tail(units))
         IN  IF field.ok THEN SkipStructs(n, field.rest) ELSE Broken

RECURSIVE thrift_struct_read(_, _, _), ReadField(_, _, _), ReadList(_, _, _, _)

(* Into the object that is there already; a list is added to.              *)
ReadField(f, held, units) ==
    IF units = <<>> THEN Broken
    ELSE CASE f.wire = "STRUCT" ->
                thrift_struct_read(f.of, IF held = <<>> THEN instance_init(f.of) ELSE held[1],
                                   units)
           [] f.wire = "LIST" -> ReadList(f.of, held, Head(units).id, Tail(units))
           [] OTHER -> Done(<<Head(units).value>>, Tail(units))

ReadList(of, held, length, units) ==
    IF length = 0 THEN Done(held, units)
    ELSE LET element == thrift_struct_read(of, instance_init(of), units)
         IN  IF element.ok THEN ReadList(of, held \o element.read, length - 1, element.rest)
             ELSE Broken

Holding(struct, object, f, read) ==
    [object EXCEPT !.fields[f.name] = read,
                   !.isset = IF struct \in Unions THEN @ \cup {f.name} ELSE @]

thrift_struct_read(struct, object, units) ==
    IF units = <<>> THEN Broken      \* before the structure's stop
    ELSE IF Head(units).mark = "stop" THEN Done(<<object>>, Tail(units))
    ELSE LET known == {f \in Types[struct].read :
                         f.id = Head(units).id /\ f.wire = Head(units).wire}
         IN  IF known = {}
             THEN LET skipped == thrift_protocol_skip(Head(units).wire, Tail(units))
                  IN  IF skipped.ok THEN thrift_struct_read(struct, object, skipped.rest)
                      ELSE Broken
             ELSE LET f == CHOOSE f \in known : TRUE
                      got == ReadField(f, object.fields[f.name], Tail(units))
                  IN  IF got.ok
                      THEN thrift_struct_read(struct, Holding(struct, object, f, got.read),
                                              got.rest)
                      ELSE Broken
=============================================================================
