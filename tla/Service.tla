------------------------------ MODULE Service -------------------------------
(***************************************************************************)
(* What the connections carry: the mapping of syntax trees to statements,  *)
(* the units of a request and of an answer, and how they are read.  These  *)
(* are the values of the parameters of Connections.                        *)
(*                                                                         *)
(* The mapping of select, update and delete, and of strings, is not        *)
(* defined in map_ast.c.                                                   *)
(***************************************************************************)
EXTENDS Connections, Parser, Messages

(* map_ast.c                                                               *)
map_table_id(node) == node.children[1].value
map_column_id(node) == node.children[1].value
Minimum(a, b) == IF a < b THEN a ELSE b

LiteralTypes ==
    [INT |-> [field |-> "i32_val", type |-> "INT32"],
     FLOAT |-> [field |-> "float_val", type |-> "FLOAT"],
     BOOL |-> [field |-> "bool_val", type |-> "BOOL"]]
map_literal(node) ==
    g_object_new("ColumnValue", [n \in {LiteralTypes[node.name].field} |-> <<node.value>>])

ColumnSchemaOf(name, type) ==
    g_object_new("ColumnSchema", [columnName |-> <<name>>, columnType |-> <<type>>])

map_column_type(node) == node.value
map_column_defs(node) ==
    [k \in DOMAIN node.children |->
        ColumnSchemaOf(map_column_id(node.children[k].children[1]),
                       map_column_type(node.children[k].children[2]))]

TableSchemaOf(name, columns) ==
    g_object_new("TableSchema", [tableName |-> <<name>>, columns |-> columns])

map_create_table_stmt(node) ==
    g_object_new("CreateTableStmt", [schema |->
        <<TableSchemaOf(map_table_id(node.children[1]), map_column_defs(node.children[2]))>>])
map_drop_table_stmt(node) ==
    g_object_new("DropTableStmt", [tableName |-> <<map_table_id(node.children[1])>>])

(* Values and names go together up to the end of the shorter list; the     *)
(* first record's literals give the columns their types.                   *)
map_insert_stmt(node) ==
    LET table == map_table_id(node.children[1])
        names == node.children[2].children
        rows == node.children[3].children
        width(row_) == Minimum(Len(names), Len(row_.children))
        columns == [k \in 1 .. width(rows[1]) |->
            ColumnSchemaOf(map_column_id(names[k]),
                           LiteralTypes[rows[1].children[k].name].type)]
        records == [r \in DOMAIN rows |->
            g_object_new("Record", [columnValues |->
                [k \in 1 .. width(rows[r]) |-> map_literal(rows[r].children[k])]])]
    IN  g_object_new("InsertStmt",
          [into |-> <<table>>,
           records |-> <<g_object_new("RecordGroup",
                           [schema |-> <<TableSchemaOf(table, columns)>>,
                            records |-> records])>>])

Mapped(name) ==
    CASE name = "CREATE TABLE STATEMENT" -> "createTableStmt"
      [] name = "DROP TABLE STATEMENT" -> "dropTableStmt"
      [] name = "INSERT STATEMENT" -> "insertStmt"
map_stmt(root) ==
    LET node == root.children[1]
        stmt == CASE Mapped(node.name) = "createTableStmt" -> map_create_table_stmt(node)
                  [] Mapped(node.name) = "dropTableStmt" -> map_drop_table_stmt(node)
                  [] Mapped(node.name) = "insertStmt" -> map_insert_stmt(node)
    IN  g_object_new("Statement", [n \in {Mapped(node.name)} |-> <<stmt>>])

(* map_expression and map_update_stmt return nothing, a query without      *)
(* JOIN or WHERE has no node where one is followed, and a string is not    *)
(* what the property takes.                                                *)
Defined(root) ==
    LET node == root.children[1]
    IN  CASE node.name \in {"CREATE TABLE STATEMENT", "DROP TABLE STATEMENT"} -> TRUE
          [] node.name = "INSERT STATEMENT" ->
               LET rows == node.children[3].children
               IN  \A r \in DOMAIN rows :
                     \A k \in 1 .. Minimum(Len(node.children[2].children),
                                           Len(rows[r].children)) :
                        rows[r].children[k].name \in DOMAIN LiteralTypes
          [] OTHER -> FALSE
-----------------------------------------------------------------------------
(* database_service_client_send_execute                                    *)
execute_args(s) ==
    LET stmt == thrift_struct_write("Statement", s.stmt)
    IN  <<Message("CALL"), FieldBegin(execute_args_write[1])>> \o stmt \o s.later \o <<Stop>>

(* database_service_client_recv_execute                                    *)
Told(result) ==
    IF ~result.ok THEN "nothing"
    ELSE IF result.read[1].fields.err # <<>> THEN "error" ELSE "success"
recv_execute(units) ==
    IF units = <<>> THEN "nothing"
    ELSE IF Head(units).wire # "REPLY" THEN "error"
    ELSE Told(thrift_struct_read("ExecuteResult", instance_init("ExecuteResult"),
                                 Tail(units)))

(* dispatch_call and the first half of process_execute                     *)
process_execute(units) ==
    IF units = <<>> THEN Broken
    ELSE thrift_struct_read("ExecuteArgs", instance_init("ExecuteArgs"), Tail(units))

(* The second half of process_execute; err is never set.                   *)
execute_reply(outcome) ==
    IF outcome = "success"
    THEN <<Message("REPLY")>> \o thrift_struct_write("ExecuteResult",
            g_object_new("ExecuteResult", [success |-> <<instance_init("StatementResult")>>]))
    ELSE <<Message("EXCEPTION"), Unit("field", "I32", 2, ""), Value("0"), Stop>>

-----------------------------------------------------------------------------
(* The operators above and below in a tree nest as %left says, where no    *)
(* parentheses and no arithmetic interfere: what binds more is below, what *)
(* binds the same goes to the left, and NOT begins an operand anywhere.    *)
OperatorToken(node) ==
    CASE node.name = "COMPARISON OPER" -> "COMPARISON_OPERATOR"
      [] node.value = "AND" -> "AND_OP"
      [] node.value = "OR" -> "OR_OP"
      [] OTHER -> "NOT_OP"
Binds(node) == Precedence[OperatorToken(node.children[2])]
RECURSIVE Nests(_)
Nests(node) ==
    /\ \A k \in DOMAIN node.children : Nests(node.children[k])
    /\ node.name = "OPERATOR EXPR" =>
          \A k \in {1, 3} :
              node.children[k].name = "OPERATOR EXPR" =>
                  \/ Binds(node.children[k]) > Binds(node)
                  \/ k = 3 /\ OperatorToken(node.children[k].children[2]) = "NOT_OP"
                  \/ /\ Binds(node.children[k]) = Binds(node)
                     /\ k = 1

Plainly(ts) == \A k \in DOMAIN ts : ts[k].token \notin {"(", "ARITHMETIC_OPERATOR"}

(* The words of a statement: names, types and literals as they are typed,  *)
(* as the leaves of its tree, and as the fields of its object.             *)
Meaningful == {"IDENTIFIER", "COLUMN_TYPE", "INT", "FLOAT", "BOOL", "STRING",
               "COMPARISON_OPERATOR", "ARITHMETIC_OPERATOR", "AND_OP", "OR_OP", "NOT_OP"}
TypedWords(ts) ==
    LET words == SelectSeq(ts, LAMBDA t : t.token \in Meaningful)
    IN  [k \in DOMAIN words |-> words[k].value]

RECURSIVE Leaves(_)
Leaves(node) ==
    IF node = NULL THEN <<>>
    ELSE IF node.children = <<>> THEN <<node.value>>
    ELSE LET below == [k \in DOMAIN node.children |-> Leaves(node.children[k])]
         IN  IF node.name = "OPERATOR EXPR" /\ node.children[2].value = "NOT"
             THEN below[2] \o below[1]
             ELSE IF node.name = "UPDATE" THEN below[1] \o <<"EQ">> \o below[2]
             ELSE FlattenSeq(below)

Words(stmt) ==
    LET create == stmt.fields.createTableStmt[1].fields.schema[1].fields
        insert == stmt.fields.insertStmt[1].fields
        group == insert.records[1].fields
        columns(schema) == schema.columns
        value(v) == v.fields[CHOOSE n \in v.isset : TRUE][1]
    IN  CASE stmt.isset = {"createTableStmt"} ->
               create.tableName \o FlattenSeq([k \in DOMAIN create.columns |->
                   create.columns[k].fields.columnName \o create.columns[k].fields.columnType])
          [] stmt.isset = {"dropTableStmt"} -> stmt.fields.dropTableStmt[1].fields.tableName
          [] stmt.isset = {"insertStmt"} ->
               insert.into
               \o [k \in DOMAIN group.schema[1].fields.columns |->
                      group.schema[1].fields.columns[k].fields.columnName[1]]
               \o FlattenSeq([r \in DOMAIN group.records |->
                      [k \in DOMAIN group.records[r].fields.columnValues |->
                          value(group.records[r].fields.columnValues[k])]])

(* An insert with as many names as each of its rows has values.            *)
Even(root) ==
    root.children[1].name = "INSERT STATEMENT" =>
        \A r \in DOMAIN root.children[1].children[3].children :
            Len(root.children[1].children[3].children[r].children)
                = Len(root.children[1].children[2].children)

(* What is sent and executed is what was typed.  The tree a client maps    *)
(* has the words of the statement that was typed, in their order, and its  *)
(* operators nest as parser.y declares.  Each statement that a client      *)
(* sends says what was typed up to its semicolon, behind the semicolon of  *)
(* the statement before, or behind an error that the user was shown: the   *)
(* rest of a rejected statement may be one of its own.                     *)
Understood ==
    \A c \in Clients : request[c] = None =>
        /\ step[c] \in {"mapped", "undefined"} =>
              /\ \E from_ \in 1 .. at[c] - 1 :
                    Leaves(tree[c]) = TypedWords(SubSeq(script[c], from_, at[c] - 1))
              /\ Plainly(script[c]) => Nests(tree[c])
        /\ \A k \in DOMAIN sent[c] :
              LET ts == SubSeq(script[c], sent[c][k].from, sent[c][k].to)
              IN  /\ Even(parse_stdin(ts, 1).node) =>
                       Words(sent[c][k].stmt) = TypedWords(ts)
                  /\ \/ sent[c][k].from = 1
                     \/ script[c][sent[c][k].from - 1].token = ";"
                     \/ sent[c][k].from - 1 \in errors[c]
=============================================================================
