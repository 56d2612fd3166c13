------------------------------- MODULE Parser -------------------------------
(***************************************************************************)
(* The grammar of parser.y as a function from tokens to syntax trees, with *)
(* the choices Bison makes: what is shifted when an operator follows an    *)
(* expression, and where parsing goes on after an error.                   *)
(*                                                                         *)
(* A token is [token, value], what the lexer returns.  Every parsed symbol *)
(* is [ok, node, at], where "at" is the first token that was not shifted,  *)
(* or the token at which the error was found.                              *)
(***************************************************************************)
EXTENDS Integers, Sequences

Node(name, value, children) == [name |-> name, value |-> value, children |-> children]
NULL == Node("NULL", "", <<>>)

Parsed(node, at) == [ok |-> TRUE, node |-> node, at |-> at]
Unexpected(at) == [ok |-> FALSE, node |-> NULL, at |-> at]

Peek(ts, at) == IF at <= Len(ts) THEN ts[at].token ELSE "END"

(* The nodes the lexer makes.                                              *)
LeafName ==
    [INT |-> "INT", FLOAT |-> "FLOAT", BOOL |-> "BOOL", STRING |-> "STRING",
     IDENTIFIER |-> "ID", COLUMN_TYPE |-> "COLUMN TYPE",
     COMPARISON_OPERATOR |-> "COMPARISON OPER",
     ARITHMETIC_OPERATOR |-> "ARITHMETIC OPER", AND_OP |-> "LOGICAL OPER",
     OR_OP |-> "LOGICAL OPER", NOT_OP |-> "LOGICAL OPER"]
Leaf(t) == IF t.token \in DOMAIN LeafName THEN Node(LeafName[t.token], t.value, <<>>)
           ELSE NULL
-----------------------------------------------------------------------------
(* A rule: its symbols, the name of its node, and which of the symbols     *)
(* become the node's children.  A rule without a name hands its only part  *)
(* on.  An optional symbol is NULL if the next token does not begin it.    *)
Rule(name, symbols, parts) == [name |-> name, symbols |-> symbols, parts |-> parts]
Optional == [joins_ |-> "JOIN", where_ |-> "WHERE"]

select_statement ==
    Rule("SELECT STATEMENT", <<"SELECT", "from", "joins_", "where_">>, <<2, 3, 4>>)
insert_statement ==
    Rule("INSERT STATEMENT",
         <<"INSERT_INTO", "table_id", "(", "col_names", ")", "VALUES", "values_list">>,
         <<2, 4, 7>>)
update_statement ==
    Rule("UPDATE STATEMENT", <<"UPDATE", "table_id", "SET", "updates", "where_">>,
         <<2, 4, 5>>)
delete_statement == Rule("DELETE STATEMENT", <<"DELETE", "from", "where_">>, <<2, 3>>)
create_table_statement ==
    Rule("CREATE TABLE STATEMENT",
         <<"CREATE", "TABLE", "table_id", "(", "columns_defs", ")">>, <<3, 5>>)
drop_table_statement == Rule("DROP TABLE STATEMENT", <<"DROP", "TABLE", "table_id">>, <<3>>)
column_def == Rule("COLUMN DEF", <<"column_id", "COLUMN_TYPE">>, <<1, 2>>)
update == Rule("UPDATE", <<"column_id", "COMPARISON_OPERATOR", "expression">>, <<1, 3>>)
row == Rule("", <<"(", "values", ")">>, <<2>>)
from == Rule("FROM", <<"FROM", "table_id">>, <<2>>)
join == Rule("JOIN ON", <<"JOIN", "table_id", "ON", "predicate">>, <<2, 4>>)
where == Rule("WHERE", <<"WHERE", "predicate">>, <<2>>)
predicate == Rule("PREDICATE", <<"expression">>, <<1>>)
literal_expr == Rule("LITERAL", <<"literal">>, <<1>>)
member_expr == Rule("MEMBER EXPR", <<"member_id">>, <<1>>)
parenthesised == Rule("", <<"(", "expression", ")">>, <<2>>)
member_of_table == Rule("MEMBER ID", <<"table_id", ".", "column_id">>, <<1, 3>>)
member_alone == Rule("MEMBER ID", <<"nothing", "column_id">>, <<1, 2>>)
table_id == Rule("TABLE ID", <<"IDENTIFIER">>, <<1>>)
column_id == Rule("COLUMN ID", <<"IDENTIFIER">>, <<1>>)

Rules ==
    [select_statement |-> select_statement, insert_statement |-> insert_statement,
     update_statement |-> update_statement, delete_statement |-> delete_statement,
     create_table_statement |-> create_table_statement,
     drop_table_statement |-> drop_table_statement,
     column_def |-> column_def, update |-> update, row |-> row, from |-> from,
     join |-> join, where_ |-> where, predicate |-> predicate,
     literal_expr |-> literal_expr, member_expr |-> member_expr,
     parenthesised |-> parenthesised, member_of_table |-> member_of_table,
     member_alone |-> member_alone, table_id |-> table_id, column_id |-> column_id]

(* The lists: one element, and more as long as the token that goes on is   *)
(* seen, which is a comma that is shifted, or the beginning of a join.     *)
List(name, element, more) == [name |-> name, element |-> element, more |-> more]
columns_defs == List("COLUMN DEFS", "column_def", ",")
updates == List("UPDATES", "update", ",")
col_names == List("COL NAMES", "column_id", ",")
values_list == List("VALUES LIST", "row", ",")
values == List("VALUES", "literal", ",")
joins == List("JOINS LIST", "join", "JOIN")

Lists == [columns_defs |-> columns_defs, updates |-> updates, col_names |-> col_names,
          values_list |-> values_list, values |-> values, joins_ |-> joins]

(* The token that begins each statement.                                   *)
Statements ==
    [SELECT |-> "select_statement", INSERT_INTO |-> "insert_statement",
     UPDATE |-> "update_statement", DELETE |-> "delete_statement",
     CREATE |-> "create_table_statement", DROP |-> "drop_table_statement"]

Literals == {"INT", "FLOAT", "STRING", "BOOL"}
-----------------------------------------------------------------------------
(* %left, from the one that binds least; ARITHMETIC_OPERATOR has no        *)
(* precedence, and where a rule or the next token has none Bison shifts.   *)
Precedence == [AND_OP |-> 1, OR_OP |-> 2, NOT_OP |-> 3, COMPARISON_OPERATOR |-> 4]
BinaryOperators == {"AND_OP", "OR_OP", "COMPARISON_OPERATOR", "ARITHMETIC_OPERATOR"}

Shifts_Always(rule, next) == next \in BinaryOperators
Shifts(rule, next) ==
    /\ next \in BinaryOperators
    /\ rule \in DOMAIN Precedence /\ next \in DOMAIN Precedence =>
          Precedence[next] > Precedence[rule]

(* The node of a rule; an update must be written with =, which is found    *)
(* out when the rule is reduced and its next token has been read.          *)
Built(rule, nodes, at) ==
    IF rule.name = "UPDATE" /\ nodes[2].value # "EQ" THEN Unexpected(at)
    ELSE IF rule.name = "" THEN Parsed(nodes[rule.parts[1]], at)
    ELSE Parsed(Node(rule.name, "", [k \in DOMAIN rule.parts |-> nodes[rule.parts[k]]]), at)

OperatorExpr(left, oper, right) == Node("OPERATOR EXPR", "", <<left, oper, right>>)

RECURSIVE Symbol(_, _, _), Symbols(_, _, _, _), Elements(_, _, _, _)
RECURSIVE Expression(_, _, _), Operators(_, _, _)

Symbol(s, ts, at) ==
    IF s \in DOMAIN Optional /\ Peek(ts, at) # Optional[s] THEN Parsed(NULL, at)
    ELSE
    CASE s = "nothing" -> Parsed(NULL, at)
      [] s = "literal" -> IF Peek(ts, at) \in Literals THEN Parsed(Leaf(ts[at]), at + 1)
                          ELSE Unexpected(at)
      [] s = "member_id" -> Symbol(IF Peek(ts, at + 1) = "." THEN "member_of_table"
                                   ELSE "member_alone", ts, at)
      [] s = "expression" -> Expression(ts, at, "")
      [] s \in DOMAIN Lists -> Elements(Lists[s], ts, at, <<>>)
      [] s \in DOMAIN Rules -> Symbols(Rules[s], ts, at, <<>>)
      [] OTHER -> IF Peek(ts, at) = s THEN Parsed(Leaf(ts[at]), at + 1) ELSE Unexpected(at)

Symbols(rule, ts, at, nodes) ==
    IF Len(nodes) = Len(rule.symbols) THEN Built(rule, nodes, at)
    ELSE LET next == Symbol(rule.symbols[Len(nodes) + 1], ts, at)
         IN  IF next.ok THEN Symbols(rule, ts, next.at, Append(nodes, next.node)) ELSE next

Elements(list, ts, at, nodes) ==
    LET next == Symbol(list.element, ts, at)
        all == Append(nodes, next.node)
    IN  IF ~next.ok THEN next
        ELSE IF Peek(ts, next.at) = list.more
        THEN Elements(list, ts, next.at + (IF list.more = "," THEN 1 ELSE 0), all)
        ELSE Parsed(Node(list.name, "", all), next.at)

Operand(ts, at) ==
    CASE Peek(ts, at) = "NOT_OP" ->
           LET e == Expression(ts, at + 1, "NOT_OP")
           IN  IF e.ok THEN Parsed(OperatorExpr(e.node, Leaf(ts[at]), NULL), e.at) ELSE e
      [] Peek(ts, at) = "(" -> Symbol("parenthesised", ts, at)
      [] Peek(ts, at) = "IDENTIFIER" -> Symbol("member_expr", ts, at)
      [] OTHER -> Symbol("literal_expr", ts, at)

(* What can be shifted while the rule of the operator before is not        *)
(* reduced.                                                                *)
Operators(ts, left, rule) ==
    IF ~left.ok \/ ~Shifts(rule, Peek(ts, left.at)) THEN left
    ELSE LET right == Expression(ts, left.at + 1, Peek(ts, left.at))
         IN  IF ~right.ok THEN right
             ELSE Operators(ts, Parsed(OperatorExpr(left.node, Leaf(ts[left.at]), right.node),
                                       right.at), rule)

Expression(ts, at, rule) == Operators(ts, Operand(ts, at), rule)

statement(ts, at) ==
    IF Peek(ts, at) \notin DOMAIN Statements THEN Unexpected(at)
    ELSE Symbols(Rule("STATEMENT", <<Statements[Peek(ts, at)], ";">>, <<1>>), ts, at, <<>>)

(* Nothing is read behind a semicolon; behind an error the token that was  *)
(* not expected is lost and the next call begins with the one after it.    *)
parse_stdin(ts, at) ==
    LET parsed == statement(ts, at)
    IN  IF parsed.ok THEN parsed
        ELSE Unexpected(IF parsed.at <= Len(ts) THEN parsed.at + 1 ELSE parsed.at)
=============================================================================
