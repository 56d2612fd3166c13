------------------------------ MODULE MCService ------------------------------
EXTENDS Service, TLC

CONSTANTS c1, c2

W(word) == [token |-> word, value |-> ""]
Tok(token, value) == [token |-> token, value |-> value]
Id(name) == Tok("IDENTIFIER", name)
Number(value) == Tok("INT", value)
Eq == Tok("COMPARISON_OPERATOR", "EQ")
Less == Tok("COMPARISON_OPERATOR", "LESS")
And == Tok("AND_OP", "AND")
Or == Tok("OR_OP", "OR")
Not == Tok("NOT_OP", "NOT")
Plus == Tok("ARITHMETIC_OPERATOR", "PLUS")
Dot == W(".")
Comma == W(",")
End == W(";")

Drop(t) == <<W("DROP"), W("TABLE"), Id(t), End>>
Create == <<W("CREATE"), W("TABLE"), Id("t"), W("("), Id("a"), Tok("COLUMN_TYPE", "INT32"),
            Comma, Id("b"), Tok("COLUMN_TYPE", "BOOL"), W(")"), End>>
Into(names) == <<W("INSERT_INTO"), Id("t"), W("(")>> \o names \o <<W(")"), W("VALUES")>>
Insert == Into(<<Id("a"), Comma, Id("b")>>) \o
          <<W("("), Tok("FLOAT", "0.5"), Comma, Tok("BOOL", "1"), W(")"), End>>
Uneven == Into(<<Id("a"), Comma, Id("b")>>) \o
          <<W("("), Number("1"), W(")"), Comma,
            W("("), Number("2"), Comma, Number("3"), Comma, Number("4"), W(")"), End>>
InsertString == Into(<<Id("a")>>) \o <<W("("), Tok("STRING", "s"), W(")"), End>>
From(t) == <<W("SELECT"), W("FROM"), Id(t)>>
(* NOT a = 1 AND b OR t.c < 2 AND d                                        *)
Query == From("t") \o <<W("JOIN"), Id("u"), W("ON"), Id("t"), Dot, Id("a"), Eq, Id("u"), Dot,
                        Id("a"), W("WHERE"), Not, Id("a"), Eq, Number("1"), And, Id("b"), Or,
                        Id("t"), Dot, Id("c"), Less, Number("2"), And, Id("d"), End>>
(* (a + 1) = b                                                             *)
Sum == <<W("DELETE"), W("FROM"), Id("t"), W("WHERE"), W("("), Id("a"), Plus, Number("1"), W(")"),
         Eq, Id("b"), End>>
(* a = NOT b OR c                                                          *)
Negated == <<W("DELETE"), W("FROM"), Id("t"), W("WHERE"), Id("a"), Eq, Not, Id("b"), Or, Id("c"),
             End>>
(* An error whose rest is a statement; then one that ends in the middle.   *)
Tail_ == <<W("SELECT"), Id("x")>> \o Drop("t") \o From("t")
Update(oper) == <<W("UPDATE"), Id("t"), W("SET"), Id("a"), oper, Number("1"), End>>

Scripts ==
    {Create \o Drop("t"), Insert \o Update(Less), Uneven \o InsertString, Tail_, Query, Sum,
     Negated, Update(Eq)}

Of(name, stmt) == g_object_new("Statement", [n \in {name} |-> <<stmt>>])
Column(t, c) ==
    g_object_new("Expression", [column |-> <<g_object_new("ColumnExpr",
        [tableName |-> <<t>>, columnName |-> <<c>>, columnType |-> <<"BOOL">>])>>])
Lit(v) ==
    g_object_new("Expression", [literal |-> <<g_object_new("LiteralExpr",
        [val |-> <<g_object_new("ColumnValue", [string_val |-> <<v>>])>>,
         columnType |-> <<"STRING">>])>>])
Where(e) == g_object_new("Predicate", [expression |-> <<e>>])
QueryRequest ==
    Of("queryStmt", g_object_new("QueryStmt",
        [fromTable |-> <<"t">>, where |-> <<Where(Lit("x"))>>,
         joins |-> <<g_object_new("Join", [what |-> <<"u">>, on |-> <<Where(Column("t", "a"))>>]),
                     g_object_new("Join", [what |-> <<"v">>, on |-> <<Where(Lit("y"))>>])>>]))
UpdateRequest ==
    Of("updateStmt", g_object_new("UpdateStmt",
        [what |-> <<"t">>, where |-> <<Where(Column("t", "b"))>>,
         setValues |-> <<g_object_new("RecordUpdate",
            [tableName |-> <<"t">>, columnSchemas |-> <<ColumnSchemaOf("a", "INT32")>>,
             values |-> <<Lit("z")>>])>>]))
DeleteRequest ==
    Of("deleteStmt", g_object_new("DeleteStmt", [fromTable |-> <<"t">>]))

(* Fields no version before had: a number, a structure, a list.            *)
Later ==
    <<Unit("field", "I32", 7, ""), Value("1"),
      Unit("field", "STRUCT", 8, ""), Unit("field", "STRING", 1, ""), Value("s"), Stop,
      Unit("field", "LIST", 1, ""), ListBegin(2), Stop, Unit("field", "BOOL", 1, ""),
      Value("1"), Stop>>

Requests ==
    {[stmt |-> QueryRequest, later |-> <<>>], [stmt |-> UpdateRequest, later |-> Later],
     [stmt |-> DeleteRequest, later |-> <<>>]}

(* What c1 does; c2 has a statement of its own, or only a connection.      *)
Types_(ts) == [script |-> ts, request |-> None]
Sends_(r) == [script |-> <<>>, request |-> r]
Pair(work, other) == [c \in Clients |-> IF c = c1 THEN work ELSE other]
MCWorks ==
    {Pair(Types_(ts), Types_(Drop("v"))) : ts \in {Tail_}}
    \cup {Pair(Types_(ts), Types_(Update(Less))) : ts \in Scripts}
    \cup {Pair(Sends_(r), Types_(Query)) : r \in Requests}

(* Every structure is read as it was written, also those no message holds. *)
Sample(struct) ==
    LET initial == instance_init(struct)
    IN  [initial EXCEPT !.isset = IF struct \in Unions
                                  THEN {CHOOSE n \in DOMAIN initial.fields : TRUE} ELSE {}]
ASSUME \A struct \in DOMAIN Types \ {"ExecuteResult"} :
    thrift_struct_read(struct, instance_init(struct),
                       thrift_struct_write(struct, Sample(struct)))
        = Done(<<Sample(struct)>>, <<>>)
=============================================================================
