----------------------------- MODULE MCStatements -----------------------------
EXTENDS Statements, TLC

T == <<1>>
U == <<2>>
Unheard == <<7>>

ColumnOf(t, n, type) == [table |-> t, name |-> n, type |-> type]
MCSchema ==
    T :> <<ColumnOf(T, <<2>>, "STRING"), ColumnOf(T, <<1>>, "INT32")>> @@
    U :> <<ColumnOf(U, <<1>>, "INT32"), ColumnOf(U, <<2>>, "BOOL")>>

Literal(type, v) == [kind |-> "literal", type |-> type, value |-> v]
Col(t, n, type) == [kind |-> "column", type |-> type, table |-> t, name |-> n]
Binary(kind, op, operands, result, x, y) ==
    [kind |-> kind, op |-> op, operands |-> operands, type |-> result,
     first |-> x, second |-> y]
Compare(op, type, x, y) == Binary("comparison", op, type, "BOOL", x, y)

True == Literal("BOOL", <<1>>)
One == Literal("INT32", <<1>>)
A == Literal("STRING", <<1>>)
AB == Literal("STRING", <<1, 2>>)
TNum == Col(T, <<1>>, "INT32")
TStr == Col(T, <<2>>, "STRING")
UNum == Col(U, <<1>>, "INT32")
UBool == Col(U, <<2>>, "BOOL")
Misread == Col(T, <<2>>, "INT32")
Nowhere == Col(T, <<9>>, "INT32")
More == Binary("arithmetic", "PLUS", "INT32", "INT32", TNum, One)
IsOne == Compare("EQ", "INT32", TNum, One)
IsA == Compare("EQ", "STRING", TStr, A)
SameNum == Compare("EQ", "INT32", TNum, UNum)
Mixed == Compare("EQ", "INT32", TNum, A)
Lost == Compare("LESS", "INT32", Nowhere, One)
Neither == Binary("logical", "AND", "BOOL", "BOOL", IsOne, True)

MCExpressions == {True, One, A, AB, TNum, TStr, UNum, UBool, Misread, Nowhere,
                  More, IsOne, IsA, SameNum, Mixed, Lost, Neither}

RECURSIVE MCDepth(_)
MCDepth(e) ==
    IF e.kind \in Operators THEN 1 + MCDepth(e.first) + MCDepth(e.second) ELSE 0

JoinU == <<[what |-> U, on |-> SameNum]>>
QueryOf(from, where, joins) ==
    [op |-> "query", from |-> from, where |-> where, joins |-> joins]
MCQueries ==
    {QueryOf(T, True, <<>>), QueryOf(T, IsOne, <<>>), QueryOf(T, IsA, <<>>),
     QueryOf(T, Lost, <<>>), QueryOf(T, Neither, <<>>),
     QueryOf(T, UBool, JoinU), QueryOf(U, True, <<[what |-> T, on |-> SameNum]>>),
     QueryOf(T, True, <<[what |-> Unheard, on |-> True]>>),
     QueryOf(Unheard, True, <<>>)}

Ins(into, of, values) ==
    [op |-> "insert", into |-> into, columns |-> MCSchema[of], values |-> values]
MCInserts ==
    {Ins(T, T, <<<<<<1>>, <<0>>>>, <<<<1, 2>>, <<1>>>>>>), Ins(T, T, <<<<<<3>>, <<1>>>>>>),
     Ins(U, U, <<<<<<1>>, <<1>>>>>>), Ins(U, U, <<<<<<0>>, <<0>>>>>>),
     Ins(U, T, <<<<<<2>>, <<1>>>>>>), Ins(Unheard, U, <<<<<<0>>, <<1>>>>>>)}

Upd(set, where) == [op |-> "update", what |-> T, set |-> set, where |-> where]
Set(n, e) == [name |-> n, expression |-> e]
MCUpdates ==
    {Upd(<<Set(<<1>>, More), Set(<<2>>, A)>>, IsOne),
     Upd(<<Set(<<1>>, More), Set(<<9>>, One)>>, True),
     Upd(<<Set(<<1>>, More)>>, Mixed),
     Upd(<<Set(<<2>>, AB)>>, IsA), Upd(<<Set(<<2>>, TNum)>>, True),
     Upd(<<Set(<<1>>, Misread)>>, True)}

Del(from, where) == [op |-> "delete", from |-> from, where |-> where]
MCDeletes == {Del(T, IsOne), Del(U, True), Del(Unheard, True)}
MCCatalogues == {[op |-> "create"], [op |-> "drop"]}
MCMaxRows == T :> 3 @@ U :> 1
=============================================================================
