-------------------------- MODULE StatementsProofs --------------------------
(***************************************************************************)
(* Proofs about Statements, for all tables, statements and records.        *)
(*                                                                         *)
(* The answer to a query is a recursive function over the main table, and  *)
(* a joined record one over the joins.  The first part shows that these    *)
(* functions exist, by taking the least number for which one would not;    *)
(* the second that a record the code could join is the one the answer      *)
(* asks for, and that a look ahead finds the next record of the answer;    *)
(* the third the inductive invariant IInv and the steps: these three hold  *)
(* for whatever record_deserialize and predicate_apply give.  The fourth   *)
(* part is about what they give: a record of its schema's types is read    *)
(* back from its cells as it was written, a typed expression gives a value *)
(* of its type, and so every item that is stored can be read (RInv).       *)
(***************************************************************************)
EXTENDS Statements, SequenceTheorems, WellFoundedInduction, TLAPS

Below == {ss \in Nat \X Nat : ss[1] < ss[2]}

LEMMA LeastOf ==
    ASSUME NEW T \in SUBSET Nat, T # {}
    PROVE  \E n \in T : \A m \in T : n <= m
<1>1. IsWellFoundedOn(Below, Nat)
  BY NatLessThanWellFounded DEF OpToRel, Below
<1>2. PICK n \in T : \A m \in T : <<m, n>> \notin Below
  BY <1>1, WFMin
<1>3. \A m \in T : ~(m < n)
  BY <1>2 DEF Below
<1> QED BY <1>2, <1>3

(* "First" is the least of a set of positions.                             *)
LEMMA FirstIsLeast ==
    ASSUME NEW ks \in SUBSET Nat, ks # {}
    PROVE  First(ks) \in ks /\ \A j \in ks : First(ks) <= j
  BY LeastOf DEF First

LEMMA FirstOfNone == First({}) = 0
  BY DEF First
-----------------------------------------------------------------------------
(* The recursive functions of the model exist: each is the one of which    *)
(* its equation holds.                                                     *)
JoinedStep(s, k, j, before) ==
    IF j = 0 THEN Row(s.from, k)
    ELSE WithPartner(before, Columns(s.from, s.joins, j), s.joins[j])
IsJoined(f, s, k, n) == f = [j \in 0 .. n |-> JoinedStep(s, k, j, f[j - 1])]

LEMMA JoinedExists ==
    ASSUME NEW s, NEW k, NEW n \in Nat
    PROVE  \E f : IsJoined(f, s, k, n)
<1> DEFINE T == {m \in Nat : ~\E f : IsJoined(f, s, k, m)}
<1> SUFFICES ASSUME T # {} PROVE FALSE
  OBVIOUS
<1>1. PICK m \in T : \A i \in T : m <= i
  BY LeastOf
<1>2. CASE m = 0
  <2>1. IsJoined([j \in 0 .. 0 |-> Row(s.from, k)], s, k, 0)
    BY DEF IsJoined, JoinedStep
  <2> QED BY <1>1, <1>2, <2>1
<1>3. CASE m > 0
  <2>1. PICK f : IsJoined(f, s, k, m - 1)
    BY <1>1, <1>3
  <2> DEFINE g == [j \in 0 .. m |-> IF j = m THEN JoinedStep(s, k, m, f[m - 1]) ELSE f[j]]
  <2>2. \A j \in 0 .. m : g[j] = JoinedStep(s, k, j, g[j - 1])
    <3> SUFFICES ASSUME NEW j \in 0 .. m PROVE g[j] = JoinedStep(s, k, j, g[j - 1])
      OBVIOUS
    <3>1. CASE j = m
      BY <1>3, <3>1
    <3>2. CASE j = 0
      BY <1>3, <2>1, <3>2 DEF IsJoined, JoinedStep
    <3>3. CASE j # m /\ j # 0
      <4>1. j \in 0 .. m - 1 /\ g[j] = f[j] /\ g[j - 1] = f[j - 1]
        BY <1>3, <3>3
      <4> QED BY <2>1, <4>1 DEF IsJoined
    <3> QED BY <3>1, <3>2, <3>3
  <2>3. g = [j \in 0 .. m |-> JoinedStep(s, k, j, g[j - 1])]
    BY <2>2
  <2>4. IsJoined(g, s, k, m)
    BY <2>3 DEF IsJoined
  <2> QED BY <1>1, <2>4
<1> QED BY <1>1, <1>2, <1>3

LEMMA JoinedEquation ==
    ASSUME NEW s, NEW k, Len(s.joins) \in Nat
    PROVE  \E f : IsJoined(f, s, k, Len(s.joins)) /\ Joined(s, k) = f[Len(s.joins)]
<1> DEFINE f == CHOOSE g : g = [j \in 0 .. Len(s.joins) |->
                  IF j = 0 THEN Row(s.from, k)
                  ELSE WithPartner(g[j - 1], Columns(s.from, s.joins, j), s.joins[j])]
<1>1. Joined(s, k) = f[Len(s.joins)]
  BY DEF Joined
<1>2. \E g : IsJoined(g, s, k, Len(s.joins))
  BY JoinedExists
<1>3. IsJoined(f, s, k, Len(s.joins))
  BY <1>2 DEF IsJoined, JoinedStep
<1> QED BY <1>1, <1>3

ChainStep(all, s, k, j, before) ==
    IF j = 0 THEN RowOf(s.from, all[s.from][k]).value
    ELSE FirstPartner(all, s, j, before)
IsChain(f, all, s, k, n) == f = [j \in 0 .. n |-> ChainStep(all, s, k, j, f[j - 1])]

LEMMA ChainExists ==
    ASSUME NEW all, NEW s, NEW k, NEW n \in Nat
    PROVE  \E f : IsChain(f, all, s, k, n)
<1> DEFINE T == {m \in Nat : ~\E f : IsChain(f, all, s, k, m)}
<1> SUFFICES ASSUME T # {} PROVE FALSE
  OBVIOUS
<1>1. PICK m \in T : \A i \in T : m <= i
  BY LeastOf
<1>2. CASE m = 0
  <2>1. IsChain([j \in 0 .. 0 |-> RowOf(s.from, all[s.from][k]).value], all, s, k, 0)
    BY DEF IsChain, ChainStep
  <2> QED BY <1>1, <1>2, <2>1
<1>3. CASE m > 0
  <2>1. PICK f : IsChain(f, all, s, k, m - 1)
    BY <1>1, <1>3
  <2> DEFINE g == [j \in 0 .. m |-> IF j = m THEN ChainStep(all, s, k, m, f[m - 1]) ELSE f[j]]
  <2>2. \A j \in 0 .. m : g[j] = ChainStep(all, s, k, j, g[j - 1])
    <3> SUFFICES ASSUME NEW j \in 0 .. m PROVE g[j] = ChainStep(all, s, k, j, g[j - 1])
      OBVIOUS
    <3>1. CASE j = m
      BY <1>3, <3>1
    <3>2. CASE j = 0
      BY <1>3, <2>1, <3>2 DEF IsChain, ChainStep
    <3>3. CASE j # m /\ j # 0
      <4>1. j \in 0 .. m - 1 /\ g[j] = f[j] /\ g[j - 1] = f[j - 1]
        BY <1>3, <3>3
      <4> QED BY <2>1, <4>1 DEF IsChain
    <3> QED BY <3>1, <3>2, <3>3
  <2>3. g = [j \in 0 .. m |-> ChainStep(all, s, k, j, g[j - 1])]
    BY <2>2
  <2>4. IsChain(g, all, s, k, m)
    BY <2>3 DEF IsChain
  <2> QED BY <1>1, <2>4
<1> QED BY <1>1, <1>2, <1>3

LEMMA ChainEquation ==
    ASSUME NEW all, NEW s, NEW k, Len(s.joins) \in Nat
    PROVE  \E f : IsChain(f, all, s, k, Len(s.joins)) /\ Chain(all, s, k) = f[Len(s.joins)]
<1> DEFINE f == CHOOSE g : g = [j \in 0 .. Len(s.joins) |->
                  IF j = 0 THEN RowOf(s.from, all[s.from][k]).value
                  ELSE FirstPartner(all, s, j, g[j - 1])]
<1>1. Chain(all, s, k) = f[Len(s.joins)]
  BY DEF Chain
<1>2. \E g : IsChain(g, all, s, k, Len(s.joins))
  BY ChainExists
<1>3. IsChain(f, all, s, k, Len(s.joins))
  BY <1>2 DEF IsChain, ChainStep
<1> QED BY <1>1, <1>3

AnswersStep(all, s, j, before) ==
    IF j = 0 THEN <<>>
    ELSE IF Holds(all, s, j) THEN Append(before, Chain(all, s, j)) ELSE before
IsAnswers(f, all, s, n) == f = [j \in 0 .. n |-> AnswersStep(all, s, j, f[j - 1])]

LEMMA AnswersExists ==
    ASSUME NEW all, NEW s, NEW n \in Nat
    PROVE  \E f : IsAnswers(f, all, s, n)
<1> DEFINE T == {m \in Nat : ~\E f : IsAnswers(f, all, s, m)}
<1> SUFFICES ASSUME T # {} PROVE FALSE
  OBVIOUS
<1>1. PICK m \in T : \A i \in T : m <= i
  BY LeastOf
<1>2. CASE m = 0
  <2>1. IsAnswers([j \in 0 .. 0 |-> <<>>], all, s, 0)
    BY DEF IsAnswers, AnswersStep
  <2> QED BY <1>1, <1>2, <2>1
<1>3. CASE m > 0
  <2>1. PICK f : IsAnswers(f, all, s, m - 1)
    BY <1>1, <1>3
  <2> DEFINE g == [j \in 0 .. m |-> IF j = m THEN AnswersStep(all, s, m, f[m - 1]) ELSE f[j]]
  <2>2. \A j \in 0 .. m : g[j] = AnswersStep(all, s, j, g[j - 1])
    <3> SUFFICES ASSUME NEW j \in 0 .. m PROVE g[j] = AnswersStep(all, s, j, g[j - 1])
      OBVIOUS
    <3>1. CASE j = m
      BY <1>3, <3>1
    <3>2. CASE j = 0
      BY <1>3, <2>1, <3>2 DEF IsAnswers, AnswersStep
    <3>3. CASE j # m /\ j # 0
      <4>1. j \in 0 .. m - 1 /\ g[j] = f[j] /\ g[j - 1] = f[j - 1]
        BY <1>3, <3>3
      <4> QED BY <2>1, <4>1 DEF IsAnswers
    <3> QED BY <3>1, <3>2, <3>3
  <2>3. g = [j \in 0 .. m |-> AnswersStep(all, s, j, g[j - 1])]
    BY <2>2
  <2>4. IsAnswers(g, all, s, m)
    BY <2>3 DEF IsAnswers
  <2> QED BY <1>1, <2>4
<1> QED BY <1>1, <1>2, <1>3

LEMMA AnswersEquation ==
    ASSUME NEW all, NEW s, NEW n \in Nat
    PROVE  \E f : IsAnswers(f, all, s, n) /\ Answers(all, s, n) = f[n]
<1> DEFINE f == CHOOSE g : g = [k \in 0 .. n |->
                  IF k = 0 THEN <<>>
                  ELSE IF Holds(all, s, k) THEN Append(g[k - 1], Chain(all, s, k))
                  ELSE g[k - 1]]
<1>1. Answers(all, s, n) = f[n]
  BY DEF Answers
<1>2. \E g : IsAnswers(g, all, s, n)
  BY AnswersExists
<1>3. IsAnswers(f, all, s, n)
  BY <1>2 DEF IsAnswers, AnswersStep
<1> QED BY <1>1, <1>3

KeptStep(items, keep, j, before) ==
    IF j = 0 THEN <<>>
    ELSE IF j \in keep THEN Append(before, items[j]) ELSE before
IsKept(f, items, keep, n) == f = [j \in 0 .. n |-> KeptStep(items, keep, j, f[j - 1])]

LEMMA KeptExists ==
    ASSUME NEW items, NEW keep, NEW n \in Nat
    PROVE  \E f : IsKept(f, items, keep, n)
<1> DEFINE T == {m \in Nat : ~\E f : IsKept(f, items, keep, m)}
<1> SUFFICES ASSUME T # {} PROVE FALSE
  OBVIOUS
<1>1. PICK m \in T : \A i \in T : m <= i
  BY LeastOf
<1>2. CASE m = 0
  <2>1. IsKept([j \in 0 .. 0 |-> <<>>], items, keep, 0)
    BY DEF IsKept, KeptStep
  <2> QED BY <1>1, <1>2, <2>1
<1>3. CASE m > 0
  <2>1. PICK f : IsKept(f, items, keep, m - 1)
    BY <1>1, <1>3
  <2> DEFINE g == [j \in 0 .. m |-> IF j = m THEN KeptStep(items, keep, m, f[m - 1]) ELSE f[j]]
  <2>2. \A j \in 0 .. m : g[j] = KeptStep(items, keep, j, g[j - 1])
    <3> SUFFICES ASSUME NEW j \in 0 .. m PROVE g[j] = KeptStep(items, keep, j, g[j - 1])
      OBVIOUS
    <3>1. CASE j = m
      BY <1>3, <3>1
    <3>2. CASE j = 0
      BY <1>3, <2>1, <3>2 DEF IsKept, KeptStep
    <3>3. CASE j # m /\ j # 0
      <4>1. j \in 0 .. m - 1 /\ g[j] = f[j] /\ g[j - 1] = f[j - 1]
        BY <1>3, <3>3
      <4> QED BY <2>1, <4>1 DEF IsKept
    <3> QED BY <3>1, <3>2, <3>3
  <2>3. g = [j \in 0 .. m |-> KeptStep(items, keep, j, g[j - 1])]
    BY <2>2
  <2>4. IsKept(g, items, keep, m)
    BY <2>3 DEF IsKept
  <2> QED BY <1>1, <2>4
<1> QED BY <1>1, <1>2, <1>3

LEMMA KeptEquation ==
    ASSUME NEW items, NEW keep, Len(items) \in Nat
    PROVE  \E f : IsKept(f, items, keep, Len(items)) /\ Kept(items, keep) = f[Len(items)]
<1> DEFINE f == CHOOSE g : g = [k \in 0 .. Len(items) |->
                  IF k = 0 THEN <<>>
                  ELSE IF k \in keep THEN Append(g[k - 1], items[k]) ELSE g[k - 1]]
<1>1. Kept(items, keep) = f[Len(items)]
  BY DEF Kept
<1>2. \E g : IsKept(g, items, keep, Len(items))
  BY KeptExists
<1>3. IsKept(f, items, keep, Len(items))
  BY <1>2 DEF IsKept, KeptStep
<1> QED BY <1>1, <1>3
-----------------------------------------------------------------------------
(* The tables hold sequences of items.                                     *)
ItemsOf(items) == {items[k] : k \in DOMAIN items}
IsList(items) == items \in Seq(ItemsOf(items))
RowsListed == \A t \in Tables : IsList(rows[t])

LEMMA ListFacts ==
    ASSUME NEW items, IsList(items)
    PROVE  Len(items) \in Nat /\ DOMAIN items = 1 .. Len(items)
  BY LenProperties DEF IsList

LEMMA FirstIs ==
    ASSUME NEW ks \in SUBSET Nat, NEW k \in ks, \A j \in ks : ~(j < k)
    PROVE  First(ks) = k
<1>1. First(ks) \in ks /\ First(ks) <= k
  BY FirstIsLeast
<1>2. First(ks) \in Nat /\ k \in Nat /\ ~(First(ks) < k)
  BY <1>1
<1> QED BY <1>1, <1>2

(* table_manager_find_one stops at the first record that holds or cannot   *)
(* be read or judged; what it finds is the first one that holds.           *)
HoldsWith(columns, record, what, on, i) ==
    IsTrue(predicate_apply(columns, record \o Row(what, i).value, on).value)

LEMMA TriedFacts ==
    ASSUME NEW columns, NEW record, NEW row, NEW on,
           ~Failed(Tried(columns, record, row, on))
    PROVE  /\ Tried(columns, record, row, on).value = record \o row.value
           /\ Tried(columns, record, row, on).holds =
                 IsTrue(predicate_apply(columns, record \o row.value, on).value)
  BY DEF Tried, Tested, Failed

LEMMA FindOneFacts ==
    ASSUME NEW columns, NEW record, NEW what, NEW on, IsList(rows[what]),
           ~Failed(find_one(columns, record, what, on))
    PROVE  find_one(columns, record, what, on).value =
             record \o Row(what, First({i \in DOMAIN rows[what] :
                                          HoldsWith(columns, record, what, on, i)})).value
<1> DEFINE tried == [k \in DOMAIN rows[what] |-> Tried(columns, record, Row(what, k), on)]
           K == {k \in DOMAIN tried : Failed(tried[k]) \/ tried[k].holds}
           H == {i \in DOMAIN rows[what] : HoldsWith(columns, record, what, on, i)}
<1>1. find_one(columns, record, what, on) = FirstOf(tried, First(K))
  BY DEF find_one, FirstTried
<1>2. DOMAIN rows[what] = 1 .. Len(rows[what]) /\ Len(rows[what]) \in Nat
  BY ListFacts
<1>3. K \in SUBSET Nat /\ H \in SUBSET Nat
  BY <1>2
<1>4. First(K) # 0
  BY <1>1 DEF FirstOf, Failed, Error
<1>5. K # {}
  BY <1>4, FirstOfNone
<1> DEFINE k == First(K)
<1>6. k \in K /\ \A j \in K : k <= j
  BY <1>3, <1>5, FirstIsLeast
<1>7. find_one(columns, record, what, on) = tried[k]
  BY <1>1, <1>4 DEF FirstOf
<1>8. k \in DOMAIN rows[what] /\ tried[k] = Tried(columns, record, Row(what, k), on)
  BY <1>6
<1> HIDE DEF k
<1>9. tried[k].value = record \o Row(what, k).value /\ k \in H
  BY <1>6, <1>7, <1>8, TriedFacts DEF HoldsWith
<1>10. \A j \in H : ~(j < k)
  <2> SUFFICES ASSUME NEW j \in H, j < k PROVE FALSE
    OBVIOUS
  <2>1. j < k
    OBVIOUS
  <2>2. j \notin K
    <3>1. j \in Nat /\ k \in Nat
      BY <1>2, <1>6
    <3> HIDE DEF K
    <3> QED BY <1>6, <2>1, <3>1
  <2>3. /\ ~Failed(Tried(columns, record, Row(what, j), on))
        /\ ~Tried(columns, record, Row(what, j), on).holds
    BY <2>2
  <2> QED BY <2>3, TriedFacts DEF HoldsWith
<1>11. First(H) = k
  <2> HIDE DEF H
  <2> QED BY <1>3, <1>9, <1>10, FirstIs
<1> QED BY <1>7, <1>9, <1>11

(* A record that could be joined is the main record with the first partner *)
(* in every joined table.                                                  *)
LEMMA JoinedIsChain ==
    ASSUME NEW s, NEW k, Len(s.joins) \in Nat,
           \A j \in 1 .. Len(s.joins) : s.joins[j].what \in Tables,
           RowsListed, ~Failed(Joined(s, k))
    PROVE  Joined(s, k).value = Chain(rows, s, k)
<1> DEFINE n == Len(s.joins)
<1>1. PICK f : IsJoined(f, s, k, n) /\ Joined(s, k) = f[n]
  BY JoinedEquation
<1>2. PICK g : IsChain(g, rows, s, k, n) /\ Chain(rows, s, k) = g[n]
  BY ChainEquation
<1>3. \A j \in 0 .. n : /\ f[j] = JoinedStep(s, k, j, f[j - 1])
                        /\ g[j] = ChainStep(rows, s, k, j, g[j - 1])
  BY <1>1, <1>2 DEF IsJoined, IsChain
<1>4. ASSUME NEW j \in 1 .. n, ~Failed(f[j]), ~Failed(f[j - 1]) => f[j - 1].value = g[j - 1]
      PROVE  ~Failed(f[j - 1]) /\ f[j].value = g[j]
  <2> DEFINE columns == Columns(s.from, s.joins, j)
             join == s.joins[j]
  <2>1. f[j] = WithPartner(f[j - 1], columns, join)
    BY <1>3, <1>4 DEF JoinedStep
  <2>2. ~Failed(f[j - 1]) /\ f[j] = find_one(columns, g[j - 1], join.what, join.on)
    BY <1>4, <2>1 DEF WithPartner
  <2>3. g[j] = FirstPartner(rows, s, j, g[j - 1])
    BY <1>3, <1>4 DEF ChainStep
  <2>4. f[j].value = g[j - 1] \o Row(join.what, First({i \in DOMAIN rows[join.what] :
                        HoldsWith(columns, g[j - 1], join.what, join.on, i)})).value
    <3>1. IsList(rows[join.what])
      BY DEF RowsListed
    <3>2. ~Failed(find_one(columns, g[j - 1], join.what, join.on))
      BY <1>4, <2>2
    <3> HIDE DEF columns, join
    <3> DEFINE partner == Row(join.what, First({i \in DOMAIN rows[join.what] :
                              HoldsWith(columns, g[j - 1], join.what, join.on, i)})).value
    <3>3. find_one(columns, g[j - 1], join.what, join.on).value = g[j - 1] \o partner
      BY <3>1, <3>2, FindOneFacts, Zenon
    <3> HIDE DEF partner
    <3>4. f[j].value = g[j - 1] \o partner
      BY <2>2, <3>3
    <3> QED BY <3>4 DEF partner
  <2> QED BY <2>2, <2>3, <2>4 DEF FirstPartner, HoldsWith, Row, Item
<1> DEFINE T == {j \in 0 .. n : ~Failed(f[j]) /\ f[j].value # g[j]}
<1>5. T = {}
  <2> SUFFICES ASSUME T # {} PROVE FALSE
    OBVIOUS
  <2>1. T \in SUBSET Nat
    OBVIOUS
  <2>2. PICK j \in T : \A i \in T : j <= i
    <3> HIDE DEF T
    <3> QED BY <2>1, LeastOf
  <2>3. CASE j = 0
    BY <1>3, <2>2, <2>3 DEF JoinedStep, ChainStep, Row, Item
  <2>4. CASE j # 0
    <3>1. j \in 1 .. n /\ j - 1 \in 0 .. n /\ j - 1 \notin T
      <4>1. j \in 0 .. n /\ n \in Nat
        BY <2>2
      <4>2. j \in 1 .. n /\ j - 1 \in 0 .. n /\ ~(j <= j - 1)
        BY <2>4, <4>1
      <4> HIDE DEF T
      <4> QED BY <2>2, <4>2
    <3> QED BY <1>4, <2>2, <3>1
  <2> QED BY <2>3, <2>4
<1> QED BY <1>1, <1>2, <1>5
-----------------------------------------------------------------------------
(* The answers up to the n-th record, one more record at a time.           *)
LEMMA AnswersAgree ==
    ASSUME NEW all, NEW s, NEW n \in Nat, NEW m \in Nat, n <= m,
           NEW f, IsAnswers(f, all, s, n), NEW g, IsAnswers(g, all, s, m)
    PROVE  \A k \in 0 .. n : f[k] = g[k]
<1>1. \A k \in 0 .. n : /\ f[k] = AnswersStep(all, s, k, f[k - 1])
                        /\ g[k] = AnswersStep(all, s, k, g[k - 1])
  BY DEF IsAnswers
<1> DEFINE T == {k \in 0 .. n : f[k] # g[k]}
<1>2. T = {}
  <2> SUFFICES ASSUME T # {} PROVE FALSE
    OBVIOUS
  <2>1. T \in SUBSET Nat
    OBVIOUS
  <2>2. PICK k \in T : \A i \in T : k <= i
    <3> HIDE DEF T
    <3> QED BY <2>1, LeastOf
  <2>3. CASE k = 0
    BY <1>1, <2>2, <2>3 DEF AnswersStep
  <2>4. CASE k # 0
    <3>1. k \in 0 .. n /\ k - 1 \in 0 .. n /\ ~(k <= k - 1)
      BY <2>2, <2>4
    <3>2. f[k - 1] = g[k - 1]
      BY <2>2, <3>1
    <3> QED BY <1>1, <2>2, <3>1, <3>2
  <2> QED BY <2>3, <2>4
<1> QED BY <1>2

LEMMA AnswersNext ==
    ASSUME NEW all, NEW s, NEW n \in Nat
    PROVE  Answers(all, s, n + 1) =
             IF Holds(all, s, n + 1) THEN Append(Answers(all, s, n), Chain(all, s, n + 1))
             ELSE Answers(all, s, n)
<1>1. PICK f : IsAnswers(f, all, s, n) /\ Answers(all, s, n) = f[n]
  BY AnswersEquation
<1>2. PICK g : IsAnswers(g, all, s, n + 1) /\ Answers(all, s, n + 1) = g[n + 1]
  BY AnswersEquation
<1>3. f[n] = g[n]
  BY <1>1, <1>2, AnswersAgree
<1>4. g[n + 1] = AnswersStep(all, s, n + 1, g[n])
  BY <1>2 DEF IsAnswers
<1> QED BY <1>1, <1>2, <1>3, <1>4 DEF AnswersStep

LEMMA AnswersNone ==
    ASSUME NEW all, NEW s
    PROVE  Answers(all, s, 0) = <<>>
  BY AnswersEquation DEF IsAnswers, AnswersStep

Chains(all, s) == {Chain(all, s, k) : k \in Nat}

LEMMA AnswersListed ==
    ASSUME NEW all, NEW s, NEW n \in Nat
    PROVE  Answers(all, s, n) \in Seq(Chains(all, s))
<1> DEFINE T == {k \in Nat : Answers(all, s, k) \notin Seq(Chains(all, s))}
<1> SUFFICES ASSUME T # {} PROVE FALSE
  OBVIOUS
<1>1. PICK k \in T : \A i \in T : k <= i
  BY LeastOf
<1>2. CASE k = 0
  BY <1>1, <1>2, AnswersNone, EmptySeq
<1>3. CASE k # 0
  <2> DEFINE i == k - 1
  <2>1. i \in Nat /\ k = i + 1 /\ i \notin T
    BY <1>1, <1>3
  <2>2. Answers(all, s, i) \in Seq(Chains(all, s)) /\ Chain(all, s, k) \in Chains(all, s)
    BY <2>1 DEF Chains
  <2>3. Answers(all, s, k) \in {Answers(all, s, i), Append(Answers(all, s, i), Chain(all, s, k))}
    BY <2>1, AnswersNext
  <2> QED BY <1>1, <2>2, <2>3, AppendProperties
<1> QED BY <1>2, <1>3

LEMMA AnswersSkip ==
    ASSUME NEW all, NEW s, NEW n \in Nat, NEW m \in Nat, n <= m,
           \A k \in n + 1 .. m : ~Holds(all, s, k)
    PROVE  Answers(all, s, m) = Answers(all, s, n)
<1> DEFINE T == {k \in n .. m : Answers(all, s, k) # Answers(all, s, n)}
<1> SUFFICES ASSUME T # {} PROVE FALSE
  OBVIOUS
<1>1. PICK k \in T : \A i \in T : k <= i
  <2>1. T \in SUBSET Nat
    OBVIOUS
  <2> HIDE DEF T
  <2> QED BY <2>1, LeastOf
<1>2. k \in n + 1 .. m /\ k - 1 \in n .. m /\ k - 1 \in Nat /\ ~(k <= k - 1) /\ k = (k - 1) + 1
  BY <1>1
<1>3. Answers(all, s, k - 1) = Answers(all, s, n)
  BY <1>1, <1>2
<1>4. Answers(all, s, k) = Answers(all, s, k - 1)
  BY <1>2, AnswersNext
<1> QED BY <1>1, <1>3, <1>4
-----------------------------------------------------------------------------
(* What the look ahead finds.                                              *)
JudgedAt(s, k) == Judged(s, Joined(s, k))

LEMMA JudgedFacts ==
    ASSUME NEW s, NEW k, s \in Queries, Known(s), RowsListed, ~Failed(JudgedAt(s, k))
    PROVE  /\ JudgedAt(s, k).value = Chain(rows, s, k)
           /\ JudgedAt(s, k).holds = Holds(rows, s, k)
<1> DEFINE record == Joined(s, k)
           holds == predicate_apply(Columns(s.from, s.joins, Len(s.joins)),
                                    record.value, s.where)
<1>1. ~Failed(record) /\ JudgedAt(s, k) = Tested(record.value, holds)
  BY DEF JudgedAt, Judged
<1>2. record.value = Chain(rows, s, k)
  BY <1>1, JoinedIsChain, StatementsAssumption DEF Known
<1>3. JudgedAt(s, k).value = record.value /\ JudgedAt(s, k).holds = IsTrue(holds.value)
  BY <1>1 DEF Tested, Failed
<1> QED BY <1>2, <1>3 DEF Holds

Sees(s, after, last, ahead) ==
    \/ /\ ahead.found = "end" /\ ahead.at = last
       /\ \A k \in after + 1 .. last : ~Holds(rows, s, k)
    \/ /\ ahead.found = "row" /\ ahead.at \in after + 1 .. last
       /\ Holds(rows, s, ahead.at) /\ ahead.record = Chain(rows, s, ahead.at)
       /\ \A k \in after + 1 .. ahead.at - 1 : ~Holds(rows, s, k)
    \/ ahead.found = "error"

LEMMA LookAheadFacts ==
    ASSUME NEW s \in Queries, Known(s), RowsListed, NEW after \in Nat, NEW end
    PROVE  Sees(s, after, Len(rows[s.from]), LookAhead(s, after, end))
<1> DEFINE last == Len(rows[s.from])
           judged == [k \in after + 1 .. last |-> Judged(s, Joined(s, k))]
           K == {k \in DOMAIN judged : k = end \/ Failed(judged[k]) \/ judged[k].holds}
           k == First(K)
           ahead == LookAhead(s, after, end)
<1>1. last \in Nat
  BY ListFacts DEF Known, RowsListed
<1>2. ahead = Found(judged, k, end, last)
  BY DEF LookAhead, Ahead
<1>3. K \in SUBSET Nat /\ 0 \notin K
  BY <1>1
<1>4. \A j \in after + 1 .. last : judged[j] = JudgedAt(s, j)
  BY DEF JudgedAt
<1>5. \A j \in after + 1 .. last : j \notin K => ~Holds(rows, s, j)
  <2> SUFFICES ASSUME NEW j \in after + 1 .. last, j \notin K PROVE ~Holds(rows, s, j)
    OBVIOUS
  <2>1. ~Failed(JudgedAt(s, j)) /\ ~JudgedAt(s, j).holds
    BY <1>4
  <2> QED BY <2>1, JudgedFacts
<1>6. CASE K = {}
  <2>1. k = 0
    BY <1>6, FirstOfNone
  <2> HIDE DEF K, k, ahead, judged, last
  <2>2. ahead.found = "end" /\ ahead.at = last
    BY <1>2, <2>1 DEF Found
  <2> QED BY <1>5, <1>6, <2>2 DEF Sees, ahead, k, judged, last
<1>7. CASE K # {}
  <2>1. k \in K /\ (\A j \in K : k <= j) /\ k # 0
    <3> HIDE DEF K
    <3> QED BY <1>3, <1>7, FirstIsLeast
  <2> HIDE DEF k
  <2>2. CASE k = end \/ Failed(judged[k])
    BY <1>2, <2>1, <2>2 DEF Found, Sees
  <2>3. CASE ~(k = end \/ Failed(judged[k]))
    <3>1. k \in after + 1 .. last
      BY <2>1
    <3>2. ~Failed(JudgedAt(s, k)) /\ JudgedAt(s, k).holds
      BY <1>4, <2>1, <2>3, <3>1
    <3>3. ahead.found = "row" /\ ahead.at = k /\ ahead.record = JudgedAt(s, k).value
      <4>1. judged[k] = JudgedAt(s, k)
        BY <1>4, <3>1
      <4> HIDE DEF judged, ahead
      <4> QED BY <1>2, <2>1, <2>3, <4>1 DEF Found
    <3>4. \A j \in after + 1 .. k - 1 : ~Holds(rows, s, j)
      <4> SUFFICES ASSUME NEW j \in after + 1 .. k - 1 PROVE ~Holds(rows, s, j)
        OBVIOUS
      <4>1. j \in after + 1 .. last /\ ~(k <= j)
        BY <1>1, <3>1
      <4> QED BY <1>5, <2>1, <4>1
    <3>5. Holds(rows, s, k) /\ ahead.record = Chain(rows, s, k)
      BY <3>2, <3>3, JudgedFacts
    <3> HIDE DEF ahead
    <3> QED BY <3>1, <3>3, <3>4, <3>5 DEF Sees, ahead
  <2> QED BY <2>2, <2>3
<1> QED BY <1>6, <1>7
-----------------------------------------------------------------------------
IsView(v) ==
    /\ v = [holders |-> v.holders, handed |-> v.handed, at |-> v.at,
            is_empty |-> v.is_empty, failed |-> v.failed]
    /\ DOMAIN v.holders = {1, 2} /\ v.holders = [h \in {1, 2} |-> v.holders[h]]
    /\ v.handed \in {1, 2}
    /\ v.is_empty \in BOOLEAN /\ v.failed \in BOOLEAN

LEMMA ViewFacts ==
    /\ IsView(NewView) /\ NewView.handed = 1 /\ NewView.at = 0
    /\ NoView.handed = 0
    /\ \A v : IsView(v) => v # NoView
  BY DEF IsView, NewView, NoView

(* record_view_next changes the holders and fills the one not handed out.  *)
LEMMA NextFacts ==
    ASSUME NEW s \in Queries, NEW v, NEW end, IsView(v)
    PROVE  LET ahead == LookAhead(s, v.at, end)
               w == record_view_next(s, v, end)
           IN  /\ IsView(w)
               /\ w.handed = 3 - v.handed
               /\ w.at = ahead.at
               /\ w.is_empty = (ahead.found = "end") /\ w.failed = (ahead.found = "error")
               /\ w.holders[3 - w.handed] = ahead.record
               /\ w.holders[w.handed] = v.holders[w.handed]
<1> DEFINE ahead == LookAhead(s, v.at, end)
           w == record_view_next(s, v, end)
<1> HIDE DEF ahead
<1>1. w = [holders |-> [v.holders EXCEPT ![v.handed] = ahead.record],
           handed |-> 3 - v.handed, at |-> ahead.at,
           is_empty |-> ahead.found = "end", failed |-> ahead.found = "error"]
  BY DEF record_view_next, Filled, ahead
<1>2. v.handed = 1 \/ v.handed = 2
  BY DEF IsView
<1>3. /\ w.handed = 3 - v.handed /\ w.at = ahead.at
      /\ w.is_empty = (ahead.found = "end") /\ w.failed = (ahead.found = "error")
      /\ w = [holders |-> w.holders, handed |-> w.handed, at |-> w.at,
              is_empty |-> w.is_empty, failed |-> w.failed]
      /\ w.holders = [v.holders EXCEPT ![v.handed] = ahead.record]
  BY <1>1
<1> HIDE DEF w
<1>4. /\ DOMAIN w.holders = {1, 2}
      /\ w.holders = [h \in {1, 2} |-> w.holders[h]]
      /\ w.holders[v.handed] = ahead.record
      /\ \A h \in {1, 2} : h # v.handed => w.holders[h] = v.holders[h]
  <2>1. DOMAIN v.holders = {1, 2} /\ v.handed \in {1, 2}
    BY DEF IsView
  <2>2. w.holders = [h \in {1, 2} |-> IF h = v.handed THEN ahead.record ELSE v.holders[h]]
    BY <1>3, <2>1
  <2> QED BY <2>1, <2>2
<1>5. w.handed \in {1, 2} /\ w.handed # v.handed /\ 3 - w.handed = v.handed
  BY <1>2, <1>3
<1>6. IsView(w)
  <2>1. w.is_empty \in BOOLEAN /\ w.failed \in BOOLEAN
    BY <1>3
  <2> QED BY <1>3, <1>4, <1>5, <2>1 DEF IsView
<1>7. w.holders[3 - w.handed] = ahead.record /\ w.holders[w.handed] = v.holders[w.handed]
  BY <1>4, <1>5
<1> QED BY <1>3, <1>6, <1>7 DEF w, ahead
-----------------------------------------------------------------------------
(* What is alive between two calls, but for the strings of records.        *)
Pieces == {"statement", "string", "result", "main", "joined", "lists", "view"}
Owned == live \ RecordStrings
OfStatement(s) == {"statement", "result"} \cup StringOf(s)
Allocated ==
    /\ current = None => Owned = {} /\ view = NoView
    /\ current # None /\ view # NoView =>
          Owned = OfStatement(current) \cup {"view"} \cup TablesFreed(current)
    /\ current # None /\ view = NoView =>
          IF current.op = "query"
          THEN Owned \in {OfStatement(current), OfStatement(current) \ StringOf(current)}
          ELSE Owned = OfStatement(current)
    /\ current # None =>
          ((view # NoView) = (current.op = "query" /\ successful))

LEMMA StringFacts ==
    ASSUME NEW s
    PROVE  StringOf(s) \in SUBSET {"string"}
  BY DEF StringOf

(* The strings of records are no other pieces, and nothing frees them.     *)
LEMMA RecordStringFacts ==
    /\ RecordStrings \cap Pieces = {}
    /\ \A s : NamesOf(s) \in SUBSET RecordStrings /\ ValuesOf(s) \in SUBSET RecordStrings
    /\ \A tables : \A fields \in FieldsOf(tables) : fields \in SUBSET RecordStrings
    /\ \A s : TablesFreed(s) \in SUBSET Pieces /\ StringOf(s) \in SUBSET Pieces
    /\ \A s : StatementFrees(s) = {"statement"} \cup StringOf(s)
    /\ \A s : ViewFrees(s) = {"view"} \cup StringOf(s)
BY DEF RecordStrings, Pieces, NamesOf, ValuesOf, FieldsOf, TablesFreed, StringOf,
       StatementFrees, ViewFrees, clear_record_value

LEMMA AllocatedFreed ==
    ASSUME Allocated
    PROVE  /\ Finished.live = live \cap RecordStrings
           /\ current = None => Finished.wrong = {}
           /\ current # None =>
                 Finished.wrong \in SUBSET (IF current.op = "query" THEN StringOf(current) ELSE {})
<1>1. CASE current = None
  BY <1>1 DEF Finished, Allocated, Owned
<1>2. CASE current # None
  <2> DEFINE first == StatementFrees(current)
             second == ResultFrees(current)
  <2>1. /\ Finished.live = live \ (first \cup second)
        /\ Finished.wrong = (first \ live) \cup (second \ (live \ first))
    BY <1>2 DEF Finished
  <2>2. first = {"statement"} \cup StringOf(current)
    BY RecordStringFacts
  <2>3. live = Owned \cup (live \cap RecordStrings)
    BY DEF Owned
  <2>4. CASE view # NoView
    <3>1. /\ Owned = OfStatement(current) \cup {"view"} \cup TablesFreed(current)
          /\ successful /\ current.op = "query"
      BY <1>2, <2>4 DEF Allocated
    <3>2. second = {"result", "view"} \cup StringOf(current) \cup TablesFreed(current)
      BY <3>1, RecordStringFacts DEF ResultFrees
    <3>3. "string" \notin TablesFreed(current) /\ "statement" \notin TablesFreed(current)
      BY DEF TablesFreed
    <3>4. (first \cup second) \cap RecordStrings = {} /\ Owned \subseteq first \cup second
      BY <2>2, <3>1, <3>2, RecordStringFacts DEF OfStatement, Pieces
    <3>5. Finished.wrong \in SUBSET StringOf(current)
      BY <2>1, <2>2, <2>3, <3>1, <3>2, <3>3, StringFacts DEF OfStatement
    <3> QED BY <1>2, <2>1, <2>3, <3>1, <3>4, <3>5
  <2>5. CASE view = NoView
    <3>1. /\ second = {"result"}
          /\ IF current.op = "query"
             THEN Owned \in {OfStatement(current), OfStatement(current) \ StringOf(current)}
             ELSE Owned = OfStatement(current)
      BY <1>2, <2>5 DEF Allocated, ResultFrees
    <3>2. (first \cup second) \cap RecordStrings = {} /\ Owned \subseteq first \cup second
      BY <2>2, <3>1, RecordStringFacts DEF OfStatement, Pieces
    <3>3. Finished.wrong \in SUBSET (IF current.op = "query" THEN StringOf(current) ELSE {})
      BY <2>1, <2>2, <2>3, <3>1, StringFacts DEF OfStatement
    <3> QED BY <1>2, <2>1, <2>3, <3>2, <3>3
  <2> QED BY <2>4, <2>5
<1> QED BY <1>1, <1>2

LEMMA BegunFacts ==
    ASSUME Allocated, NEW s
    PROVE  /\ Begun(s) \ RecordStrings = OfStatement(s)
           /\ Begun(s) \in SUBSET (Pieces \cup RecordStrings)
<1>1. Finished.live \in SUBSET RecordStrings
  BY AllocatedFreed
<1> QED BY <1>1, RecordStringFacts DEF Begun, OfStatement, Pieces

AllocatedWhileRight == wrong = {} => Allocated
-----------------------------------------------------------------------------
LEMMA SeqIsList ==
    ASSUME NEW S, NEW x \in Seq(S)
    PROVE  IsList(x)
<1>1. x \in [1 .. Len(x) -> S] /\ Len(x) \in Nat
  BY LenProperties
<1>2. x \in [1 .. Len(x) -> ItemsOf(x)]
  BY <1>1 DEF ItemsOf
<1> QED BY <1>1, <1>2, SeqDef DEF IsList

LEMMA FunctionIsList ==
    ASSUME NEW n \in Nat, NEW x, DOMAIN x = 1 .. n, x = [k \in 1 .. n |-> x[k]]
    PROVE  IsList(x) /\ Len(x) = n
<1>1. x \in [1 .. n -> ItemsOf(x)]
  BY DEF ItemsOf
<1>2. x \in Seq(ItemsOf(x))
  BY <1>1, SeqDef
<1>3. Len(x) = n
  BY <1>2, LenProperties
<1> QED BY <1>2, <1>3 DEF IsList

LEMMA ListsJoined ==
    ASSUME NEW x, NEW y, IsList(x), IsList(y)
    PROVE  IsList(x \o y) /\ Len(x \o y) = Len(x) + Len(y)
<1> DEFINE S == ItemsOf(x) \cup ItemsOf(y)
<1>1. x \in Seq(S) /\ y \in Seq(S)
  BY SeqMonotonic DEF IsList
<1> HIDE DEF S
<1>2. x \o y \in Seq(S) /\ Len(x \o y) = Len(x) + Len(y)
  BY <1>1, ConcatProperties
<1> QED BY <1>2, SeqIsList

(* What a delete keeps are some of the items.                              *)
LEMMA KeptFacts ==
    ASSUME NEW items, NEW keep, IsList(items)
    PROVE  /\ IsList(Kept(items, keep)) /\ Len(Kept(items, keep)) <= Len(items)
           /\ Kept(items, keep) \in Seq(ItemsOf(items))
<1> DEFINE n == Len(items)
           S == ItemsOf(items)
<1>1. n \in Nat /\ items \in Seq(S) /\ \A k \in 1 .. n : items[k] \in S
  BY ListFacts DEF IsList, ItemsOf
<1>2. PICK f : IsKept(f, items, keep, n) /\ Kept(items, keep) = f[n]
  BY <1>1, KeptEquation
<1> DEFINE Good(k) == f[k] \in Seq(S) /\ Len(f[k]) <= k
           T == {k \in 0 .. n : ~Good(k)}
<1>3. T = {}
  <2> SUFFICES ASSUME T # {} PROVE FALSE
    OBVIOUS
  <2>1. PICK k \in T : \A i \in T : k <= i
    <3>1. T \in SUBSET Nat
      OBVIOUS
    <3> HIDE DEF T
    <3> QED BY <3>1, LeastOf
  <2>2. k \in 0 .. n /\ ~Good(k)
    BY <2>1
  <2>3. f[k] = KeptStep(items, keep, k, f[k - 1])
    BY <1>2, <2>2 DEF IsKept
  <2>4. CASE k = 0
    <3>1. f[k] = <<>>
      BY <2>3, <2>4 DEF KeptStep
    <3> QED BY <2>2, <2>4, <3>1, EmptySeq
  <2>5. CASE k # 0
    <3>1. k - 1 \in 0 .. n /\ ~(k <= k - 1) /\ k \in 1 .. n
      BY <1>1, <2>2, <2>5
    <3>2. Good(k - 1)
      BY <2>1, <3>1
    <3>3. f[k] \in {f[k - 1], Append(f[k - 1], items[k])}
      BY <2>3, <2>5 DEF KeptStep
    <3>4. /\ Append(f[k - 1], items[k]) \in Seq(S)
          /\ Len(Append(f[k - 1], items[k])) = Len(f[k - 1]) + 1
      BY <1>1, <3>1, <3>2, AppendProperties
    <3>5. Len(f[k - 1]) \in Nat
      BY <3>2, LenProperties
    <3>6. CASE f[k] = f[k - 1]
      <4>1. Len(f[k - 1]) <= k - 1 /\ f[k - 1] \in Seq(S) /\ k \in Nat
        BY <3>1, <3>2
      <4> QED BY <2>2, <3>5, <3>6, <4>1
    <3>7. CASE f[k] = Append(f[k - 1], items[k])
      <4>1. Len(f[k - 1]) <= k - 1 /\ k \in Nat
        BY <3>1, <3>2
      <4> QED BY <2>2, <3>4, <3>5, <3>7, <4>1
    <3> QED BY <3>3, <3>6, <3>7
  <2> QED BY <2>4, <2>5
<1>4. f[n] \in Seq(S) /\ Len(f[n]) <= n
  BY <1>1, <1>3
<1> QED BY <1>2, <1>4, SeqIsList
-----------------------------------------------------------------------------
(* The inductive invariant.                                                *)
ViewShaped == view # NoView => IsView(view)
RowsBounded == \A t \in Tables : IsList(rows[t]) /\ Len(rows[t]) <= MaxRows[t]
Answering ==
    view # NoView /\ ~stopped =>
        /\ current \in Queries /\ Known(current)
        /\ view.at \in 0 .. Len(rows[current.from])
        /\ returned \in Seq(Chains(rows, current))
        /\ IF view.is_empty
           THEN view.at = Len(rows[current.from]) /\ returned = Answers(rows, current, view.at)
           ELSE /\ view.holders[3 - view.handed] \in Chains(rows, current)
                /\ Append(returned, view.holders[3 - view.handed])
                      = Answers(rows, current, view.at)
        /\ returned # <<>> => view.holders[view.handed] = returned[Len(returned)]
IInv == /\ TypeOK /\ DOMAIN rows = Tables /\ RowsBounded
        /\ ViewShaped /\ AllocatedWhileRight /\ Answering

(* One turn of record_view_next, from the answers up to "after" on.        *)
LEMMA LookedAhead ==
    ASSUME NEW s \in Queries, Known(s), RowsListed, NEW v, IsView(v),
           NEW after, after = v.at, after \in 0 .. Len(rows[s.from]),
           NEW end, NEW w, w = record_view_next(s, v, end), ~w.failed
    PROVE  /\ w.at \in 0 .. Len(rows[s.from])
           /\ IF w.is_empty
              THEN /\ w.at = Len(rows[s.from])
                   /\ Answers(rows, s, w.at) = Answers(rows, s, after)
              ELSE /\ w.holders[3 - w.handed] \in Chains(rows, s)
                   /\ Append(Answers(rows, s, after), w.holders[3 - w.handed])
                        = Answers(rows, s, w.at)
<1> DEFINE last == Len(rows[s.from])
           ahead == LookAhead(s, after, end)
<1>1. last \in Nat /\ after \in Nat
  BY ListFacts DEF Known, RowsListed
<1>2. /\ w.at = ahead.at /\ w.is_empty = (ahead.found = "end")
      /\ w.failed = (ahead.found = "error") /\ w.holders[3 - w.handed] = ahead.record
  BY NextFacts
<1>3. Sees(s, after, last, ahead)
  BY <1>1, LookAheadFacts
<1>4. after <= last
  BY <1>1
<1> HIDE DEF ahead, last
<1>5. CASE /\ ahead.found = "end" /\ ahead.at = last
           /\ \A k \in after + 1 .. last : ~Holds(rows, s, k)
  <2>1. Answers(rows, s, last) = Answers(rows, s, after)
    BY <1>1, <1>5, <1>4, AnswersSkip
  <2>2. w.is_empty /\ w.at = last
    BY <1>2, <1>5
  <2>3. last \in 0 .. last
    BY <1>1
  <2> QED BY <2>1, <2>2, <2>3 DEF last
<1>6. CASE /\ ahead.found = "row" /\ ahead.at \in after + 1 .. last
           /\ Holds(rows, s, ahead.at) /\ ahead.record = Chain(rows, s, ahead.at)
           /\ \A k \in after + 1 .. ahead.at - 1 : ~Holds(rows, s, k)
  <2> DEFINE m == ahead.at - 1
  <2>1. m \in Nat /\ after <= m /\ ahead.at = m + 1 /\ ahead.at \in 0 .. last /\ ahead.at \in Nat
    BY <1>1, <1>6
  <2>2. Answers(rows, s, m) = Answers(rows, s, after)
    <3>1. \A k \in after + 1 .. m : ~Holds(rows, s, k)
      BY <1>6
    <3> HIDE DEF m
    <3> QED BY <1>1, <2>1, <3>1, AnswersSkip
  <2>3. Answers(rows, s, ahead.at) = Append(Answers(rows, s, after), ahead.record)
    <3> HIDE DEF m
    <3>1. Holds(rows, s, m + 1) /\ ahead.record = Chain(rows, s, m + 1)
      BY <1>6, <2>1
    <3>2. Answers(rows, s, m + 1) = Append(Answers(rows, s, m), Chain(rows, s, m + 1))
      BY <2>1, <3>1, AnswersNext
    <3> QED BY <2>1, <2>2, <3>1, <3>2
  <2>4. ahead.record \in Chains(rows, s)
    BY <1>6, <2>1 DEF Chains
  <2>5. ~w.is_empty /\ w.at = ahead.at /\ w.holders[3 - w.handed] = ahead.record
    BY <1>2, <1>6
  <2> QED BY <2>1, <2>3, <2>4, <2>5 DEF last
<1> QED BY <1>2, <1>3, <1>5, <1>6 DEF Sees
-----------------------------------------------------------------------------
AllStatements == Queries \cup Inserts \cup Updates \cup Deletes \cup Catalogues

LEMMA InitIInv == Init => IInv
<1> SUFFICES ASSUME Init PROVE IInv
  OBVIOUS
<1>1. \A t \in Tables : rows[t] = <<>>
  BY DEF Init
<1>2. RowsBounded
  <2>1. IsList(<<>>) /\ Len(<<>>) = 0
    BY EmptySeq, SeqIsList
  <2> QED BY <1>1, <2>1, StatementsAssumption DEF RowsBounded
<1>3. TypeOK
  BY <1>2 DEF Init, TypeOK, RowsBounded
<1> QED BY <1>2, <1>3 DEF Init, IInv, ViewShaped, AllocatedWhileRight, Allocated, Owned,
                        Answering

(* A call that leaves no view; what it allocates is given by "live".       *)
LEMMA NoViewLeft ==
    ASSUME view' = NoView
    PROVE  ViewShaped' /\ Answering'
  BY DEF ViewShaped, Answering

LEMMA RowsUnchanged ==
    ASSUME IInv, UNCHANGED rows
    PROVE  DOMAIN rows' = Tables /\ RowsBounded'
  BY DEF IInv, RowsBounded

LEMMA BeginFacts ==
    ASSUME IInv, NEW s \in AllStatements, Begin(s)
    PROVE  /\ Begun(s) \ RecordStrings = OfStatement(s)
           /\ Begun(s) \in SUBSET (Pieces \cup RecordStrings)
           /\ wrong = {} /\ current' = s /\ current' \in AllStatements /\ s # None
           /\ stopped' = FALSE /\ returned' = <<>>
<1>1. wrong = {} /\ Allocated
  BY DEF Begin, IInv, AllocatedWhileRight
<1>2. /\ Begun(s) \ RecordStrings = OfStatement(s)
      /\ Begun(s) \in SUBSET (Pieces \cup RecordStrings)
  BY <1>1, BegunFacts
<1> QED BY <1>1, <1>2, StatementsAssumption DEF Begin, AllStatements

(* The parts of the invariant that do not depend on the rows, behind a     *)
(* statement that is no query.                                             *)
LEMMA QuietFacts ==
    ASSUME IInv, NEW s \in AllStatements \ Queries, NEW scanned, Quiet(s, scanned),
           successful' \in BOOLEAN,
           DOMAIN rows' = Tables, RowsBounded', foreign' \subseteq Tables
    PROVE  IInv'
<1>1. /\ Owned' = OfStatement(s) /\ live' \in SUBSET (Pieces \cup RecordStrings)
      /\ current' = s
      /\ current' \in AllStatements /\ s # None /\ stopped' = FALSE /\ view' = NoView
  <2>1. PICK fields \in FieldsOf(scanned) : live' = Begun(s) \cup fields
    BY DEF Quiet
  <2>2. fields \in SUBSET RecordStrings
    BY <2>1, RecordStringFacts
  <2>3. Begin(s) /\ view' = NoView
    BY DEF Quiet
  <2> QED BY <2>1, <2>2, <2>3, BeginFacts DEF Owned
<1>2. s.op # "query"
  BY StatementsAssumption DEF AllStatements
<1>3. Allocated'
  BY <1>1, <1>2 DEF Allocated
<1>4. TypeOK'
  <2>1. (view' # NoView) = (current' # None /\ current'.op = "query" /\ successful' /\ wrong' = {})
    BY <1>1, <1>2
  <2>2. \A t \in Tables : Len(rows'[t]) <= MaxRows[t]
    BY DEF RowsBounded
  <2> QED BY <1>1, <2>1, <2>2 DEF TypeOK, AllStatements, Pieces
<1> QED BY <1>1, <1>3, <1>4, NoViewLeft DEF IInv, AllocatedWhileRight

LEMMA StepInsert ==
    ASSUME IInv, NEW s \in Inserts, Insert(s)
    PROVE  IInv'
<1>1. Quiet(s, {}) /\ s \in AllStatements \ Queries
  BY StatementsAssumption DEF Insert, AllStatements
<1>2. PICK end \in Ends(Len(s.values)) :
        /\ rows' = [rows EXCEPT ![s.into] = @ \o
                      [k \in 1 .. end - 1 |-> serialize_columns(s.columns, s.values[k])]]
        /\ successful' = (end > Len(s.values))
        /\ foreign' = IF end > 1 /\ s.columns # Schema[s.into]
                      THEN foreign \cup {s.into} ELSE foreign
  BY DEF Insert
<1>3. s.into \in Tables /\ Len(rows[s.into]) + Len(s.values) <= MaxRows[s.into]
  BY DEF Insert
<1>4. end \in 1 .. Len(s.values) + 1 /\ Len(s.values) \in Nat
  BY StatementsAssumption DEF Ends
<1> DEFINE new == [k \in 1 .. end - 1 |-> serialize_columns(s.columns, s.values[k])]
<1>5. IsList(new) /\ Len(new) = end - 1
  <2>1. end - 1 \in Nat /\ DOMAIN new = 1 .. end - 1
    BY <1>4
  <2>2. new = [k \in 1 .. end - 1 |-> new[k]]
    OBVIOUS
  <2> HIDE DEF new
  <2> QED BY <2>1, <2>2, FunctionIsList
<1>6. DOMAIN rows' = Tables /\ RowsBounded'
  <2>1. /\ DOMAIN rows' = Tables /\ rows'[s.into] = rows[s.into] \o new
        /\ \A t \in Tables : t # s.into => rows'[t] = rows[t]
    BY <1>2, <1>3 DEF IInv
  <2> HIDE DEF new
  <2>2. /\ IsList(rows[s.into] \o new)
        /\ Len(rows[s.into] \o new) = Len(rows[s.into]) + Len(new)
    <3>1. IsList(rows[s.into])
      BY <1>3 DEF IInv, RowsBounded
    <3> QED BY <1>5, <3>1, ListsJoined
  <2>3. Len(rows[s.into]) \in Nat /\ MaxRows[s.into] \in Nat
    BY <1>3, ListFacts, StatementsAssumption DEF IInv, RowsBounded
  <2>4. Len(rows[s.into] \o new) <= MaxRows[s.into]
    <3>1. Len(new) \in Nat /\ Len(new) <= Len(s.values)
      BY <1>4, <1>5
    <3>2. \A a, b, c, d \in Nat : a + b <= d /\ c <= b => a + c <= d
      OBVIOUS
    <3>3. Len(rows[s.into]) + Len(new) <= MaxRows[s.into]
      BY <1>3, <1>4, <2>3, <3>1, <3>2
    <3> QED BY <2>2, <3>3
  <2> QED BY <2>1, <2>2, <2>4 DEF IInv, RowsBounded
<1>7. successful' \in BOOLEAN /\ foreign' \subseteq Tables
  BY <1>2, <1>3 DEF IInv, TypeOK
<1> QED BY <1>1, <1>6, <1>7, QuietFacts

LEMMA StepUnknown ==
    ASSUME IInv, NEW s \in AllStatements \ Queries, NEW t, Unknown(s, t)
    PROVE  IInv'
<1>1. Quiet(s, {}) /\ successful' \in BOOLEAN /\ UNCHANGED rows /\ UNCHANGED foreign
  BY DEF Unknown, Fails
<1>2. foreign' \subseteq Tables
  BY <1>1 DEF IInv, TypeOK
<1> QED BY <1>1, <1>2, RowsUnchanged, QuietFacts

LEMMA StepCatalogue ==
    ASSUME IInv, NEW s \in Catalogues, Catalogue(s)
    PROVE  IInv'
<1>1. Quiet(s, {}) /\ successful' \in BOOLEAN /\ UNCHANGED rows /\ UNCHANGED foreign
  BY DEF Catalogue, Fails, Succeeds
<1>2. foreign' \subseteq Tables /\ s \in AllStatements \ Queries
  BY <1>1, StatementsAssumption DEF IInv, TypeOK, AllStatements
<1> QED BY <1>1, <1>2, RowsUnchanged, QuietFacts

LEMMA StepUpdate ==
    ASSUME IInv, NEW s \in Updates, Update(s)
    PROVE  IInv'
<1>1. /\ Quiet(s, {s.what}) /\ s \in AllStatements \ Queries
      /\ UNCHANGED foreign /\ s.what \in Tables
      /\ foreign' \subseteq Tables
  BY StatementsAssumption DEF Update, AllStatements, IInv, TypeOK
<1>2. PICK end, hit, items : UpdateUpTo(s, s.what, end, hit, items)
  BY DEF Update
<1>3. successful' \in BOOLEAN
  BY <1>2 DEF UpdateUpTo
<1>4. DOMAIN rows' = Tables /\ RowsBounded'
  <2>1. CASE UNCHANGED rows
    BY <2>1, RowsUnchanged
  <2>2. CASE rows' = [rows EXCEPT ![s.what] = [k \in DOMAIN @ |->
                          IF k \in hit THEN Overwritten(@[k], items[k]) ELSE @[k]]]
    <3> DEFINE old == rows[s.what]
               new == [k \in DOMAIN old |->
                          IF k \in hit THEN Overwritten(old[k], items[k]) ELSE old[k]]
    <3>1. /\ DOMAIN rows' = Tables /\ rows'[s.what] = new
          /\ \A t \in Tables : t # s.what => rows'[t] = rows[t]
      BY <1>1, <2>2 DEF IInv
    <3>2. IsList(old) /\ Len(old) \in Nat /\ DOMAIN old = 1 .. Len(old)
          /\ Len(old) <= MaxRows[s.what]
      BY <1>1, ListFacts DEF IInv, RowsBounded
    <3>3. DOMAIN new = 1 .. Len(old) /\ new = [k \in 1 .. Len(old) |-> new[k]]
      BY <3>2
    <3> HIDE DEF old, new
    <3>4. IsList(new) /\ Len(new) = Len(old)
      BY <3>2, <3>3, FunctionIsList
    <3> QED BY <1>1, <3>1, <3>2, <3>4 DEF IInv, RowsBounded
  <2> QED BY <1>2, <2>1, <2>2 DEF UpdateUpTo
<1> QED BY <1>1, <1>3, <1>4, QuietFacts

LEMMA StepDelete ==
    ASSUME IInv, NEW s \in Deletes, Delete(s)
    PROVE  IInv'
<1>1. /\ Quiet(s, {s.from}) /\ s \in AllStatements \ Queries
      /\ UNCHANGED foreign /\ s.from \in Tables
      /\ foreign' \subseteq Tables
  BY StatementsAssumption DEF Delete, AllStatements, IInv, TypeOK
<1>2. PICK chosen \in {[k \in DOMAIN rows[s.from] |-> Chosen(s, s.from, k)]},
           e \in Ends(Len(rows[s.from])) :
       \E end \in {DeleteEnd(chosen, e)} :
          /\ rows' = [rows EXCEPT ![s.from] = Kept(@,
                        {k \in DOMAIN @ : k >= end \/ ~IsTrue(chosen[k].value)})]
          /\ \/ successful' = (end > Len(chosen))
             \/ IOErrors /\ Fails
  BY Zenon DEF Delete
<1> DEFINE end == DeleteEnd(chosen, e)
           keep == {k \in DOMAIN rows[s.from] : k >= end \/ ~IsTrue(chosen[k].value)}
<1>3. rows' = [rows EXCEPT ![s.from] = Kept(rows[s.from], keep)]
  BY <1>2
<1>4. successful' \in BOOLEAN
  <2>1. CASE successful' = (end > Len(chosen))
    BY <2>1
  <2>2. CASE IOErrors /\ Fails
    BY <2>2 DEF Fails
  <2> HIDE DEF end
  <2> QED BY <1>2, <2>1, <2>2 DEF end
<1> HIDE DEF keep, end
<1>5. DOMAIN rows' = Tables /\ RowsBounded'
  <2>1. /\ DOMAIN rows' = Tables /\ rows'[s.from] = Kept(rows[s.from], keep)
        /\ \A t \in Tables : t # s.from => rows'[t] = rows[t]
    BY <1>1, <1>3 DEF IInv
  <2>2. /\ IsList(rows[s.from]) /\ Len(rows[s.from]) <= MaxRows[s.from]
        /\ Len(rows[s.from]) \in Nat /\ MaxRows[s.from] \in Nat
    BY <1>1, ListFacts, StatementsAssumption DEF IInv, RowsBounded
  <2>3. IsList(Kept(rows[s.from], keep)) /\ Len(Kept(rows[s.from], keep)) <= Len(rows[s.from])
    BY <2>2, KeptFacts
  <2>4. Len(Kept(rows[s.from], keep)) \in Nat
    BY <2>3, ListFacts
  <2>5. Len(Kept(rows[s.from], keep)) <= MaxRows[s.from]
    BY <2>2, <2>3, <2>4
  <2> QED BY <2>1, <2>3, <2>5 DEF IInv, RowsBounded
<1> QED BY <1>1, <1>4, <1>5, QuietFacts
-----------------------------------------------------------------------------
(* A query that ends without a view.                                       *)
LEMMA QueryWithoutView ==
    ASSUME IInv, NEW s \in Queries, Begin(s), UNCHANGED <<rows, foreign>>, Fails,
           view' = NoView, live' \in SUBSET (Pieces \cup RecordStrings),
           wrong' = {} => Owned' \in {OfStatement(s), OfStatement(s) \ StringOf(s)}
    PROVE  IInv'
<1>1. /\ current' = s /\ current' \in AllStatements /\ s # None /\ stopped' = FALSE
      /\ s.op = "query" /\ successful' = FALSE
  BY BeginFacts, StatementsAssumption DEF AllStatements, Fails
<1>2. AllocatedWhileRight'
  BY <1>1 DEF AllocatedWhileRight, Allocated
<1>3. DOMAIN rows' = Tables /\ RowsBounded'
  BY RowsUnchanged
<1>4. TypeOK'
  <2>1. (view' # NoView) = (current' # None /\ current'.op = "query" /\ successful' /\ wrong' = {})
    BY <1>1
  <2>2. \A t \in Tables : Len(rows'[t]) <= MaxRows[t]
    BY <1>3 DEF RowsBounded
  <2>3. foreign' \subseteq Tables
    BY DEF IInv, TypeOK
  <2> QED BY <1>1, <2>1, <2>2, <2>3 DEF TypeOK, AllStatements, Pieces
<1> QED BY <1>2, <1>3, <1>4, NoViewLeft DEF IInv

LEMMA OfQuery ==
    ASSUME IInv, NEW s \in Queries, Begin(s)
    PROVE  /\ Begun(s) \ RecordStrings = OfStatement(s)
           /\ Begun(s) \in SUBSET (Pieces \cup RecordStrings)
           /\ TablesFreed(s) \in SUBSET Pieces /\ wrong = {}
  BY BeginFacts, RecordStringFacts DEF AllStatements

LEMMA StepQueryUnknown ==
    ASSUME IInv, NEW s \in Queries, QueryUnknown(s)
    PROVE  IInv'
<1>1. /\ Begin(s) /\ UNCHANGED <<rows, foreign>> /\ Fails /\ view' = NoView
      /\ live' = Begun(s)
  BY DEF QueryUnknown
<1>2. Owned' = OfStatement(s)
  BY <1>1, OfQuery DEF Owned
<1> QED BY <1>1, <1>2, OfQuery, QueryWithoutView

LEMMA StepQueryMissesJoin ==
    ASSUME IInv, NEW s \in Queries, QueryMissesJoin(s)
    PROVE  IInv'
<1>1. /\ Begin(s) /\ UNCHANGED <<rows, foreign>> /\ Fails /\ view' = NoView
      /\ live' = Begun(s) \cup {"main"} /\ wrong' # {}
  BY DEF QueryMissesJoin
<1>2. live' \in SUBSET (Pieces \cup RecordStrings)
  BY <1>1, OfQuery DEF Pieces
<1> QED BY <1>1, <1>2, QueryWithoutView

LEMMA StepQueryClonesLogical ==
    ASSUME IInv, NEW s \in Queries, QueryClonesLogical(s)
    PROVE  IInv'
<1>1. /\ Begin(s) /\ UNCHANGED <<rows, foreign>> /\ Fails /\ view' = NoView
      /\ live' = Begun(s) \cup TablesFreed(s) /\ wrong' # {}
  BY DEF QueryClonesLogical
<1>2. live' \in SUBSET (Pieces \cup RecordStrings)
  BY <1>1, OfQuery
<1> QED BY <1>1, <1>2, QueryWithoutView

(* A query whose first record was looked for.                              *)
LEMMA StepQuery ==
    ASSUME IInv, NEW s \in Queries, Query(s)
    PROVE  IInv'
<1>1. Begin(s) /\ Known(s) /\ UNCHANGED <<rows, wrong, foreign>>
  BY DEF Query
<1>2. PICK end, fields, v :
        /\ fields \in FieldsOf(Scanned(s)) /\ v = record_view_next(s, NewView, end)
        /\ IF v.failed
           THEN live' = (Begun(s) \ StringOf(s)) \cup fields /\ view' = NoView /\ Fails
           ELSE /\ live' = Begun(s) \cup {"view"} \cup TablesFreed(s) \cup fields
                /\ view' = v /\ Succeeds
  BY DEF Query
<1>3. fields \in SUBSET RecordStrings
  BY <1>2, RecordStringFacts
<1>4. CASE v.failed
  <2>1. live' \in SUBSET (Pieces \cup RecordStrings)
    BY <1>1, <1>2, <1>3, <1>4, OfQuery
  <2>2. Owned' = OfStatement(s) \ StringOf(s)
    BY <1>1, <1>2, <1>3, <1>4, OfQuery DEF Owned
  <2> QED BY <1>1, <1>2, <1>4, <2>1, <2>2, OfQuery, QueryWithoutView
<1>5. CASE ~v.failed
  <2>1. /\ view' = v /\ live' = Begun(s) \cup {"view"} \cup TablesFreed(s) \cup fields
        /\ successful' = TRUE /\ wrong' = {}
    BY <1>1, <1>2, <1>5, OfQuery DEF Succeeds
  <2>2. Owned' = OfStatement(s) \cup {"view"} \cup TablesFreed(s)
    BY <1>1, <1>3, <2>1, OfQuery, RecordStringFacts DEF Owned, Pieces
  <2>3. /\ current' = s /\ current' \in AllStatements /\ s # None /\ stopped' = FALSE
        /\ s.op = "query" /\ returned' = <<>>
    BY <1>1, BeginFacts, StatementsAssumption DEF AllStatements
  <2>4. IsView(v) /\ v.handed = 2 /\ v # NoView /\ v.holders[v.handed] = NewView.holders[v.handed]
    BY <1>2, NextFacts, ViewFacts
  <2>5. AllocatedWhileRight'
    BY <2>1, <2>2, <2>3, <2>4 DEF AllocatedWhileRight, Allocated
  <2>6. DOMAIN rows' = Tables /\ RowsBounded'
    BY <1>1, RowsUnchanged
  <2>7. TypeOK'
    <3>1. (view' # NoView) = (current' # None /\ current'.op = "query" /\ successful' /\ wrong' = {})
      BY <2>1, <2>3, <2>4
    <3>2. \A t \in Tables : Len(rows'[t]) <= MaxRows[t]
      BY <2>6 DEF RowsBounded
    <3>3. foreign' \subseteq Tables
      BY <1>1 DEF IInv, TypeOK
    <3>4. live' \in SUBSET (Pieces \cup RecordStrings)
      BY <1>1, <1>3, <2>1, OfQuery DEF Pieces
    <3> QED BY <2>1, <2>3, <3>1, <3>2, <3>3, <3>4 DEF TypeOK, AllStatements, Pieces
  <2>8. ViewShaped'
    BY <2>1, <2>4 DEF ViewShaped
  <2>9. Answering'
    <3>1. /\ RowsListed /\ 0 \in 0 .. Len(rows[s.from]) /\ rows' = rows
      BY <1>1, ListFacts DEF RowsListed, IInv, RowsBounded, Known
    <3>2. /\ v.at \in 0 .. Len(rows[s.from])
          /\ IF v.is_empty
             THEN /\ v.at = Len(rows[s.from])
                  /\ Answers(rows, s, v.at) = Answers(rows, s, 0)
             ELSE /\ v.holders[3 - v.handed] \in Chains(rows, s)
                  /\ Append(Answers(rows, s, 0), v.holders[3 - v.handed])
                       = Answers(rows, s, v.at)
      BY <1>1, <1>2, <1>5, <3>1, ViewFacts, LookedAhead
    <3>3. Answers(rows, s, 0) = <<>> /\ <<>> \in Seq(Chains(rows, s))
      BY AnswersNone, EmptySeq
    <3>4. Known(s)'
      BY <1>1 DEF Known
    <3> QED BY <2>1, <2>3, <3>1, <3>2, <3>3, <3>4 DEF Answering
  <2> QED BY <2>5, <2>6, <2>7, <2>8, <2>9 DEF IInv
<1> QED BY <1>4, <1>5

(* The reader asks for the next record.                                    *)
LEMMA StepRead ==
    ASSUME IInv, Read
    PROVE  IInv'
<1> DEFINE s == current
<1>1. /\ wrong = {} /\ view # NoView /\ ~view.is_empty /\ ~stopped
      /\ UNCHANGED <<rows, current, successful, wrong, foreign>>
  BY DEF Read
<1>2. PICK end, v :
        /\ v = record_view_next(s, view, end)
        /\ view' = v /\ stopped' = v.failed
        /\ returned' = IF v.failed THEN returned ELSE Append(returned, v.holders[v.handed])
  BY DEF Read
<1>3. IsView(view) /\ s \in Queries
  BY <1>1 DEF IInv, ViewShaped, Answering
<1>4. /\ IsView(v) /\ v.handed = 3 - view.handed /\ v # NoView
      /\ v.holders[v.handed] = view.holders[v.handed]
  BY <1>2, <1>3, NextFacts, ViewFacts
<1>5. Owned' = Owned /\ (live \subseteq Pieces \cup RecordStrings
                              => live' \subseteq Pieces \cup RecordStrings)
  BY RecordStringFacts DEF Read, Owned
<1>6. AllocatedWhileRight'
  BY <1>1, <1>2, <1>4, <1>5 DEF IInv, AllocatedWhileRight, Allocated
<1>7. DOMAIN rows' = Tables /\ RowsBounded'
  BY <1>1, RowsUnchanged
<1>8. TypeOK'
  <2>1. (view' # NoView) = (current' # None /\ current'.op = "query" /\ successful' /\ wrong' = {})
    BY <1>1, <1>2, <1>4 DEF IInv, TypeOK
  <2>2. stopped' \in BOOLEAN
    BY <1>2, <1>4 DEF IsView
  <2> QED BY <1>1, <1>5, <2>1, <2>2 DEF IInv, TypeOK, Pieces
<1>9. ViewShaped'
  BY <1>2, <1>4 DEF ViewShaped
<1>10. Answering'
  <2> SUFFICES ASSUME ~v.failed PROVE Answering'
    BY <1>2 DEF Answering
  <2>1. /\ Known(s) /\ view.at \in 0 .. Len(rows[s.from]) /\ returned \in Seq(Chains(rows, s))
        /\ view.holders[3 - view.handed] \in Chains(rows, s)
        /\ Append(returned, view.holders[3 - view.handed]) = Answers(rows, s, view.at)
    BY <1>1 DEF IInv, Answering
  <2>2. RowsListed
    BY DEF RowsListed, IInv, RowsBounded
  <2>3. /\ v.at \in 0 .. Len(rows[s.from])
        /\ IF v.is_empty
           THEN /\ v.at = Len(rows[s.from])
                /\ Answers(rows, s, v.at) = Answers(rows, s, view.at)
           ELSE /\ v.holders[3 - v.handed] \in Chains(rows, s)
                /\ Append(Answers(rows, s, view.at), v.holders[3 - v.handed])
                     = Answers(rows, s, v.at)
    BY <1>2, <1>3, <2>1, <2>2, LookedAhead
  <2>4. /\ returned' = Answers(rows, s, view.at)
        /\ returned' \in Seq(Chains(rows, s))
        /\ returned'[Len(returned')] = v.holders[v.handed]
    <3> DEFINE given == view.holders[3 - view.handed]
    <3>1. returned' = Append(returned, given) /\ v.holders[v.handed] = given
      BY <1>2, <1>4
    <3>2. /\ Append(returned, given) \in Seq(Chains(rows, s))
          /\ Len(Append(returned, given)) = Len(returned) + 1
          /\ Append(returned, given)[Len(returned) + 1] = given
      BY <2>1, AppendProperties
    <3> HIDE DEF given
    <3> QED BY <2>1, <3>1, <3>2 DEF given
  <2>5. Known(s)' /\ rows' = rows /\ current' = s /\ view' = v
    BY <1>1, <1>2, <2>1 DEF Known
  <2> QED BY <1>3, <2>3, <2>4, <2>5 DEF Answering
<1> QED BY <1>6, <1>7, <1>8, <1>9, <1>10 DEF IInv

LEMMA StepFinish ==
    ASSUME IInv, Finish
    PROVE  IInv'
<1>1. /\ wrong = {} /\ current # None /\ current' = None /\ view' = NoView
      /\ live' = Finished.live /\ stopped' = FALSE
      /\ UNCHANGED <<rows, successful, foreign>>
  BY DEF Finish
<1>2. live' \in SUBSET RecordStrings
  BY <1>1, AllocatedFreed DEF IInv, AllocatedWhileRight
<1>3. AllocatedWhileRight'
  BY <1>1, <1>2 DEF AllocatedWhileRight, Allocated, Owned
<1>4. TypeOK'
  BY <1>1, <1>2 DEF IInv, TypeOK
<1> QED BY <1>1, <1>3, <1>4, RowsUnchanged, NoViewLeft DEF IInv
-----------------------------------------------------------------------------
LEMMA Stutter ==
    ASSUME IInv, UNCHANGED vars
    PROVE  IInv'
<1>1. ViewShaped' /\ AllocatedWhileRight'
  BY DEF IInv, vars, ViewShaped, AllocatedWhileRight, Allocated, Owned
<1>2. TypeOK' /\ DOMAIN rows' = Tables /\ RowsBounded'
  BY RowsUnchanged DEF IInv, vars, TypeOK
<1>3. Answering'
  BY DEF IInv, vars, Answering, Known
<1> QED BY <1>1, <1>2, <1>3 DEF IInv

LEMMA Invariance == Spec => []IInv
<1>1. ASSUME IInv, [Next]_vars PROVE IInv'
  <2>1. ASSUME NEW s \in Queries,
               QueryUnknown(s) \/ QueryMissesJoin(s) \/ QueryClonesLogical(s) \/ Query(s)
        PROVE  IInv'
    BY <1>1, <2>1, StepQueryUnknown, StepQueryMissesJoin, StepQueryClonesLogical, StepQuery
  <2>2. ASSUME NEW s \in Inserts, Insert(s) \/ Unknown(s, s.into) PROVE IInv'
    BY <1>1, <2>2, StepInsert, StepUnknown, StatementsAssumption DEF AllStatements
  <2>3. ASSUME NEW s \in Updates, Update(s) \/ Unknown(s, s.what) PROVE IInv'
    BY <1>1, <2>3, StepUpdate, StepUnknown, StatementsAssumption DEF AllStatements
  <2>4. ASSUME NEW s \in Deletes, Delete(s) \/ Unknown(s, s.from) PROVE IInv'
    BY <1>1, <2>4, StepDelete, StepUnknown, StatementsAssumption DEF AllStatements
  <2>5. ASSUME NEW s \in Catalogues, Catalogue(s) PROVE IInv'
    BY <1>1, <2>5, StepCatalogue
  <2>6. ASSUME Read \/ Finish PROVE IInv'
    BY <1>1, <2>6, StepRead, StepFinish
  <2> QED BY <1>1, <2>1, <2>2, <2>3, <2>4, <2>5, <2>6, Stutter DEF Next
<1> QED BY <1>1, InitIInv, PTL DEF Spec

(* A result has a view exactly while a query that succeeded is current,    *)
(* and no table outgrows its bound, over every statement and every error.  *)
THEOREM TypeCorrect == Spec => []TypeOK
<1>1. IInv => TypeOK
  BY DEF IInv
<1> QED BY <1>1, Invariance, PTL

(* What the reader of a query was given, with the record that waits in the *)
(* second holder, is the answer so far: every main record for which the    *)
(* predicate holds, each with its first partners, in order; all of it once *)
(* there is no next record.                                                *)
THEOREM QueriesAnswered == Spec => []QueryRight
<1>1. ASSUME IInv PROVE QueryRight
  <2> SUFFICES ASSUME view # NoView, ~stopped
               PROVE  /\ returned \o (IF view.is_empty THEN <<>>
                                      ELSE <<view.holders[3 - view.handed]>>)
                           = Answers(rows, current, view.at)
                      /\ view.is_empty => view.at = Len(rows[current.from])
                      /\ returned # <<>> => view.holders[view.handed] = returned[Len(returned)]
    BY DEF QueryRight
  <2> DEFINE S == Chains(rows, current)
             h == view.holders[3 - view.handed]
  <2>1. /\ returned \in Seq(S)
        /\ IF view.is_empty
           THEN view.at = Len(rows[current.from]) /\ returned = Answers(rows, current, view.at)
           ELSE h \in S /\ Append(returned, h) = Answers(rows, current, view.at)
        /\ returned # <<>> => view.holders[view.handed] = returned[Len(returned)]
    BY <1>1 DEF IInv, Answering
  <2> HIDE DEF S, h
  <2>2. returned \o <<>> = returned
    BY <2>1, ConcatEmptySeq
  <2>3. h \in S => returned \o <<h>> = Append(returned, h)
    BY <2>1, AppendIsConcat
  <2> QED BY <2>1, <2>2, <2>3 DEF h
<1> QED BY <1>1, Invariance, PTL

(* finish frees what was allocated for a statement and its result, however *)
(* it ended, except the strings of its records, which stay behind, alone;  *)
(* and it frees nothing twice but the string of a query's predicate.       *)
THEOREM OnlyRecordStringsStay == Spec => []FreedOnce
<1>1. ASSUME IInv PROVE FreedOnce
  <2> SUFFICES ASSUME wrong = {}
               PROVE  /\ current = None => live \subseteq RecordStrings
                      /\ current # None =>
                            /\ Finished.live = live \cap RecordStrings
                            /\ Finished.wrong \subseteq
                                  IF current.op = "query" THEN StringOf(current) ELSE {}
                      /\ view # NoView =>
                            ViewFrees(current) \cup TablesFreed(current)
                               \cup {"statement", "result"} \subseteq live
    BY DEF FreedOnce
  <2>1. Allocated
    BY <1>1 DEF IInv, AllocatedWhileRight
  <2>2. view # NoView => current # None
    BY <2>1 DEF Allocated
  <2>3. view # NoView =>
          ViewFrees(current) \cup TablesFreed(current) \cup {"statement", "result"} \subseteq live
    BY <2>1, <2>2, RecordStringFacts DEF Allocated, Owned, OfStatement
  <2>4. current = None => live \subseteq RecordStrings
    BY <2>1 DEF Allocated, Owned
  <2> QED BY <2>1, <2>3, <2>4, AllocatedFreed
<1> QED BY <1>1, Invariance, PTL
-----------------------------------------------------------------------------
LEMMA NumbersAssociative ==
    ASSUME NEW a \in Seq(Int), NEW b \in Seq(Int), NEW c \in Seq(Int)
    PROVE  (a \o b) \o c = a \o (b \o c)
  BY ConcatAssociative

(* A value in its cells, and read back from them.                          *)
LEMMA TypedFacts ==
    ASSUME NEW type \in ColumnTypes, NEW v, Typed(type, v)
    PROVE  /\ v \in Seq(Int)
           /\ type = "STRING" => v \in Seq(Nat)
           /\ type # "STRING" => \E n \in Int : v = <<n>> /\ (type = "BOOL" => n \in {0, 1})
<1>1. CASE type = "STRING"
  <2>1. v \in Seq(Nat)
    BY <1>1 DEF Typed
  <2>2. Nat \subseteq Int
    OBVIOUS
  <2>3. v \in Seq(Int)
    BY <2>1, <2>2, SeqMonotonic
  <2>4. ~(type # "STRING")
    BY <1>1
  <2> QED BY <2>1, <2>3, <2>4, Zenon
<1>2. CASE type = "BOOL"
  <2>1. v \in {<<0>>, <<1>>}
    BY <1>2 DEF Typed
  <2>2. \E n \in {0, 1} : v = <<n>>
    BY <2>1
  <2> QED BY <1>2, <2>2
<1>3. CASE type = "UINT64"
  <2>1. PICK n \in 0 .. 2 * Half - 1 : v = <<n>>
    BY <1>3 DEF Typed
  <2> QED BY <1>3, <2>1, RecordsAssumption
<1>4. CASE type = "INT32"
  <2>1. PICK n \in -Half .. Half - 1 : v = <<n>>
    BY <1>4 DEF Typed
  <2> QED BY <1>4, <2>1, RecordsAssumption
<1> QED BY <1>1, <1>2, <1>3, <1>4 DEF ColumnTypes

LEMMA CellsFacts ==
    ASSUME NEW type \in ColumnTypes, NEW v, Typed(type, v)
    PROVE  /\ ColumnCells(type, v) \in Seq(Int)
           /\ Len(ColumnCells(type, v)) = ColumnSize(type, v)
           /\ ColumnSize(type, v) \in Nat \ {0}
<1>1. CASE type = "STRING"
  <2>1. v \in Seq(Int) /\ Len(v) \in Nat
    BY TypedFacts, LenProperties
  <2>2. <<Len(v)>> \in Seq(Int) /\ Len(<<Len(v)>>) = 1
    BY <2>1
  <2>3. ColumnCells(type, v) = <<Len(v)>> \o v /\ ColumnSize(type, v) = Len(v) + 1
    BY <1>1 DEF ColumnCells, ColumnSize
  <2> QED BY <2>1, <2>2, <2>3, ConcatProperties
<1>2. CASE type # "STRING"
  <2>1. PICK n \in Int : v = <<n>>
    BY <1>2, TypedFacts
  <2> QED BY <1>2, <2>1 DEF ColumnCells, ColumnSize
<1> QED BY <1>1, <1>2

LEMMA SubSeqBehind ==
    ASSUME NEW s \in Seq(Int), NEW m \in Nat, NEW k \in Nat, Len(s) = m + k
    PROVE  SubSeq(s, m + 1, Len(s)) = [i \in 1 .. k |-> s[m + i]]
<1>1. m + 1 \in Nat /\ Len(s) \in Nat /\ Len(s) - (m + 1) + 1 = k
  OBVIOUS
<1>2. \A i \in 1 .. k : (m + 1) + i - 1 = m + i
  OBVIOUS
<1>3. SubSeq(s, m + 1, Len(s)) = [i \in 1 .. Len(s) - (m + 1) + 1 |-> s[(m + 1) + i - 1]]
  BY <1>1
<1> QED BY <1>1, <1>2, <1>3

(* Behind the cells of a value may be anything.                            *)
LEMMA ColumnReadBack ==
    ASSUME NEW type \in ColumnTypes, NEW v, Typed(type, v), NEW rest \in Seq(Int)
    PROVE  LET cells == ColumnCells(type, v) \o rest
           IN  /\ deserialize_column(type, cells) = Ok(v)
               /\ SubSeq(cells, ColumnSize(type, v) + 1, Len(cells)) = rest
<1> DEFINE own == ColumnCells(type, v)
           cells == own \o rest
           size == ColumnSize(type, v)
<1>1. own \in Seq(Int) /\ Len(own) = size /\ size \in Nat \ {0}
  BY CellsFacts
<1>2. cells \in Seq(Int) /\ Len(cells) = size + Len(rest) /\ Len(rest) \in Nat
  BY <1>1, ConcatProperties, LenProperties
<1>3. /\ \A i \in 1 .. size : cells[i] = own[i]
      /\ \A i \in 1 .. Len(rest) : cells[size + i] = rest[i]
  <2>1. \A i \in 1 .. size + Len(rest) :
           cells[i] = IF i <= size THEN own[i] ELSE rest[i - size]
    <3> HIDE DEF own
    <3> QED BY <1>1, ConcatProperties
  <2> HIDE DEF cells, own, size
  <2>2. ASSUME NEW i \in 1 .. Len(rest) PROVE cells[size + i] = rest[i]
    <3>1. size + i \in 1 .. size + Len(rest) /\ ~(size + i <= size) /\ (size + i) - size = i
      BY <1>1, <1>2
    <3>2. cells[size + i] = rest[(size + i) - size]
      BY <2>1, <3>1
    <3> QED BY <3>1, <3>2
  <2> QED BY <1>1, <1>2, <2>1, <2>2
<1>4. SubSeq(cells, size + 1, Len(cells)) = rest
  <2> DEFINE behind == SubSeq(cells, size + 1, Len(cells))
  <2>1. behind = [i \in 1 .. Len(rest) |-> cells[size + i]]
    <3>1. /\ size \in Nat /\ Len(rest) \in Nat /\ Len(cells) = size + Len(rest)
          /\ cells \in Seq(Int)
      BY <1>1, <1>2
    <3> HIDE DEF cells, size
    <3> QED BY <3>1, SubSeqBehind
  <2>2. rest = [i \in 1 .. Len(rest) |-> rest[i]]
    BY <1>2
  <2> QED BY <1>3, <2>1, <2>2
<1>5. cells # <<>> /\ Head(cells) = own[1]
  BY <1>1, <1>2, <1>3
<1>6. CASE type = "STRING"
  <2>1. v \in Seq(Nat) /\ Len(v) \in Nat /\ v \in Seq(Int)
    BY <1>6, TypedFacts, LenProperties
  <2>2. own = <<Len(v)>> \o v /\ size = Len(v) + 1
    BY <1>6 DEF ColumnCells, ColumnSize
  <2>3. own[1] = Len(v) /\ \A i \in 1 .. Len(v) : own[i + 1] = v[i]
    BY <2>1, <2>2
  <2>4. Head(cells) \in 0 .. Len(cells) /\ Head(cells) # Len(cells)
    BY <1>2, <1>5, <2>1, <2>2, <2>3
  <2>5. SubSeq(cells, 2, Len(v) + 1) = v
    <3>1. SubSeq(cells, 2, Len(v) + 1) = [i \in 1 .. Len(v) |-> cells[i + 1]]
      BY <1>2, <2>1, <2>2
    <3>2. \A i \in 1 .. Len(v) : cells[i + 1] = v[i]
      BY <1>3, <2>1, <2>2, <2>3
    <3>3. v = [i \in 1 .. Len(v) |-> v[i]]
      BY <2>1
    <3> QED BY <3>1, <3>2, <3>3
  <2>6. deserialize_column(type, cells) = Ok(SubSeq(cells, 2, Head(cells) + 1))
    <3> HIDE DEF cells
    <3> QED BY <1>5, <1>6, <2>4 DEF deserialize_column
  <2> QED BY <1>4, <1>5, <2>3, <2>5, <2>6
<1>7. CASE type # "STRING"
  <2>1. PICK n \in Int : v = <<n>> /\ (type = "BOOL" => n \in {0, 1})
    BY <1>7, TypedFacts
  <2>2. own = v /\ Head(cells) = n
    BY <1>5, <1>7, <2>1 DEF ColumnCells
  <2>3. deserialize_column(type, cells) = Ok(v)
    <3> HIDE DEF cells
    <3> QED BY <1>5, <1>7, <2>1, <2>2 DEF deserialize_column
  <2> QED BY <1>4, <2>3
<1> QED BY <1>6, <1>7
-----------------------------------------------------------------------------
(* The cells of the columns behind the k-th.                               *)
CellsStep(columns, record, k, behind) ==
    IF k = Len(columns) THEN <<>>
    ELSE ColumnCells(columns[k + 1].type, record[k + 1]) \o behind
AreCells(f, columns, record) ==
    f = [k \in 0 .. Len(columns) |-> CellsStep(columns, record, k, f[k + 1])]

LEMMA CellsExist ==
    ASSUME NEW columns, NEW record, Len(columns) \in Nat
    PROVE  \E f : AreCells(f, columns, record)
<1> DEFINE n == Len(columns)
           Right(f, m) == \A k \in n - m .. n : f[k] = CellsStep(columns, record, k, f[k + 1])
           T == {m \in 0 .. n : ~\E f : DOMAIN f = 0 .. n /\ f = [k \in 0 .. n |-> f[k]]
                                        /\ Right(f, m)}
<1>1. T = {}
  <2> SUFFICES ASSUME T # {} PROVE FALSE
    OBVIOUS
  <2>1. PICK m \in T : \A i \in T : m <= i
    <3>1. T \in SUBSET Nat
      OBVIOUS
    <3> HIDE DEF T
    <3> QED BY <3>1, LeastOf
  <2>2. m \in 0 .. n
    BY <2>1
  <2>3. ~\E f : DOMAIN f = 0 .. n /\ f = [k \in 0 .. n |-> f[k]] /\ Right(f, m)
    BY <2>1
  <2>4. CASE m = 0
    <3> DEFINE f == [k \in 0 .. n |-> <<>>]
    <3>1. Right(f, 0)
      BY DEF CellsStep
    <3> QED BY <2>3, <2>4, <3>1
  <2>5. CASE m # 0
    <3>1. m - 1 \in 0 .. n /\ ~(m <= m - 1)
      BY <2>2, <2>5
    <3>2. PICK f : DOMAIN f = 0 .. n /\ f = [k \in 0 .. n |-> f[k]] /\ Right(f, m - 1)
      <4>1. m - 1 \notin T
        <5> HIDE DEF T
        <5> QED BY <2>1, <3>1
      <4> QED BY <3>1, <4>1
    <3> DEFINE g == [k \in 0 .. n |-> IF k = n - m THEN CellsStep(columns, record, k, f[k + 1])
                                      ELSE f[k]]
    <3>3. ASSUME NEW k \in n - m .. n PROVE g[k] = CellsStep(columns, record, k, g[k + 1])
      <4>1. k \in 0 .. n /\ (k # n => k + 1 \in 0 .. n /\ k + 1 # n - m /\ g[k + 1] = f[k + 1])
        BY <2>2
      <4>2. g[k] = CellsStep(columns, record, k, f[k + 1])
        <5>1. CASE k = n - m
          BY <4>1, <5>1
        <5>2. CASE k # n - m
          <6>1. k \in n - (m - 1) .. n /\ g[k] = f[k]
            BY <2>2, <4>1, <5>2
          <6> QED BY <3>2, <6>1
        <5> QED BY <5>1, <5>2
      <4> HIDE DEF g
      <4> QED BY <4>1, <4>2 DEF CellsStep
    <3>4. DOMAIN g = 0 .. n /\ g = [k \in 0 .. n |-> g[k]] /\ Right(g, m)
      BY <3>3
    <3> QED BY <2>3, <3>4
  <2> QED BY <2>4, <2>5
<1>2. n \in 0 .. n /\ n - n = 0
  OBVIOUS
<1>3. PICK f : DOMAIN f = 0 .. n /\ f = [k \in 0 .. n |-> f[k]] /\ Right(f, n)
  BY <1>1, <1>2
<1>4. \A k \in 0 .. n : f[k] = CellsStep(columns, record, k, f[k + 1])
  BY <1>2, <1>3
<1>5. f = [k \in 0 .. n |-> CellsStep(columns, record, k, f[k + 1])]
  BY <1>3, <1>4
<1> QED BY <1>5 DEF AreCells

LEMMA SerializeEquation ==
    ASSUME NEW columns, NEW record, Len(columns) \in Nat
    PROVE  \E f : AreCells(f, columns, record) /\ serialize_columns(columns, record) = f[0]
<1> DEFINE f == CHOOSE g : g = [k \in 0 .. Len(columns) |->
                  IF k = Len(columns) THEN <<>>
                  ELSE ColumnCells(columns[k + 1].type, record[k + 1]) \o g[k + 1]]
<1>1. serialize_columns(columns, record) = f[0]
  BY DEF serialize_columns
<1>2. \E g : AreCells(g, columns, record)
  BY CellsExist
<1>3. AreCells(f, columns, record)
  BY <1>2 DEF AreCells, CellsStep
<1> QED BY <1>1, <1>3

(* What record_deserialize has read up to a column.                        *)
ReadStep(columns, item, k, before) ==
    IF k = 0 THEN [error |-> "none", value |-> <<>>, rest |-> item]
    ELSE Deserialized(columns[k].type, before)
IsRead(f, columns, item, n) == f = [k \in 0 .. n |-> ReadStep(columns, item, k, f[k - 1])]

LEMMA ReadExists ==
    ASSUME NEW columns, NEW item, NEW n \in Nat
    PROVE  \E f : IsRead(f, columns, item, n)
<1> DEFINE T == {m \in Nat : ~\E f : IsRead(f, columns, item, m)}
<1> SUFFICES ASSUME T # {} PROVE FALSE
  OBVIOUS
<1>1. PICK m \in T : \A i \in T : m <= i
  BY LeastOf
<1>2. CASE m = 0
  <2>1. IsRead([j \in 0 .. 0 |-> [error |-> "none", value |-> <<>>, rest |-> item]],
               columns, item, 0)
    BY DEF IsRead, ReadStep
  <2> QED BY <1>1, <1>2, <2>1
<1>3. CASE m > 0
  <2>1. PICK f : IsRead(f, columns, item, m - 1)
    BY <1>1, <1>3
  <2> DEFINE g == [j \in 0 .. m |-> IF j = m THEN ReadStep(columns, item, m, f[m - 1]) ELSE f[j]]
  <2>2. \A j \in 0 .. m : g[j] = ReadStep(columns, item, j, g[j - 1])
    <3> SUFFICES ASSUME NEW j \in 0 .. m PROVE g[j] = ReadStep(columns, item, j, g[j - 1])
      OBVIOUS
    <3>1. CASE j = m
      BY <1>3, <3>1
    <3>2. CASE j = 0
      BY <1>3, <2>1, <3>2 DEF IsRead, ReadStep
    <3>3. CASE j # m /\ j # 0
      <4>1. j \in 0 .. m - 1 /\ g[j] = f[j] /\ g[j - 1] = f[j - 1]
        BY <1>3, <3>3
      <4> QED BY <2>1, <4>1 DEF IsRead
    <3> QED BY <3>1, <3>2, <3>3
  <2>3. g = [j \in 0 .. m |-> ReadStep(columns, item, j, g[j - 1])]
    BY <2>2
  <2>4. IsRead(g, columns, item, m)
    BY <2>3 DEF IsRead
  <2> QED BY <1>1, <2>4
<1> QED BY <1>1, <1>2, <1>3

LEMMA ReadEquation ==
    ASSUME NEW columns, NEW item, Len(columns) \in Nat
    PROVE  \E f : /\ IsRead(f, columns, item, Len(columns))
                  /\ record_deserialize(columns, item) = f[Len(columns)]
<1> DEFINE f == CHOOSE g : g = [k \in 0 .. Len(columns) |->
                  IF k = 0 THEN [error |-> "none", value |-> <<>>, rest |-> item]
                  ELSE Deserialized(columns[k].type, g[k - 1])]
<1>1. record_deserialize(columns, item) = f[Len(columns)]
  BY DEF record_deserialize
<1>2. \E g : IsRead(g, columns, item, Len(columns))
  BY ReadExists
<1>3. IsRead(f, columns, item, Len(columns))
  BY <1>2 DEF IsRead, ReadStep
<1> QED BY <1>1, <1>3
-----------------------------------------------------------------------------
LEMMA CellsAreNumbers ==
    ASSUME NEW columns, AreColumns(columns), NEW record, IsRecord(columns, record),
           NEW f, AreCells(f, columns, record)
    PROVE  \A k \in 0 .. Len(columns) : f[k] \in Seq(Int)
<1> DEFINE n == Len(columns)
           T == {m \in 0 .. n : f[n - m] \notin Seq(Int)}
<1>1. n \in Nat /\ \A k \in 0 .. n : f[k] = CellsStep(columns, record, k, f[k + 1])
  BY DEF AreColumns, AreCells
<1>2. T = {}
  <2> SUFFICES ASSUME T # {} PROVE FALSE
    OBVIOUS
  <2>1. PICK m \in T : \A i \in T : m <= i
    <3>1. T \in SUBSET Nat
      BY <1>1
    <3> HIDE DEF T
    <3> QED BY <3>1, LeastOf
  <2>2. m \in 0 .. n /\ f[n - m] \notin Seq(Int)
    BY <2>1
  <2>3. CASE m = 0
    <3>1. f[n] = <<>>
      BY <1>1 DEF CellsStep
    <3>2. n - m = n /\ <<>> \in Seq(Int)
      BY <1>1, <2>3
    <3> QED BY <2>2, <3>1, <3>2
  <2>4. CASE m # 0
    <3> DEFINE k == n - m
    <3>1. m - 1 \in 0 .. n /\ ~(m <= m - 1) /\ n - (m - 1) = k + 1 /\ k \in 0 .. n
          /\ k # n /\ k + 1 \in 1 .. n
      BY <1>1, <2>2, <2>4
    <3>2. f[k + 1] \in Seq(Int)
      <4>1. m - 1 \notin T
        <5> HIDE DEF T
        <5> QED BY <2>1, <3>1
      <4>2. f[n - (m - 1)] \in Seq(Int)
        BY <3>1, <4>1
      <4> QED BY <3>1, <4>2
    <3> HIDE DEF k
    <3>3. f[k] = ColumnCells(columns[k + 1].type, record[k + 1]) \o f[k + 1]
      BY <1>1, <3>1 DEF CellsStep
    <3>4. columns[k + 1].type \in ColumnTypes /\ Typed(columns[k + 1].type, record[k + 1])
      BY <3>1 DEF AreColumns, IsRecord
    <3>5. ColumnCells(columns[k + 1].type, record[k + 1]) \in Seq(Int)
      BY <3>4, CellsFacts
    <3>6. f[k] \in Seq(Int)
      BY <3>2, <3>3, <3>5, ConcatProperties
    <3> QED BY <2>2, <3>6 DEF k
  <2> QED BY <2>3, <2>4
<1>3. ASSUME NEW k \in 0 .. n PROVE f[k] \in Seq(Int)
  <2>1. n - k \in 0 .. n /\ n - (n - k) = k
    BY <1>1
  <2>2. n - k \notin T
    BY <1>2
  <2> QED BY <2>1, <2>2
<1> QED BY <1>3

(* A record that was written is read back, whatever the item holds behind  *)
(* it.                                                                     *)
LEMMA ReadBack ==
    ASSUME NEW columns, AreColumns(columns), NEW record, IsRecord(columns, record),
           NEW tail \in Seq(Int)
    PROVE  /\ serialize_columns(columns, record) \in Seq(Int)
           /\ record_deserialize(columns, serialize_columns(columns, record) \o tail)
                = [error |-> "none", value |-> record, rest |-> tail]
<1> DEFINE n == Len(columns)
           item == serialize_columns(columns, record) \o tail
<1>1. n \in Nat /\ record \in Seq(Seq(Int)) /\ Len(record) = n
  BY DEF AreColumns, IsRecord
<1>2. PICK f : AreCells(f, columns, record) /\ serialize_columns(columns, record) = f[0]
  BY <1>1, SerializeEquation
<1>3. PICK g : IsRead(g, columns, item, n) /\ record_deserialize(columns, item) = g[n]
  BY <1>1, ReadEquation
<1>4. \A k \in 0 .. n : /\ f[k] = CellsStep(columns, record, k, f[k + 1])
                        /\ f[k] \in Seq(Int)
                        /\ g[k] = ReadStep(columns, item, k, g[k - 1])
  BY <1>2, <1>3, CellsAreNumbers DEF AreCells, IsRead
<1> DEFINE Good(k) == g[k] = [error |-> "none", value |-> SubSeq(record, 1, k),
                              rest |-> f[k] \o tail]
           T == {k \in 0 .. n : ~Good(k)}
<1> HIDE DEF n
<1>5. ASSUME NEW k \in 1 .. n, Good(k - 1) PROVE Good(k)
  <2> DEFINE type == columns[k].type
             v == record[k]
             rest == f[k] \o tail
             cells == ColumnCells(type, v) \o rest
  <2>1. k - 1 \in 0 .. n /\ k \in 0 .. n /\ (k - 1) + 1 = k /\ k - 1 # n /\ k # 0
        /\ k \in Nat /\ k - 1 \in Nat
    BY <1>1 DEF n
  <2>2. type \in ColumnTypes /\ Typed(type, v)
    BY DEF AreColumns, IsRecord, n
  <2>3. f[k] \in Seq(Int) /\ ColumnCells(type, v) \in Seq(Int) /\ rest \in Seq(Int)
    BY <1>4, <2>1, <2>2, CellsFacts, ConcatProperties
  <2>4. f[k - 1] = ColumnCells(type, v) \o f[k]
    BY <1>4, <2>1 DEF CellsStep, n
  <2>5. f[k - 1] \o tail = cells
    <3> DEFINE own == ColumnCells(type, v)
               behind == f[k]
    <3>1. own \in Seq(Int) /\ behind \in Seq(Int) /\ f[k - 1] = own \o behind
      BY <2>3, <2>4
    <3> HIDE DEF own, behind
    <3>2. (own \o behind) \o tail = own \o (behind \o tail)
      BY <3>1, NumbersAssociative
    <3>3. f[k - 1] \o tail = own \o (behind \o tail)
      BY <3>1, <3>2
    <3> QED BY <3>3 DEF own, behind
  <2> DEFINE before == g[k - 1]
             column == deserialize_column(type, before.rest)
  <2>6. before = [error |-> "none", value |-> SubSeq(record, 1, k - 1), rest |-> cells]
    BY <1>5, <2>5
  <2>7. g[k] = Joining(type, before, column)
    BY <1>4, <2>1 DEF ReadStep, Deserialized
  <2> HIDE DEF cells, rest, type, v
  <2>8. /\ column = Ok(v)
        /\ SubSeq(cells, ColumnSize(type, v) + 1, Len(cells)) = rest
    <3>1. before.rest = cells
      BY <2>6
    <3>2. /\ deserialize_column(type, cells) = Ok(v)
          /\ SubSeq(cells, ColumnSize(type, v) + 1, Len(cells)) = rest
      BY <2>2, <2>3, ColumnReadBack DEF cells
    <3> QED BY <3>1, <3>2
  <2>9. g[k] = [error |-> "none", value |-> Append(SubSeq(record, 1, k - 1), v), rest |-> rest]
    <3>1. ~Failed(before) /\ before.rest = cells /\ before.value = SubSeq(record, 1, k - 1)
      BY <2>6 DEF Failed
    <3>2. ~Failed(column) /\ column.value = v
      BY <2>8 DEF Ok, Failed
    <3> HIDE DEF before, column
    <3> QED BY <2>7, <2>8, <3>1, <3>2 DEF Joining
  <2>10. Append(SubSeq(record, 1, k - 1), v) = SubSeq(record, 1, k)
    <3>1. SubSeq(record, 1, k) = Append(SubSeq(record, 1, k - 1), record[k])
      BY <1>1, <2>1 DEF n
    <3> QED BY <3>1 DEF v
  <2> QED BY <2>9, <2>10 DEF rest
<1>6. T = {}
  <2> SUFFICES ASSUME T # {} PROVE FALSE
    OBVIOUS
  <2>1. PICK k \in T : \A i \in T : k <= i
    <3>1. T \in SUBSET Nat
      BY <1>1
    <3> HIDE DEF T
    <3> QED BY <3>1, LeastOf
  <2>2. k \in 0 .. n /\ ~Good(k)
    BY <2>1
  <2>3. CASE k = 0
    <3>1. SubSeq(record, 1, 0) = <<>> /\ g[0] = ReadStep(columns, item, 0, g[0 - 1])
      BY <1>1, <1>4, <2>2, <2>3
    <3>2. item = f[0] \o tail
      BY <1>2
    <3> HIDE DEF item
    <3>3. g[0] = [error |-> "none", value |-> <<>>, rest |-> item]
      BY <3>1 DEF ReadStep
    <3> QED BY <2>2, <2>3, <3>1, <3>2, <3>3
  <2>4. CASE k # 0
    <3>1. k \in 1 .. n /\ k - 1 \in 0 .. n /\ ~(k <= k - 1)
      BY <1>1, <2>2, <2>4
    <3>2. k - 1 \notin T
      <4> HIDE DEF T
      <4> QED BY <2>1, <3>1
    <3>3. Good(k - 1)
      <4> HIDE DEF Good
      <4> QED BY <3>1, <3>2
    <3> HIDE DEF Good
    <3> QED BY <1>5, <2>2, <3>1, <3>3
  <2> QED BY <2>3, <2>4
<1>7. n \in 0 .. n /\ 0 \in 0 .. n
  BY <1>1
<1>8. Good(n)
  <2> HIDE DEF Good
  <2> QED BY <1>6, <1>7
<1>9. f[n] = <<>> /\ <<>> \o tail = tail
  <2>1. f[n] = <<>>
    BY <1>4, <1>7 DEF CellsStep, n
  <2> QED BY <2>1, ConcatEmptySeq
<1>10. SubSeq(record, 1, n) = record
  BY <1>1 DEF n
<1>11. g[n] = [error |-> "none", value |-> record, rest |-> tail]
  BY <1>8, <1>9, <1>10
<1>12. f[0] \in Seq(Int)
  BY <1>4, <1>7
<1> HIDE DEF item
<1>13. serialize_columns(columns, record) \in Seq(Int) /\ record_deserialize(columns, item) = g[n]
  BY <1>2, <1>3, <1>12
<1> QED BY <1>11, <1>13 DEF item
-----------------------------------------------------------------------------
(* Two functions go through the trees of expressions: what an expression   *)
(* evaluates to, and whether its columns are as declared.  This is one     *)
(* step of either ("what" says which), from the results of the operands.   *)
EvaluateStep(what, columns, record, e, x, y) ==
    IF what = "value"
    THEN CASE e.kind = "literal" -> Ok(e.value)
           [] e.kind = "column" -> record_get_value(columns, record, e.table, e.name)
           [] OTHER -> IF e.first.type # e.operands \/ e.second.type # e.operands
                       THEN Error("NON_MATCHING_TYPES")
                       ELSE IF Failed(x) THEN x
                       ELSE IF Failed(y) THEN y
                       ELSE Apply(e, x.value, y.value)
    ELSE CASE e.kind = "literal" -> TRUE
           [] e.kind = "column" ->
                DeclaredAt(columns, find_schema(columns, e.table, e.name), e.type)
           [] OTHER -> x /\ y
IsEvaluated(f, what, columns, record) ==
    f = [e \in Expressions |->
           EvaluateStep(what, columns, record, e, f[e.first], f[e.second])]

(* The same for the expressions of fewer than n operators.                 *)
EvaluatedBelow(f, what, columns, record, n) ==
    /\ f = [e \in Expressions |-> f[e]]
    /\ \A e \in Expressions :
         Depth(e) < n => f[e] = EvaluateStep(what, columns, record, e, f[e.first], f[e.second])

LEMMA StepOfLeaf ==
    ASSUME NEW what, NEW columns, NEW record, NEW e \in Expressions, e.kind \notin Operators,
           NEW x, NEW y, NEW x1, NEW y1
    PROVE  EvaluateStep(what, columns, record, e, x, y)
             = EvaluateStep(what, columns, record, e, x1, y1)
<1>1. e.kind = "literal" \/ e.kind = "column"
  BY RecordsAssumption
<1>2. CASE e.kind = "literal"
  BY <1>2 DEF EvaluateStep
<1>3. CASE e.kind = "column"
  BY <1>3 DEF EvaluateStep
<1> QED BY <1>1, <1>2, <1>3

LEMMA OperandFacts ==
    ASSUME NEW e \in Expressions, e.kind \in Operators
    PROVE  /\ e.first \in Expressions /\ e.second \in Expressions
           /\ Depth(e) \in Nat /\ Depth(e.first) \in Nat /\ Depth(e.second) \in Nat
           /\ Depth(e.first) < Depth(e) /\ Depth(e.second) < Depth(e)
  BY RecordsAssumption

LEMMA EvaluatedBelowExists ==
    ASSUME NEW what, NEW columns, NEW record, NEW n \in Nat
    PROVE  \E f : EvaluatedBelow(f, what, columns, record, n)
<1> DEFINE T == {m \in Nat : ~\E f : EvaluatedBelow(f, what, columns, record, m)}
<1> SUFFICES ASSUME T # {} PROVE FALSE
  OBVIOUS
<1>1. PICK m \in T : \A i \in T : m <= i
  BY LeastOf
<1>2. CASE m = 0
  <2> DEFINE f == [e \in Expressions |-> TRUE]
  <2>1. \A e \in Expressions : ~(Depth(e) < 0)
    BY RecordsAssumption
  <2>2. f = [e \in Expressions |-> f[e]]
    OBVIOUS
  <2> HIDE DEF f
  <2>3. EvaluatedBelow(f, what, columns, record, 0)
    BY <2>1, <2>2 DEF EvaluatedBelow
  <2> QED BY <1>1, <1>2, <2>3
<1>3. CASE m # 0
  <2>1. m - 1 \in Nat /\ ~(m <= m - 1)
    BY <1>1, <1>3
  <2>2. PICK f : EvaluatedBelow(f, what, columns, record, m - 1)
    BY <1>1, <2>1
  <2> DEFINE g == [e \in Expressions |->
                     IF Depth(e) = m - 1
                     THEN EvaluateStep(what, columns, record, e, f[e.first], f[e.second])
                     ELSE f[e]]
  <2>3. ASSUME NEW e \in Expressions, Depth(e) < m
        PROVE  g[e] = EvaluateStep(what, columns, record, e, g[e.first], g[e.second])
    <3>1. g[e] = EvaluateStep(what, columns, record, e, f[e.first], f[e.second])
      <4>1. CASE Depth(e) = m - 1
        BY <4>1
      <4>2. CASE Depth(e) # m - 1
        <5>1. Depth(e) < m - 1
          BY <2>1, <2>3, <4>2, RecordsAssumption
        <5>2. g[e] = f[e]
          BY <4>2
        <5> QED BY <2>2, <5>1, <5>2 DEF EvaluatedBelow
      <4> QED BY <4>1, <4>2
    <3>2. CASE e.kind \in Operators
      <4>1. /\ e.first \in Expressions /\ Depth(e.first) # m - 1
            /\ e.second \in Expressions /\ Depth(e.second) # m - 1
        BY <1>1, <2>3, <3>2, OperandFacts
      <4>2. g[e.first] = f[e.first] /\ g[e.second] = f[e.second]
        BY <4>1
      <4> QED BY <3>1, <4>2
    <3>3. CASE e.kind \notin Operators
      <4> HIDE DEF g
      <4> QED BY <3>1, <3>3, StepOfLeaf
    <3> QED BY <3>2, <3>3
  <2>4. g = [e \in Expressions |-> g[e]]
    OBVIOUS
  <2> HIDE DEF g
  <2>5. EvaluatedBelow(g, what, columns, record, m)
    BY <2>3, <2>4 DEF EvaluatedBelow
  <2> QED BY <1>1, <2>5
<1> QED BY <1>2, <1>3

LEMMA EvaluatedBelowAgree ==
    ASSUME NEW what, NEW columns, NEW record, NEW n \in Nat, NEW m \in Nat, NEW f, NEW g,
           EvaluatedBelow(f, what, columns, record, n),
           EvaluatedBelow(g, what, columns, record, m)
    PROVE  \A e \in Expressions : Depth(e) < n /\ Depth(e) < m => f[e] = g[e]
<1> DEFINE Differ(e) == Depth(e) < n /\ Depth(e) < m /\ f[e] # g[e]
           T == {d \in Nat : \E e \in Expressions : Differ(e) /\ Depth(e) = d}
<1>1. T = {}
  <2> SUFFICES ASSUME T # {} PROVE FALSE
    OBVIOUS
  <2>1. PICK d \in T : \A i \in T : d <= i
    BY LeastOf
  <2>2. PICK e \in Expressions : Differ(e) /\ Depth(e) = d
    BY <2>1
  <2>3. /\ f[e] = EvaluateStep(what, columns, record, e, f[e.first], f[e.second])
        /\ g[e] = EvaluateStep(what, columns, record, e, g[e.first], g[e.second])
    BY <2>2 DEF EvaluatedBelow
  <2>4. CASE e.kind \notin Operators
    BY <2>2, <2>3, <2>4, StepOfLeaf
  <2>5. CASE e.kind \in Operators
    <3>1. ASSUME NEW x \in {e.first, e.second} PROVE f[x] = g[x]
      <4>1. x \in Expressions /\ Depth(x) \in Nat /\ Depth(x) < d /\ d \in Nat
            /\ Depth(x) < n /\ Depth(x) < m
        BY <2>2, <2>5, <3>1, OperandFacts
      <4>2. Depth(x) \notin T
        <5>1. ~(d <= Depth(x))
          BY <4>1
        <5> HIDE DEF T
        <5> QED BY <2>1, <5>1
      <4> QED BY <4>1, <4>2
    <3> QED BY <2>2, <2>3, <3>1
  <2> QED BY <2>4, <2>5
<1> SUFFICES ASSUME NEW e \in Expressions, Depth(e) < n /\ Depth(e) < m, f[e] # g[e]
             PROVE  FALSE
  OBVIOUS
<1>2. Depth(e) \in T
  BY RecordsAssumption
<1> QED BY <1>1, <1>2

LEMMA EvaluatedExists ==
    ASSUME NEW what, NEW columns, NEW record
    PROVE  \E f : IsEvaluated(f, what, columns, record)
<1> DEFINE Near(e) == CHOOSE f : EvaluatedBelow(f, what, columns, record, Depth(e) + 1)
           F == [e \in Expressions |-> Near(e)[e]]
<1>1. ASSUME NEW e \in Expressions
      PROVE  EvaluatedBelow(Near(e), what, columns, record, Depth(e) + 1)
  <2>1. Depth(e) + 1 \in Nat
    BY RecordsAssumption
  <2> QED BY <2>1, EvaluatedBelowExists
<1> HIDE DEF Near
<1>2. ASSUME NEW e \in Expressions
      PROVE  F[e] = EvaluateStep(what, columns, record, e, F[e.first], F[e.second])
  <2> DEFINE f == Near(e)
  <2>1. Depth(e) \in Nat /\ Depth(e) + 1 \in Nat /\ Depth(e) < Depth(e) + 1
    BY RecordsAssumption
  <2>2. F[e] = EvaluateStep(what, columns, record, e, f[e.first], f[e.second])
    BY <1>1, <2>1 DEF EvaluatedBelow
  <2>3. CASE e.kind \notin Operators
    <3> HIDE DEF F, f
    <3> QED BY <2>2, <2>3, StepOfLeaf
  <2>4. CASE e.kind \in Operators
    <3>1. ASSUME NEW x \in {e.first, e.second} PROVE F[x] = f[x]
      <4>1. /\ x \in Expressions /\ Depth(x) + 1 \in Nat /\ Depth(x) < Depth(x) + 1
            /\ Depth(x) < Depth(e) + 1
        BY <2>4, <3>1, OperandFacts
      <4>2. /\ EvaluatedBelow(Near(x), what, columns, record, Depth(x) + 1)
            /\ EvaluatedBelow(f, what, columns, record, Depth(e) + 1)
        BY <1>1, <4>1
      <4>3. Near(x)[x] = f[x]
        <5> HIDE DEF f
        <5> QED BY <2>1, <4>1, <4>2, EvaluatedBelowAgree
      <4> QED BY <4>1, <4>3
    <3> HIDE DEF F, f
    <3> QED BY <2>2, <3>1
  <2> QED BY <2>3, <2>4
<1>3. F = [e \in Expressions |->
             EvaluateStep(what, columns, record, e, F[e.first], F[e.second])]
  <2>1. F = [e \in Expressions |-> F[e]]
    OBVIOUS
  <2> HIDE DEF F
  <2> QED BY <1>2, <2>1
<1> HIDE DEF F
<1>4. IsEvaluated(F, what, columns, record)
  BY <1>3 DEF IsEvaluated
<1> QED BY <1>4

LEMMA ExpressionEquation ==
    ASSUME NEW columns, NEW record, NEW expression
    PROVE  \E f : /\ IsEvaluated(f, "value", columns, record)
                  /\ expression_get(columns, record, expression) = f[expression]
<1> DEFINE F(g) == [e \in Expressions |->
          CASE e.kind = "literal" -> Ok(e.value)
            [] e.kind = "column" ->
                 record_get_value(columns, record, e.table, e.name)
            [] OTHER ->
                 IF e.first.type # e.operands \/ e.second.type # e.operands
                 THEN Error("NON_MATCHING_TYPES")
                 ELSE IF Failed(g[e.first]) THEN g[e.first]
                 ELSE IF Failed(g[e.second]) THEN g[e.second]
                 ELSE Apply(e, g[e.first].value, g[e.second].value)]
           f == CHOOSE g : g = F(g)
<1>1. expression_get(columns, record, expression) = f[expression]
  BY DEF expression_get
<1>2. ASSUME NEW g
      PROVE  F(g) = [e \in Expressions |->
                       EvaluateStep("value", columns, record, e, g[e.first], g[e.second])]
  BY DEF EvaluateStep
<1>3. PICK g : IsEvaluated(g, "value", columns, record)
  BY EvaluatedExists
<1>4. f = F(f)
  <2> HIDE DEF F
  <2>1. g = F(g)
    BY <1>2, <1>3 DEF IsEvaluated
  <2> USE DEF F
  <2> QED BY <2>1
<1>5. IsEvaluated(f, "value", columns, record)
  BY <1>2, <1>4 DEF IsEvaluated
<1> QED BY <1>1, <1>5

LEMMA DeclaredEquation ==
    ASSUME NEW columns, NEW expression
    PROVE  \E f : /\ IsEvaluated(f, "declared", columns, <<>>)
                  /\ AsDeclared(columns, expression) = f[expression]
<1> DEFINE F(g) == [e \in Expressions |->
          CASE e.kind = "literal" -> TRUE
            [] e.kind = "column" ->
                 DeclaredAt(columns, find_schema(columns, e.table, e.name), e.type)
            [] OTHER -> g[e.first] /\ g[e.second]]
           f == CHOOSE g : g = F(g)
<1>1. AsDeclared(columns, expression) = f[expression]
  BY DEF AsDeclared
<1>2. ASSUME NEW g
      PROVE  F(g) = [e \in Expressions |->
                       EvaluateStep("declared", columns, <<>>, e, g[e.first], g[e.second])]
  BY DEF EvaluateStep
<1>3. PICK g : IsEvaluated(g, "declared", columns, <<>>)
  BY EvaluatedExists
<1>4. f = F(f)
  <2> HIDE DEF F
  <2>1. g = F(g)
    BY <1>2, <1>3 DEF IsEvaluated
  <2> USE DEF F
  <2> QED BY <2>1
<1>5. IsEvaluated(f, "declared", columns, <<>>)
  BY <1>2, <1>4 DEF IsEvaluated
<1> QED BY <1>1, <1>5
-----------------------------------------------------------------------------
LEMMA FoundColumn ==
    ASSUME NEW columns, AreColumns(columns), NEW table, NEW name
    PROVE  find_schema(columns, table, name) \in 0 .. Len(columns)
<1> DEFINE ks == {k \in DOMAIN columns :
                    str_eq(table, columns[k].table) /\ str_eq(name, columns[k].name)}
<1>1. ks \in SUBSET (1 .. Len(columns)) /\ Len(columns) \in Nat
  BY DEF AreColumns
<1>2. find_schema(columns, table, name) = First(ks)
  BY DEF find_schema
<1> HIDE DEF ks
<1>3. CASE ks = {}
  <2>1. First(ks) = 0
    BY <1>3, FirstOfNone
  <2> QED BY <1>1, <1>2, <2>1
<1>4. CASE ks # {}
  <2>1. ks \in SUBSET Nat
    BY <1>1
  <2>2. First(ks) \in ks
    BY <1>4, <2>1, FirstIsLeast
  <2>3. First(ks) \in 1 .. Len(columns)
    BY <1>1, <2>2
  <2> QED BY <1>1, <1>2, <2>3
<1> QED BY <1>3, <1>4

(* Arithmetic wraps, so that its result has the type of its operands.      *)
LEMMA WrappedFacts ==
    ASSUME NEW n \in Int, NEW type \in {"INT32", "UINT64"}
    PROVE  Typed(type, <<Wrapped(type, n)>>)
<1>1. Half \in Nat /\ Half > 0 /\ 2 * Half \in Nat \ {0}
  BY RecordsAssumption
<1>2. \A m \in Int : m % (2 * Half) \in 0 .. 2 * Half - 1
  BY <1>1
<1>3. CASE type = "UINT64"
  BY <1>2, <1>3 DEF Typed, Wrapped
<1>4. CASE type = "INT32"
  <2>1. (n + Half) % (2 * Half) \in 0 .. 2 * Half - 1
    BY <1>1, <1>2
  <2>2. Wrapped(type, n) = ((n + Half) % (2 * Half)) - Half
    BY <1>4 DEF Wrapped
  <2>3. Wrapped(type, n) \in -Half .. Half - 1
    BY <1>1, <2>1, <2>2
  <2> QED BY <1>4, <2>3 DEF Typed
<1> QED BY <1>3, <1>4

LEMMA AppliedFacts ==
    ASSUME NEW e \in Expressions, e.kind \in Operators, NEW a, NEW b,
           e.operands \in {"INT32", "UINT64"} => Typed(e.operands, a) /\ Typed(e.operands, b),
           ~Failed(Apply(e, a, b))
    PROVE  e.type \in ColumnTypes /\ Typed(e.type, Apply(e, a, b).value)
<1>1. CASE e.kind = "arithmetic"
  <2>1. Apply(e, a, b) = arithmetic_operator_apply(e.op, e.operands, a, b)
    BY <1>1 DEF Apply
  <2>2. e.operands \in {"INT32", "UINT64"}
    BY <2>1 DEF arithmetic_operator_apply, Failed, Error
  <2>3. e.type = e.operands /\ e.op \in {"PLUS", "MINUS", "MUL"}
    BY <1>1, RecordsAssumption DEF Operators
  <2>4. e.operands \in ColumnTypes /\ e.operands # "STRING"
    BY <2>2 DEF ColumnTypes
  <2>5. PICK i \in Int, j \in Int : a = <<i>> /\ b = <<j>>
    BY <2>2, <2>4, TypedFacts
  <2> DEFINE n == CASE e.op = "PLUS" -> a[1] + b[1]
                    [] e.op = "MINUS" -> a[1] - b[1]
                    [] e.op = "MUL" -> a[1] * b[1]
  <2>6. n \in Int
    BY <2>3, <2>5
  <2>7. Apply(e, a, b) = Ok(<<Wrapped(e.operands, n)>>)
    BY <2>1, <2>2 DEF arithmetic_operator_apply
  <2> HIDE DEF n
  <2>8. Typed(e.operands, <<Wrapped(e.operands, n)>>)
    BY <2>2, <2>6, WrappedFacts
  <2> QED BY <2>3, <2>4, <2>7, <2>8 DEF Ok
<1>2. CASE e.kind \in {"comparison", "logical"}
  <2>1. e.type = "BOOL"
    BY <1>2, RecordsAssumption DEF Operators
  <2>2. Apply(e, a, b).value \in {<<0>>, <<1>>}
    BY <1>2 DEF Apply, comparison_operator_apply, logical_operator_apply, Ok, Bool
  <2> QED BY <2>1, <2>2 DEF Typed, ColumnTypes
<1> QED BY <1>1, <1>2 DEF Operators

(* What an expression over a record evaluates to has the type the          *)
(* expression was made with, if its columns are as declared.               *)
LEMMA ValueTyped ==
    ASSUME NEW columns, AreColumns(columns), NEW record, IsRecord(columns, record),
           NEW expression \in Expressions, AsDeclared(columns, expression),
           ~Failed(expression_get(columns, record, expression))
    PROVE  /\ expression.type \in ColumnTypes
           /\ Typed(expression.type, expression_get(columns, record, expression).value)
<1>1. PICK f : /\ IsEvaluated(f, "value", columns, record)
               /\ expression_get(columns, record, expression) = f[expression]
  BY ExpressionEquation
<1>2. PICK g : /\ IsEvaluated(g, "declared", columns, <<>>)
               /\ AsDeclared(columns, expression) = g[expression]
  BY DeclaredEquation
<1>3. \A e \in Expressions :
        /\ f[e] = EvaluateStep("value", columns, record, e, f[e.first], f[e.second])
        /\ g[e] = EvaluateStep("declared", columns, <<>>, e, g[e.first], g[e.second])
  BY <1>1, <1>2 DEF IsEvaluated
<1> DEFINE Right(e) == g[e] /\ ~Failed(f[e]) => e.type \in ColumnTypes /\ Typed(e.type, f[e].value)
           T == {d \in Nat : \E e \in Expressions : ~Right(e) /\ Depth(e) = d}
<1>4. T = {}
  <2> SUFFICES ASSUME T # {} PROVE FALSE
    OBVIOUS
  <2>1. PICK d \in T : \A i \in T : d <= i
    BY LeastOf
  <2>2. PICK e \in Expressions : ~Right(e) /\ Depth(e) = d
    BY <2>1
  <2>3. g[e] /\ ~Failed(f[e])
    BY <2>2
  <2>4. CASE e.kind = "literal"
    <3>1. f[e] = Ok(e.value)
      BY <1>3, <2>4 DEF EvaluateStep
    <3> QED BY <2>2, <2>4, <3>1, RecordsAssumption DEF Ok
  <2>5. CASE e.kind = "column"
    <3> DEFINE k == find_schema(columns, e.table, e.name)
    <3>1. f[e] = ValueAt(record, k) /\ g[e] = DeclaredAt(columns, k, e.type)
      BY <1>3, <2>5 DEF EvaluateStep, record_get_value
    <3>2. k \in 0 .. Len(columns)
      BY FoundColumn
    <3> HIDE DEF k
    <3>3. k # 0 /\ f[e] = Ok(record[k])
      <4>1. CASE k = 0
        BY <2>3, <3>1, <4>1 DEF ValueAt, Failed, Error, COLUMN_NOT_FOUND
      <4>2. CASE k # 0
        BY <3>1, <4>2 DEF ValueAt
      <4> QED BY <4>1, <4>2
    <3>4. k \in 1 .. Len(columns) /\ columns[k].type = e.type
      <4>1. DeclaredAt(columns, k, e.type)
        BY <2>3, <3>1
      <4>2. k \in 1 .. Len(columns) /\ k > 0
        BY <3>2, <3>3 DEF AreColumns
      <4> QED BY <4>1, <4>2 DEF DeclaredAt
    <3>5. e.type \in ColumnTypes /\ Typed(e.type, record[k])
      BY <3>4 DEF AreColumns, IsRecord
    <3> QED BY <2>2, <3>3, <3>5 DEF Ok
  <2>6. CASE e.kind \in Operators
    <3> DEFINE x == f[e.first]
               y == f[e.second]
    <3>1. e.kind # "literal" /\ e.kind # "column"
      BY <2>6 DEF Operators
    <3>2. /\ e.first.type = e.operands /\ e.second.type = e.operands
          /\ ~Failed(x) /\ ~Failed(y) /\ f[e] = Apply(e, x.value, y.value)
      <4>1. f[e] = IF e.first.type # e.operands \/ e.second.type # e.operands
                   THEN Error("NON_MATCHING_TYPES")
                   ELSE IF Failed(x) THEN x
                   ELSE IF Failed(y) THEN y
                   ELSE Apply(e, x.value, y.value)
        BY <1>3, <3>1 DEF EvaluateStep
      <4>2. Failed(Error("NON_MATCHING_TYPES"))
        BY DEF Failed, Error
      <4> HIDE DEF x, y
      <4> QED BY <2>3, <4>1, <4>2
    <3>3. g[e.first] /\ g[e.second]
      BY <1>3, <2>3, <3>1 DEF EvaluateStep
    <3>4. ASSUME NEW z \in {e.first, e.second} PROVE Right(z)
      <4>1. z \in Expressions /\ Depth(z) \in Nat /\ Depth(z) < d /\ d \in Nat
        BY <2>2, <2>6, <3>4, OperandFacts
      <4>2. Depth(z) \notin T
        <5>1. ~(d <= Depth(z))
          BY <4>1
        <5> HIDE DEF T
        <5> QED BY <2>1, <5>1
      <4> HIDE DEF Right
      <4> QED BY <4>1, <4>2
    <3>5. /\ Typed(e.operands, x.value) /\ Typed(e.operands, y.value)
      BY <3>2, <3>3, <3>4
    <3>6. e.type \in ColumnTypes /\ Typed(e.type, f[e].value)
      <4> HIDE DEF x, y
      <4> QED BY <2>3, <2>6, <3>2, <3>5, AppliedFacts
    <3> QED BY <2>2, <3>6
  <2> QED BY <2>4, <2>5, <2>6, RecordsAssumption
<1>5. Right(expression)
  <2>1. Depth(expression) \in Nat
    BY RecordsAssumption
  <2> HIDE DEF Right
  <2> QED BY <1>4, <2>1
<1> QED BY <1>1, <1>2, <1>5
-----------------------------------------------------------------------------
(* What an update has set up to a column.                                  *)
SetStep(columns, record, table, updates, k, before) ==
    IF k = 0 THEN Ok(record)
    ELSE IF Failed(before) THEN before
    ELSE SetTo(columns, before.value, table, updates[k].name,
               expression_get(columns, before.value, updates[k].expression))
IsSet(f, columns, record, table, updates, n) ==
    f = [k \in 0 .. n |-> SetStep(columns, record, table, updates, k, f[k - 1])]

LEMMA SetExists ==
    ASSUME NEW columns, NEW record, NEW table, NEW updates, NEW n \in Nat
    PROVE  \E f : IsSet(f, columns, record, table, updates, n)
<1> DEFINE Step(k, before) == SetStep(columns, record, table, updates, k, before)
           T == {m \in Nat : ~\E f : IsSet(f, columns, record, table, updates, m)}
<1> SUFFICES ASSUME T # {} PROVE FALSE
  OBVIOUS
<1>1. PICK m \in T : \A i \in T : m <= i
  BY LeastOf
<1>2. CASE m = 0
  <2>1. IsSet([j \in 0 .. 0 |-> Ok(record)], columns, record, table, updates, 0)
    BY DEF IsSet, SetStep
  <2> QED BY <1>1, <1>2, <2>1
<1>3. CASE m > 0
  <2>1. PICK f : IsSet(f, columns, record, table, updates, m - 1)
    BY <1>1, <1>3
  <2> DEFINE g == [j \in 0 .. m |-> IF j = m THEN Step(m, f[m - 1]) ELSE f[j]]
  <2>2. \A j \in 0 .. m : g[j] = Step(j, g[j - 1])
    <3> SUFFICES ASSUME NEW j \in 0 .. m PROVE g[j] = Step(j, g[j - 1])
      OBVIOUS
    <3>1. CASE j = m
      BY <1>3, <3>1
    <3>2. CASE j = 0
      BY <1>3, <2>1, <3>2 DEF IsSet, SetStep
    <3>3. CASE j # m /\ j # 0
      <4>1. j \in 0 .. m - 1 /\ g[j] = f[j] /\ g[j - 1] = f[j - 1]
        BY <1>3, <3>3
      <4> QED BY <2>1, <4>1 DEF IsSet
    <3> QED BY <3>1, <3>2, <3>3
  <2>3. g = [j \in 0 .. m |-> Step(j, g[j - 1])]
    BY <2>2
  <2>4. IsSet(g, columns, record, table, updates, m)
    BY <2>3 DEF IsSet
  <2> QED BY <1>1, <2>4
<1> QED BY <1>1, <1>2, <1>3

LEMMA SetEquation ==
    ASSUME NEW columns, NEW record, NEW table, NEW updates, Len(updates) \in Nat
    PROVE  \E f : /\ IsSet(f, columns, record, table, updates, Len(updates))
                  /\ record_update_apply(columns, record, table, updates) = f[Len(updates)]
<1> DEFINE f == CHOOSE g : g = [k \in 0 .. Len(updates) |->
          IF k = 0 THEN Ok(record)
          ELSE IF Failed(g[k - 1]) THEN g[k - 1]
          ELSE SetTo(columns, g[k - 1].value, table, updates[k].name,
                     expression_get(columns, g[k - 1].value, updates[k].expression))]
<1>1. record_update_apply(columns, record, table, updates) = f[Len(updates)]
  BY DEF record_update_apply
<1>2. \E g : IsSet(g, columns, record, table, updates, Len(updates))
  BY SetExists
<1>3. IsSet(f, columns, record, table, updates, Len(updates))
  BY <1>2 DEF IsSet, SetStep
<1> QED BY <1>1, <1>3

(* One column set to a value of its type.                                  *)
LEMMA SetToFacts ==
    ASSUME NEW columns, AreColumns(columns), NEW record, IsRecord(columns, record),
           NEW table, NEW name, NEW e \in Expressions, AsDeclared(columns, e),
           DeclaredAt(columns, find_schema(columns, table, name), e.type),
           NEW r, r = SetTo(columns, record, table, name, expression_get(columns, record, e)),
           ~Failed(r)
    PROVE  IsRecord(columns, r.value)
<1> DEFINE v == expression_get(columns, record, e)
           k == find_schema(columns, table, name)
<1>1. ~Failed(v) /\ r = WithValue(record, k, v.value)
  <2>1. r = IF Failed(v) THEN v ELSE WithValue(record, k, v.value)
    BY DEF SetTo, record_set_value
  <2> HIDE DEF v, k
  <2> QED BY <2>1
<1>2. e.type \in ColumnTypes /\ Typed(e.type, v.value)
  BY <1>1, ValueTyped
<1>3. k \in 0 .. Len(columns)
  BY FoundColumn
<1> HIDE DEF v, k
<1>4. k # 0
  BY <1>1 DEF WithValue, Failed, Error, COLUMN_NOT_FOUND
<1>5. k \in 1 .. Len(columns) /\ columns[k].type = e.type
  <2>1. k \in 1 .. Len(columns) /\ k > 0
    BY <1>3, <1>4 DEF AreColumns
  <2> QED BY <2>1 DEF DeclaredAt, k
<1>6. r.value = [record EXCEPT ![k] = v.value]
  BY <1>1, <1>4 DEF WithValue, Ok
<1>7. record \in Seq(Seq(Int)) /\ Len(record) = Len(columns) /\ v.value \in Seq(Int)
      /\ Len(columns) \in Nat
  BY <1>2, TypedFacts DEF IsRecord, AreColumns
<1>8. r.value \in Seq(Seq(Int)) /\ Len(r.value) = Len(columns)
      /\ \A c \in 1 .. Len(columns) : r.value[c] = IF c = k THEN v.value ELSE record[c]
  <2>1. record \in [1 .. Len(columns) -> Seq(Int)]
    BY <1>7, LenProperties
  <2>2. /\ r.value \in [1 .. Len(columns) -> Seq(Int)]
        /\ \A c \in 1 .. Len(columns) : r.value[c] = IF c = k THEN v.value ELSE record[c]
    BY <1>6, <1>7, <2>1
  <2>3. r.value \in Seq(Seq(Int))
    <3>1. \E n \in Nat : r.value \in [1 .. n -> Seq(Int)]
      BY <1>7, <2>2
    <3> QED BY <3>1, SeqDef
  <2>4. DOMAIN r.value = 1 .. Len(r.value) /\ Len(r.value) \in Nat
    BY <2>3, LenProperties
  <2>5. DOMAIN r.value = 1 .. Len(columns)
    BY <2>2
  <2>6. Len(r.value) = Len(columns)
    BY <1>7, <2>4, <2>5
  <2> QED BY <2>2, <2>3, <2>6
<1> QED BY <1>2, <1>5, <1>8 DEF IsRecord

(* An update that keeps the types makes a record of a record.              *)
LEMMA UpdatedTyped ==
    ASSUME NEW s \in Updates, s.what \in Tables, TypesKept(s),
           NEW record, IsRecord(Schema[s.what], record),
           ~Failed(record_update_apply(Schema[s.what], record, s.what, s.set))
    PROVE  IsRecord(Schema[s.what],
                    record_update_apply(Schema[s.what], record, s.what, s.set).value)
<1> DEFINE columns == Schema[s.what]
           n == Len(s.set)
<1>1. AreColumns(columns) /\ n \in Nat /\ \A k \in 1 .. n : s.set[k].expression \in Expressions
  BY StatementsAssumption
<1>2. \A k \in 1 .. n :
        /\ AsDeclared(columns, s.set[k].expression)
        /\ DeclaredAt(columns, find_schema(columns, s.what, s.set[k].name),
                      s.set[k].expression.type)
  BY DEF TypesKept
<1> HIDE DEF columns
<1>3. PICK f : /\ IsSet(f, columns, record, s.what, s.set, n)
               /\ record_update_apply(columns, record, s.what, s.set) = f[n]
  BY <1>1, SetEquation
<1>4. \A k \in 0 .. n : f[k] = SetStep(columns, record, s.what, s.set, k, f[k - 1])
  BY <1>3 DEF IsSet
<1> DEFINE Good(k) == ~Failed(f[k]) => IsRecord(columns, f[k].value)
           T == {k \in 0 .. n : ~Good(k)}
<1>5. T = {}
  <2> SUFFICES ASSUME T # {} PROVE FALSE
    OBVIOUS
  <2>1. PICK k \in T : \A i \in T : k <= i
    <3>1. T \in SUBSET Nat
      BY <1>1
    <3> HIDE DEF T
    <3> QED BY <3>1, LeastOf
  <2>2. k \in 0 .. n /\ ~Good(k)
    BY <2>1
  <2>3. f[k] = SetStep(columns, record, s.what, s.set, k, f[k - 1])
    BY <1>4, <2>2
  <2>4. CASE k = 0
    <3>1. f[k].value = record
      BY <2>3, <2>4 DEF SetStep, Ok
    <3> QED BY <2>2, <3>1 DEF columns
  <2>5. CASE k # 0
    <3>1. k \in 1 .. n /\ k - 1 \in 0 .. n /\ ~(k <= k - 1)
      BY <1>1, <2>2, <2>5
    <3>2. k - 1 \notin T
      <4> HIDE DEF T
      <4> QED BY <2>1, <3>1
    <3>3. Good(k - 1)
      <4> HIDE DEF Good
      <4> QED BY <3>1, <3>2
    <3> DEFINE before == f[k - 1]
               e == s.set[k].expression
               r == SetTo(columns, before.value, s.what, s.set[k].name,
                          expression_get(columns, before.value, e))
    <3>4. ~Failed(before) /\ f[k] = r /\ ~Failed(r)
      <4>1. f[k] = IF Failed(before) THEN before ELSE r
        BY <2>3, <2>5 DEF SetStep
      <4>2. ~Failed(f[k])
        BY <2>2
      <4> HIDE DEF before, r
      <4> QED BY <4>1, <4>2
    <3>5. IsRecord(columns, before.value)
      BY <3>3, <3>4
    <3>6. e \in Expressions /\ AsDeclared(columns, e)
          /\ DeclaredAt(columns, find_schema(columns, s.what, s.set[k].name), e.type)
      BY <1>1, <1>2, <3>1
    <3>7. IsRecord(columns, r.value)
      <4> HIDE DEF before, e
      <4> QED BY <1>1, <3>4, <3>5, <3>6, SetToFacts
    <3> QED BY <2>2, <3>4, <3>7
  <2> QED BY <2>4, <2>5
<1>6. Good(n)
  <2>1. n \in 0 .. n
    BY <1>1
  <2> HIDE DEF Good
  <2> QED BY <1>5, <2>1
<1> QED BY <1>3, <1>6 DEF columns
-----------------------------------------------------------------------------
Readable(t, item) ==
    /\ item \in Seq(Int)
    /\ ~Failed(RowOf(t, item)) /\ IsRecord(Schema[t], RowOf(t, item).value)
    /\ WrittenAs(t, RowOf(t, item).value, item)
ItemsReadable ==
    wrong = {} =>
        \A t \in Tables \ foreign : \A k \in 1 .. Len(rows[t]) : Readable(t, Item(t, k))
RInv == IInv /\ ItemsReadable

LEMMA WrittenReadable ==
    ASSUME NEW t \in Tables, NEW record, IsRecord(Schema[t], record), NEW tail \in Seq(Int),
           NEW item, item = serialize_columns(Schema[t], record) \o tail
    PROVE  Readable(t, item)
<1> DEFINE cells == serialize_columns(Schema[t], record)
<1>1. /\ cells \in Seq(Int)
      /\ RowOf(t, item) = [error |-> "none", value |-> record, rest |-> tail]
  BY ReadBack, StatementsAssumption DEF RowOf
<1>2. ~Failed(RowOf(t, item)) /\ RowOf(t, item).value = record
  BY <1>1 DEF Failed
<1> HIDE DEF cells
<1>3. item \in Seq(Int) /\ cells = SubSeq(item, 1, Len(cells))
  <2>1. /\ item = cells \o tail /\ item \in Seq(Int) /\ Len(item) = Len(cells) + Len(tail)
        /\ Len(cells) \in Nat /\ Len(tail) \in Nat
        /\ \A i \in 1 .. Len(cells) + Len(tail) :
              item[i] = IF i <= Len(cells) THEN cells[i] ELSE tail[i - Len(cells)]
    BY <1>1, ConcatProperties, LenProperties DEF cells
  <2>2. \A i \in 1 .. Len(cells) : item[i] = cells[i]
    BY <2>1
  <2>3. SubSeq(item, 1, Len(cells)) = [i \in 1 .. Len(cells) |-> item[i]]
    BY <2>1
  <2>4. cells = [i \in 1 .. Len(cells) |-> cells[i]]
    BY <1>1
  <2> QED BY <2>1, <2>2, <2>3, <2>4
<1> QED BY <1>2, <1>3 DEF Readable, WrittenAs, cells

LEMMA RowsKeepReadable ==
    ASSUME RInv, wrong = {}, UNCHANGED <<rows, foreign>>
    PROVE  ItemsReadable'
  BY DEF RInv, ItemsReadable, Item

LEMMA InsertReadable ==
    ASSUME RInv, NEW s \in Inserts, Insert(s)
    PROVE  ItemsReadable'
<1>1. wrong = {} /\ s.into \in Tables
  BY DEF Insert, Quiet, Begin
<1>2. PICK end \in Ends(Len(s.values)) :
        /\ rows' = [rows EXCEPT ![s.into] = @ \o
                      [k \in 1 .. end - 1 |-> serialize_columns(s.columns, s.values[k])]]
        /\ foreign' = IF end > 1 /\ s.columns # Schema[s.into]
                      THEN foreign \cup {s.into} ELSE foreign
  BY DEF Insert
<1>3. end \in 1 .. Len(s.values) + 1 /\ Len(s.values) \in Nat
  BY StatementsAssumption DEF Ends
<1> DEFINE old == rows[s.into]
           new == [k \in 1 .. end - 1 |-> serialize_columns(s.columns, s.values[k])]
<1>4. /\ rows'[s.into] = old \o new /\ \A t \in Tables : t # s.into => rows'[t] = rows[t]
      /\ IsList(old) /\ Len(old) \in Nat
  BY <1>1, <1>2, ListFacts DEF RInv, IInv, RowsBounded
<1>5. IsList(new) /\ Len(new) = end - 1 /\ \A k \in 1 .. end - 1 :
                                             new[k] = serialize_columns(s.columns, s.values[k])
  <2>1. end - 1 \in Nat /\ DOMAIN new = 1 .. end - 1
        /\ new = [k \in 1 .. end - 1 |-> new[k]]
    BY <1>3
  <2>2. \A k \in 1 .. end - 1 : new[k] = serialize_columns(s.columns, s.values[k])
    OBVIOUS
  <2> HIDE DEF new
  <2> QED BY <2>1, <2>2, FunctionIsList
<1> HIDE DEF old, new
<1> SUFFICES ASSUME NEW t \in Tables, t \notin foreign', NEW k \in 1 .. Len(rows'[t])
             PROVE  Readable(t, rows'[t][k])
  BY DEF ItemsReadable, Item, Readable, RowOf, WrittenAs
<1>6. t \notin foreign
  BY <1>2
<1>7. CASE t # s.into
  <2>1. rows'[t] = rows[t]
    BY <1>4, <1>7
  <2> QED BY <1>1, <1>6, <2>1 DEF RInv, ItemsReadable, Item
<1>8. CASE t = s.into
  <2>1. /\ Len(old \o new) = Len(old) + Len(new) /\ Len(new) \in Nat
        /\ \A i \in 1 .. Len(old) + Len(new) :
              (old \o new)[i] = IF i <= Len(old) THEN old[i] ELSE new[i - Len(old)]
    <3> DEFINE S == ItemsOf(old) \cup ItemsOf(new)
    <3>1. old \in Seq(S) /\ new \in Seq(S)
      BY <1>4, <1>5, SeqMonotonic DEF IsList
    <3>2. Len(new) \in Nat
      BY <1>3, <1>5
    <3> HIDE DEF S
    <3> QED BY <3>1, <3>2, ConcatProperties
  <2>2. k \in 1 .. Len(old) + Len(new) /\ rows'[t] = old \o new
    BY <1>4, <1>8, <2>1
  <2>3. CASE k <= Len(old)
    <3>1. rows'[t][k] = Item(t, k) /\ k \in 1 .. Len(rows[t])
      BY <1>4, <1>8, <2>1, <2>2, <2>3 DEF Item, old
    <3> QED BY <1>1, <1>6, <3>1 DEF RInv, ItemsReadable
  <2>4. CASE ~(k <= Len(old))
    <3> DEFINE i == k - Len(old)
    <3>1. i \in 1 .. end - 1 /\ i \in 1 .. Len(s.values) /\ end > 1
      BY <1>3, <1>4, <1>5, <2>1, <2>2, <2>4
    <3>2. rows'[t][k] = new[i]
      BY <2>1, <2>2, <2>4
    <3> HIDE DEF i
    <3>3. s.columns = Schema[t]
      BY <1>2, <1>8, <3>1
    <3>4. rows'[t][k] = serialize_columns(Schema[t], s.values[i])
      BY <1>5, <3>1, <3>2, <3>3
    <3>5. IsRecord(Schema[t], s.values[i]) /\ AreColumns(Schema[t])
      BY <3>1, <3>3, StatementsAssumption
    <3>6. serialize_columns(Schema[t], s.values[i]) \in Seq(Int) /\ <<>> \in Seq(Int)
      BY <3>5, ReadBack, EmptySeq
    <3>7. rows'[t][k] = serialize_columns(Schema[t], s.values[i]) \o <<>>
      BY <3>4, <3>6, ConcatEmptySeq
    <3> QED BY <3>5, <3>6, <3>7, WrittenReadable
  <2> QED BY <2>3, <2>4
<1> QED BY <1>7, <1>8

LEMMA DeleteReadable ==
    ASSUME RInv, NEW s \in Deletes, Delete(s)
    PROVE  ItemsReadable'
<1>1. wrong = {} /\ s.from \in Tables /\ UNCHANGED foreign
  BY DEF Delete, Quiet, Begin
<1>2. PICK keep : rows' = [rows EXCEPT ![s.from] = Kept(rows[s.from], keep)]
  BY DEF Delete
<1> DEFINE old == rows[s.from]
<1>3. /\ rows'[s.from] = Kept(old, keep) /\ \A t \in Tables : t # s.from => rows'[t] = rows[t]
      /\ IsList(old) /\ DOMAIN old = 1 .. Len(old)
  BY <1>1, <1>2, ListFacts DEF RInv, IInv, RowsBounded
<1> HIDE DEF old
<1> SUFFICES ASSUME NEW t \in Tables, t \notin foreign, NEW k \in 1 .. Len(rows'[t])
             PROVE  Readable(t, rows'[t][k])
  BY <1>1 DEF ItemsReadable, Item, Readable, RowOf, WrittenAs
<1>4. CASE t # s.from
  <2>1. rows'[t] = rows[t]
    BY <1>3, <1>4
  <2> QED BY <1>1, <2>1 DEF RInv, ItemsReadable, Item
<1>5. CASE t = s.from
  <2>1. rows'[t] \in Seq(ItemsOf(old))
    BY <1>3, <1>5, KeptFacts
  <2>2. rows'[t][k] \in ItemsOf(old)
    BY <2>1
  <2>3. PICK i \in 1 .. Len(old) : rows'[t][k] = old[i]
    BY <1>3, <2>2 DEF ItemsOf
  <2> QED BY <1>1, <1>5, <2>3 DEF RInv, ItemsReadable, Item, old
<1> QED BY <1>4, <1>5
-----------------------------------------------------------------------------
(* The records an update writes are chosen and were changed without error. *)
LEMMA HitFacts ==
    ASSUME NEW n \in Nat, NEW chosen, NEW changed, NEW e, DOMAIN chosen = 1 .. n,
           chosen = [k \in 1 .. n |-> chosen[k]],
           NEW end, end = UpdateEnd(chosen, changed, e),
           NEW k \in 1 .. end - 1, IsTrue(chosen[k].value)
    PROVE  k \in 1 .. n /\ ~Failed(chosen[k]) /\ ~Failed(changed[k])
<1> DEFINE K == {i \in DOMAIN chosen :
                   \/ i >= e
                   \/ Failed(chosen[i])
                   \/ IsTrue(chosen[i].value) /\ Failed(changed[i])}
<1>1. end = EndOr(First(K), Len(chosen)) /\ K \in SUBSET (1 .. n) /\ K \in SUBSET Nat
  BY DEF UpdateEnd
<1>2. Len(chosen) = n
  BY FunctionIsList
<1>3. k \in 1 .. n /\ k \notin K
  <2>1. CASE K = {}
    <3> HIDE DEF K
    <3>1. First(K) = 0
      BY <2>1, FirstOfNone
    <3>2. end = n + 1
      BY <1>1, <1>2, <3>1 DEF EndOr
    <3> QED BY <2>1, <3>2
  <2>2. CASE K # {}
    <3> HIDE DEF K
    <3>1. First(K) \in K /\ \A i \in K : First(K) <= i
      BY <1>1, <2>2, FirstIsLeast
    <3>2. First(K) \in 1 .. n
      BY <1>1, <3>1
    <3>3. end = First(K)
      BY <1>1, <3>2 DEF EndOr
    <3>4. k \in 1 .. n /\ ~(end <= k)
      BY <3>2, <3>3
    <3> QED BY <3>1, <3>3, <3>4
  <2> QED BY <2>1, <2>2
<1> QED BY <1>3

(* What a chosen and readable record is overwritten with can be read.      *)
LEMMA OverwrittenReadable ==
    ASSUME NEW s \in Updates, s.what \in Tables, TypesKept(s),
           NEW old, Readable(s.what, old),
           NEW changed, ~Failed(changed),
           changed = record_update_apply(Schema[s.what], RowOf(s.what, old).value, s.what, s.set),
           NEW new, new = NewItem(s.what, changed), ~(Len(new) > Len(old))
    PROVE  Readable(s.what, Overwritten(old, new))
<1>1. old \in Seq(Int) /\ IsRecord(Schema[s.what], RowOf(s.what, old).value)
  BY DEF Readable
<1>2. IsRecord(Schema[s.what], changed.value)
  BY <1>1, UpdatedTyped
<1>3. new = serialize_columns(Schema[s.what], changed.value) /\ AreColumns(Schema[s.what])
  BY StatementsAssumption DEF NewItem
<1>4. new \in Seq(Int)
  <2>1. <<>> \in Seq(Int)
    BY EmptySeq
  <2> QED BY <1>2, <1>3, <2>1, ReadBack
<1> DEFINE tail == SubSeq(old, Len(new) + 1, Len(old))
<1>5. tail \in Seq(Int)
  <2>1. Len(new) + 1 \in Int /\ Len(old) \in Int
        /\ \A i \in Len(new) + 1 .. Len(old) : old[i] \in Int
    <3>1. Len(new) \in Nat /\ Len(old) \in Nat
      BY <1>1, <1>4, LenProperties
    <3>2. \A i \in 1 .. Len(old) : old[i] \in Int
      BY <1>1
    <3> QED BY <3>1, <3>2
  <2> QED BY <2>1, SubSeqProperties
<1>6. Overwritten(old, new) = new \o tail
  BY DEF Overwritten
<1> HIDE DEF tail
<1> QED BY <1>2, <1>3, <1>5, <1>6, WrittenReadable

LEMMA UpdateReadable ==
    ASSUME RInv, NEW s \in Updates, Update(s)
    PROVE  ItemsReadable'
<1> DEFINE t == s.what
           old == rows[t]
<1>1. wrong = {} /\ t \in Tables /\ UNCHANGED foreign
  BY DEF Update, Quiet, Begin
<1>2. PICK chosen \in {[k \in DOMAIN rows[s.what] |-> Chosen(s, s.what, k)]},
           e \in Ends(Len(rows[s.what])) :
        \E changed \in {[k \in DOMAIN chosen |->
                           IF IsTrue(chosen[k].value) THEN Changed(s, s.what, k)
                           ELSE chosen[k]]} :
        \E end \in {UpdateEnd(chosen, changed, e)} :
        \E hit \in {{k \in 1 .. end - 1 : IsTrue(chosen[k].value)}} :
           UpdateUpTo(s, s.what, end, hit, [k \in hit |-> NewItem(s.what, changed[k])])
  BY Zenon DEF Update
<1>3. PICK changed \in {[k \in DOMAIN chosen |->
                          IF IsTrue(chosen[k].value) THEN Changed(s, s.what, k)
                          ELSE chosen[k]]} :
        \E end \in {UpdateEnd(chosen, changed, e)} :
        \E hit \in {{k \in 1 .. end - 1 : IsTrue(chosen[k].value)}} :
           UpdateUpTo(s, s.what, end, hit, [k \in hit |-> NewItem(s.what, changed[k])])
  BY <1>2, Zenon
<1>4. PICK end \in {UpdateEnd(chosen, changed, e)} :
        \E hit \in {{k \in 1 .. end - 1 : IsTrue(chosen[k].value)}} :
           UpdateUpTo(s, s.what, end, hit, [k \in hit |-> NewItem(s.what, changed[k])])
  BY <1>3, Zenon
<1>5. PICK hit \in {{k \in 1 .. end - 1 : IsTrue(chosen[k].value)}} :
           UpdateUpTo(s, s.what, end, hit, [k \in hit |-> NewItem(s.what, changed[k])])
  BY <1>4, Zenon
<1> DEFINE items == [k \in hit |-> NewItem(t, changed[k])]
<1>6. IsList(old) /\ Len(old) \in Nat /\ DOMAIN old = 1 .. Len(old) /\ DOMAIN rows = Tables
  BY <1>1, ListFacts DEF RInv, IInv, RowsBounded
<1>7. /\ chosen = [k \in DOMAIN old |-> Chosen(s, t, k)]
      /\ changed = [k \in DOMAIN chosen |->
                      IF IsTrue(chosen[k].value) THEN Changed(s, t, k) ELSE chosen[k]]
      /\ end = UpdateEnd(chosen, changed, e)
      /\ hit = {k \in 1 .. end - 1 : IsTrue(chosen[k].value)}
  OBVIOUS
<1>8. CASE UNCHANGED rows
  BY <1>1, <1>8, RowsKeepReadable
<1>9. CASE ~UNCHANGED rows
  <2> SUFFICES ASSUME wrong' = {}, NEW u \in Tables, u \notin foreign, NEW k \in 1 .. Len(rows'[u])
               PROVE  Readable(u, rows'[u][k])
    BY <1>1 DEF ItemsReadable, Item, Readable, RowOf, WrittenAs
  <2> DEFINE written == [k1 \in DOMAIN old |->
                           IF k1 \in hit THEN Overwritten(old[k1], items[k1]) ELSE old[k1]]
  <2>1. /\ TypesKept(s)
        /\ rows' = [rows EXCEPT ![t] = written]
        /\ ~\E k1 \in hit : Len(items[k1]) > Len(Item(t, k1))
    <3> HIDE DEF items
    <3> QED BY <1>5, <1>9 DEF UpdateUpTo, items
  <2>2. CASE u # t
    <3>1. rows'[u] = rows[u]
      BY <1>6, <2>1, <2>2
    <3> QED BY <1>1, <3>1 DEF RInv, ItemsReadable, Item
  <2>3. CASE u = t
    <3>1. rows'[u] = written
      BY <1>1, <1>6, <2>1, <2>3
    <3>2. DOMAIN written = 1 .. Len(old) /\ written = [k1 \in 1 .. Len(old) |-> written[k1]]
      BY <1>6
    <3>3. Len(written) = Len(old)
      <4> HIDE DEF written, old
      <4> QED BY <1>6, <3>2, FunctionIsList
    <3>4. k \in 1 .. Len(old) /\ k \in DOMAIN old
      BY <1>6, <3>1, <3>3
    <3>5. Readable(t, old[k]) /\ old[k] = Item(t, k)
      BY <1>1, <2>3, <3>4 DEF RInv, ItemsReadable, Item
    <3>6. CASE k \notin hit
      BY <2>3, <3>1, <3>4, <3>5, <3>6
    <3>7. CASE k \in hit
      <4>1. rows'[u][k] = Overwritten(old[k], items[k]) /\ items[k] = NewItem(t, changed[k])
        BY <3>1, <3>4, <3>7
      <4>2. k \in 1 .. end - 1 /\ IsTrue(chosen[k].value)
        BY <1>7, <3>7
      <4>3. DOMAIN chosen = 1 .. Len(old) /\ chosen = [k1 \in 1 .. Len(old) |-> chosen[k1]]
        BY <1>6, <1>7
      <4>4. ~Failed(changed[k])
        <5>1. end = UpdateEnd(chosen, changed, e)
          BY <1>7
        <5> DEFINE n == Len(old)
        <5>2. /\ n \in Nat /\ DOMAIN chosen = 1 .. n
              /\ chosen = [k1 \in 1 .. n |-> chosen[k1]]
          BY <1>6, <4>3
        <5> HIDE DEF n
        <5> QED BY <4>2, <5>1, <5>2, HitFacts
      <4>5. changed[k] = Changed(s, t, k)
        BY <1>7, <3>4, <4>2, <4>3
      <4>6. changed[k] = record_update_apply(Schema[t], RowOf(t, old[k]).value, t, s.set)
        BY <3>5, <4>5 DEF Changed, Row
      <4>7. ~(Len(items[k]) > Len(old[k]))
        BY <2>1, <3>5, <3>7
      <4> DEFINE a == old[k]
                 c == changed[k]
                 b == items[k]
      <4>8. /\ Readable(t, a) /\ ~Failed(c) /\ b = NewItem(t, c) /\ ~(Len(b) > Len(a))
            /\ c = record_update_apply(Schema[t], RowOf(t, a).value, t, s.set)
        BY <3>5, <4>1, <4>4, <4>6, <4>7
      <4>9. rows'[u][k] = Overwritten(a, b)
        BY <4>1
      <4> HIDE DEF a, b, c
      <4>10. Readable(t, Overwritten(a, b))
        BY <1>1, <2>1, <4>8, OverwrittenReadable
      <4> QED BY <2>3, <4>9, <4>10
    <3> QED BY <3>6, <3>7
  <2> QED BY <2>2, <2>3
<1> QED BY <1>8, <1>9

LEMMA ReadableInvariance == Spec => []RInv
<1>1. ASSUME Init PROVE RInv
  <2>1. \A t \in Tables : Len(rows[t]) = 0
    BY <1>1 DEF Init
  <2>2. ItemsReadable
    BY <2>1 DEF ItemsReadable
  <2> QED BY <1>1, <2>2, InitIInv DEF RInv
<1>2. ASSUME RInv, IInv', [Next]_vars PROVE RInv'
  <2> SUFFICES ItemsReadable'
    BY <1>2 DEF RInv
  <2>1. ASSUME NEW s \in Queries,
               QueryUnknown(s) \/ QueryMissesJoin(s) \/ QueryClonesLogical(s) \/ Query(s)
        PROVE  ItemsReadable'
    <3>1. wrong = {} /\ UNCHANGED <<rows, foreign>>
      BY <2>1 DEF QueryUnknown, QueryMissesJoin, QueryClonesLogical, Query, Begin
    <3> QED BY <1>2, <3>1, RowsKeepReadable
  <2>2. ASSUME Read \/ Finish PROVE ItemsReadable'
    <3>1. wrong = {} /\ UNCHANGED <<rows, foreign>>
      BY <2>2 DEF Read, Finish
    <3> QED BY <1>2, <3>1, RowsKeepReadable
  <2>3. ASSUME NEW s, NEW t, Unknown(s, t) PROVE ItemsReadable'
    <3>1. wrong = {} /\ UNCHANGED <<rows, foreign>>
      BY <2>3 DEF Unknown, Quiet, Begin
    <3> QED BY <1>2, <3>1, RowsKeepReadable
  <2>4. ASSUME NEW s \in Catalogues, Catalogue(s) PROVE ItemsReadable'
    <3>1. wrong = {} /\ UNCHANGED <<rows, foreign>>
      BY <2>4 DEF Catalogue, Quiet, Begin
    <3> QED BY <1>2, <3>1, RowsKeepReadable
  <2>5. ASSUME UNCHANGED vars PROVE ItemsReadable'
    BY <1>2, <2>5 DEF RInv, ItemsReadable, Item, vars
  <2> QED BY <1>2, <2>1, <2>2, <2>3, <2>4, <2>5, InsertReadable, UpdateReadable,
             DeleteReadable DEF Next
<1> QED BY <1>1, <1>2, Invariance, PTL DEF Spec

(* Every stored item can be read back as a record of its table's types     *)
(* that would be written as the same cells again, over insertions, updates *)
(* in place by shorter strings and statements that stop half-way; unless   *)
(* the code has already gone wrong or the table holds records of other     *)
(* columns.                                                                *)
THEOREM ItemsStayReadable == Spec => []RowsReadable
<1>1. ASSUME RInv PROVE RowsReadable
  BY <1>1 DEF RInv, ItemsReadable, Readable, RowsReadable, Row
<1> QED BY <1>1, ReadableInvariance, PTL
=============================================================================
