----------------------- MODULE PageDataManagerProofs -----------------------
(***************************************************************************)
(* Proofs about PageDataManager, for every number of pages and cells and   *)
(* any records.  The inductive invariant IInv says of every page outside   *)
(* of vacuum that its items lie in a row (Tidy), and of the pages of a     *)
(* running vacuum where it stands: what it has left in order in front of   *)
(* its destination, how far the destination is filled, the emptied pages   *)
(* between, the part of the source page that is still to be read, and what *)
(* it has not come to.  The lists of pages are those of                    *)
(* PageGroupManagerProofs, whose invariant is one conjunct of IInv.        *)
(***************************************************************************)
EXTENDS PageDataManager, SequenceTheorems, FiniteSetTheorems, WellFoundedInduction, TLAPS

(* Numbers.  A set of natural numbers has a least one; the greatest and    *)
(* the least of two or three.                                              *)
Below == {ss \in Nat \X Nat : ss[1] < ss[2]}

LEMMA LeastOf ==
    ASSUME NEW T \in SUBSET Nat, T # {}
    PROVE  \E n \in T : \A m \in T : n <= m
<1>1. IsWellFoundedOn(Below, Nat)
  BY NatLessThanWellFounded DEF OpToRel, Below
<1>2. PICK n \in T : \A m \in T : <<m, n>> \notin Below
  BY <1>1, WFMin
<1>3. \A m \in T : ~(m < n)
  BY <1>2 DEF Below
<1> QED BY <1>2, <1>3

LEMMA MaxOfTwo ==
    ASSUME NEW a \in Nat, NEW b \in Nat
    PROVE  Max({a, b}) = IF a >= b THEN a ELSE b
  BY DEF Max

LEMMA MaxOfThree ==
    ASSUME NEW a \in Nat, NEW b \in Nat, NEW c \in Nat
    PROVE  /\ Max({a, b, c}) \in {a, b, c}
           /\ Max({a, b, c}) >= a /\ Max({a, b, c}) >= b /\ Max({a, b, c}) >= c
  BY DEF Max

LEMMA MinOfTwo ==
    ASSUME NEW a \in Nat, NEW b \in Nat
    PROVE  Min({a, b}) = IF a <= b THEN a ELSE b
  BY DEF Min
-----------------------------------------------------------------------------
(* The types of a page and its ids.                                        *)
ItemId == [offset : Int, size : Nat, deleted : BOOLEAN, item : Items \cup {Blank}]
IdList == {s \in Seq(ItemId) : Len(s) <= Capacity}
Page == [item_amount : 0 .. Capacity, start : 0 .. Capacity,
         end : -HeaderSize .. Capacity, ids : IdList]

(* The id at place i is written; the others keep place and size, and those *)
(* that are not met keep their record.                                     *)
IsWritten(w, ids, i, id, size) ==
    /\ w \in IdList /\ i \in 1 .. Len(w) /\ Len(ids) <= Len(w)
    /\ w[i] = id
    /\ \A j \in 1 .. Len(ids) : j # i =>
          /\ w[j].offset = ids[j].offset /\ w[j].size = ids[j].size
          /\ w[j].deleted = ids[j].deleted
          /\ ~Meets(ids[j], j, id.offset, size) => w[j] = ids[j]

LEMMA WrittenFacts ==
    ASSUME NEW ids \in IdList, NEW i \in 1 .. Capacity, NEW id \in ItemId, NEW size \in Nat
    PROVE  IsWritten(Written(ids, i, id, size), ids, i, id, size)
<1> DEFINE w == Written(ids, i, id, size)
           n == IF i >= Len(ids) THEN i ELSE Len(ids)
           new(j) == IF j = i THEN id
                     ELSE IF j > Len(ids) THEN ForgottenId
                     ELSE IF Meets(ids[j], j, id.offset, size)
                          THEN [ids[j] EXCEPT !.item = Blank] ELSE ids[j]
<1>1. ids \in Seq(ItemId) /\ Len(ids) \in Nat /\ Len(ids) <= Capacity /\ i \in Nat
      /\ Capacity \in Nat
  BY DataAssumption DEF IdList
<1>2. Max({i, Len(ids)}) = n
  BY <1>1, MaxOfTwo
<1>3. w = [j \in 1 .. n |-> new(j)]
  BY <1>2 DEF Written
<1>4. n \in Nat /\ n <= Capacity /\ i \in 1 .. n /\ Len(ids) <= n
  BY <1>1
<1>5. ForgottenId \in ItemId
  BY DEF ForgottenId, ItemId
<1>6. \A j \in 1 .. n : new(j) \in ItemId
  <2> SUFFICES ASSUME NEW j \in 1 .. n PROVE new(j) \in ItemId
    OBVIOUS
  <2>1. CASE j = i \/ j > Len(ids)
    BY <1>5, <2>1
  <2>2. CASE j # i /\ j <= Len(ids)
    <3>1. ids[j] \in ItemId
      BY <1>1, <1>4, <2>2, ElementOfSeq
    <3>2. [ids[j] EXCEPT !.item = Blank] \in ItemId
      BY <3>1 DEF ItemId
    <3> QED BY <2>2, <3>1, <3>2
  <2> QED BY <1>1, <1>4, <2>1, <2>2
<1> HIDE DEF n
<1>7. w \in Seq(ItemId) /\ Len(w) = n /\ \A j \in 1 .. n : w[j] = new(j)
  <2> HIDE DEF new, w
  <2> QED BY <1>3, <1>4, <1>6, IsASeq
<1>8. ASSUME NEW j \in 1 .. Len(ids), j # i
      PROVE  /\ w[j].offset = ids[j].offset /\ w[j].size = ids[j].size
             /\ w[j].deleted = ids[j].deleted
             /\ ~Meets(ids[j], j, id.offset, size) => w[j] = ids[j]
  <2>1. j \in 1 .. n /\ ids[j] \in ItemId /\ ~(j > Len(ids))
    BY <1>1, <1>4, <1>8, ElementOfSeq
  <2>2. w[j] = IF Meets(ids[j], j, id.offset, size)
               THEN [ids[j] EXCEPT !.item = Blank] ELSE ids[j]
    BY <1>7, <1>8, <2>1
  <2> HIDE DEF w
  <2> QED BY <2>1, <2>2 DEF ItemId
<1> HIDE DEF w, new
<1>9. w[i] = new(i) /\ new(i) = id
  BY <1>4, <1>7 DEF new
<1> QED BY <1>1, <1>4, <1>7, <1>8, <1>9 DEF IsWritten, IdList, w

(* The ids vacuum keeps of a page.                                         *)
LEMMA FirstNFacts ==
    ASSUME NEW ids \in IdList, NEW n \in Nat
    PROVE  /\ FirstN(ids, n) \in IdList
           /\ Len(FirstN(ids, n)) = IF n <= Len(ids) THEN n ELSE Len(ids)
           /\ \A i \in 1 .. Len(FirstN(ids, n)) : FirstN(ids, n)[i] = ids[i]
<1> DEFINE m == IF n <= Len(ids) THEN n ELSE Len(ids)
<1>1. ids \in Seq(ItemId) /\ Len(ids) \in Nat /\ Len(ids) <= Capacity /\ Capacity \in Nat
  BY DataAssumption DEF IdList
<1>2. FirstN(ids, n) = SubSeq(ids, 1, m) /\ m \in Nat /\ m <= Len(ids)
  BY <1>1, MinOfTwo DEF FirstN
<1> HIDE DEF m
<1>3. \A i \in 1 .. m : ids[i] \in ItemId
  BY <1>1, <1>2, ElementOfSeq
<1>4. /\ SubSeq(ids, 1, m) \in Seq(ItemId)
      /\ Len(SubSeq(ids, 1, m)) = m
      /\ \A i \in 1 .. m : SubSeq(ids, 1, m)[i] = ids[i]
  BY <1>1, <1>2, <1>3, SubSeqProperties
<1> QED BY <1>1, <1>2, <1>4 DEF m, IdList

(* The items at the places P of a page with the ids s: none reaches below  *)
(* the ids, they lie from the back in the order of their ids, ...          *)
End(s, i) == s[i].offset + s[i].size
Placed(s, P, low) ==
    \A i \in P :
        /\ i \in 1 .. Len(s) /\ s[i].size >= 1
        /\ s[i].offset >= low /\ s[i].offset + i <= Capacity /\ End(s, i) <= Capacity
Ordered(s, P) == \A i, j \in P : i < j => End(s, j) <= s[i].offset
(* ... and without gaps between neighbours.                                *)
Packed(s, P) == \A i \in P : i + 1 \in P => End(s, i + 1) = s[i].offset
Row(s, P, low) == Placed(s, P, low) /\ Ordered(s, P) /\ Packed(s, P)

(* Its records: the places with what lies there.                           *)
Stored(s, P) == {c \in P \X (Items \cup {Blank}) : ~s[c[1]].deleted /\ c[2] = s[c[1]].item}

SameSpace(s, t, P) ==
    \A i \in P : i \in 1 .. Len(t) /\ t[i].offset = s[i].offset /\ t[i].size = s[i].size
SameIds(s, t, P) == \A i \in P : i \in 1 .. Len(t) /\ t[i] = s[i]

LEMMA RowKept ==
    ASSUME NEW s, NEW t, NEW P, NEW Q \in SUBSET P, NEW low \in Int, NEW low2 \in Int,
           low2 <= low, Row(s, P, low), SameSpace(s, t, Q), s \in IdList, t \in IdList
    PROVE  Row(t, Q, low2)
<1>1. \A i \in Q : /\ i \in 1 .. Len(s) /\ i \in 1 .. Len(t) /\ s[i] \in ItemId
                   /\ t[i].offset = s[i].offset /\ t[i].size = s[i].size
  BY ElementOfSeq DEF Row, Placed, SameSpace, IdList
<1>2. Placed(t, Q, low2)
  <2>1. \A i \in Q : s[i].offset \in Int
    BY <1>1 DEF ItemId
  <2> QED BY <1>1, <2>1 DEF Row, Placed, End
<1>3. Ordered(t, Q) /\ Packed(t, Q)
  BY <1>1 DEF Row, Ordered, Packed, End
<1> QED BY <1>2, <1>3 DEF Row

LEMMA StoredKept ==
    ASSUME NEW s, NEW t, NEW P, SameIds(s, t, P)
    PROVE  Stored(t, P) = Stored(s, P)
  BY DEF Stored, SameIds

LEMMA SameIdsSpace ==
    ASSUME NEW s, NEW t, NEW P, SameIds(s, t, P)
    PROVE  SameSpace(s, t, P)
  BY DEF SameSpace, SameIds

(* An item is put behind the last of n, where the free space ends.         *)
LEMMA RowExtended ==
    ASSUME NEW s \in IdList, NEW n \in Nat, NEW end \in Int, NEW id \in ItemId,
           Row(s, 1 .. n, n), n # 0 => end = s[n].offset, end + n <= Capacity,
           end <= Capacity, id.size >= 1, id.offset = end - id.size, id.offset >= n + 1,
           n + 1 <= Capacity,
           NEW t, IsWritten(t, s, n + 1, id, id.size)
    PROVE  /\ Row(t, 1 .. n + 1, n + 1)
           /\ SameIds(s, t, 1 .. n)
<1>1. Len(s) \in Nat /\ Len(t) \in Nat /\ n <= Len(s) /\ Capacity \in Nat
      /\ Len(s) <= Len(t) /\ n + 1 <= Len(t)
  <2>1. n = 0 \/ n \in 1 .. n
    OBVIOUS
  <2>2. n = 0 \/ n <= Len(s)
    BY <2>1 DEF Row, Placed
  <2>3. Len(s) \in Nat /\ Len(t) \in Nat
    BY LenProperties DEF IdList, IsWritten
  <2> QED BY <2>2, <2>3, DataAssumption DEF IsWritten
<1>2. \A i \in 1 .. n : /\ i \in 1 .. Len(s) /\ s[i].offset \in Int /\ s[i].size \in Nat
                        /\ s[i].size >= 1 /\ s[i].offset >= n
                        /\ s[i].offset + i <= Capacity /\ s[i].offset + s[i].size <= Capacity
  <2>1. \A i \in 1 .. n : s[i] \in ItemId
    BY <1>1, ElementOfSeq DEF IdList
  <2> QED BY <1>1, <2>1 DEF Row, Placed, End, ItemId
<1>3. \A i \in 1 .. n : s[i].offset >= end /\ i < n + 1
  <2> SUFFICES ASSUME NEW i \in 1 .. n PROVE s[i].offset >= end
    OBVIOUS
  <2>1. CASE i = n
    BY <1>2, <2>1
  <2>2. CASE i < n
    <3>1. n \in 1 .. n /\ s[n].offset + s[n].size <= s[i].offset
      BY <2>2 DEF Row, Ordered, End
    <3> QED BY <1>2, <2>2, <3>1
  <2> QED BY <2>1, <2>2
<1>4. id.offset \in Int /\ id.size \in Nat
  BY DEF ItemId
<1>5. SameIds(s, t, 1 .. n)
  <2> SUFFICES ASSUME NEW i \in 1 .. n PROVE i \in 1 .. Len(t) /\ t[i] = s[i]
    BY DEF SameIds
  <2>1. ~Meets(s[i], i, id.offset, id.size)
    BY <1>2, <1>3, <1>4 DEF Meets
  <2>2. i \in 1 .. Len(s) /\ i # n + 1 /\ i \in 1 .. Len(t)
    BY <1>1
  <2> QED BY <2>1, <2>2 DEF IsWritten
<1>6. t[n + 1] = id
  BY DEF IsWritten
<1>7. Placed(t, 1 .. n + 1, n + 1)
  <2> SUFFICES ASSUME NEW i \in 1 .. n + 1
               PROVE  /\ i \in 1 .. Len(t) /\ t[i].size >= 1
                      /\ t[i].offset >= n + 1 /\ t[i].offset + i <= Capacity
                      /\ t[i].offset + t[i].size <= Capacity
    BY DEF Placed, End
  <2>1. CASE i = n + 1
    BY <1>1, <1>4, <1>6, <2>1
  <2>2. CASE i \in 1 .. n
    <3>1. t[i] = s[i]
      BY <1>5, <2>2 DEF SameIds
    <3> QED BY <1>1, <1>2, <1>3, <1>4, <2>2, <3>1
  <2> QED BY <2>1, <2>2
<1>8. Ordered(t, 1 .. n + 1)
  <2> SUFFICES ASSUME NEW i \in 1 .. n + 1, NEW j \in 1 .. n + 1, i < j
               PROVE  t[j].offset + t[j].size <= t[i].offset
    BY DEF Ordered, End
  <2>1. i \in 1 .. n /\ t[i] = s[i]
    BY <1>5 DEF SameIds
  <2>2. CASE j = n + 1
    BY <1>2, <1>3, <1>4, <1>6, <2>1, <2>2
  <2>3. CASE j \in 1 .. n
    <3>1. t[j] = s[j]
      BY <1>5, <2>3 DEF SameIds
    <3> QED BY <2>1, <2>3, <3>1 DEF Row, Ordered, End
  <2> QED BY <2>2, <2>3
<1>9. Packed(t, 1 .. n + 1)
  <2> SUFFICES ASSUME NEW i \in 1 .. n + 1, i + 1 \in 1 .. n + 1
               PROVE  t[i + 1].offset + t[i + 1].size = t[i].offset
    BY DEF Packed, End
  <2>1. i \in 1 .. n /\ t[i] = s[i]
    BY <1>5 DEF SameIds
  <2>2. CASE i = n
    BY <1>4, <1>6, <2>1, <2>2
  <2>3. CASE i + 1 \in 1 .. n
    <3>1. t[i + 1] = s[i + 1]
      BY <1>5, <2>3 DEF SameIds
    <3> QED BY <2>1, <2>3, <3>1 DEF Row, Packed, End
  <2> QED BY <2>1, <2>2, <2>3
<1> QED BY <1>5, <1>7, <1>8, <1>9 DEF Row

(* vacuum moves an item of a page to the front of the same page, behind    *)
(* the n it has moved or passed; it takes the items at the places up to k  *)
(* in their order, and is at place m + 1.                                  *)
Around(n, m, k) == 1 .. n \cup m + 1 .. k

(* Another id is put at a place.                                           *)
Replaced(u, s, i, id) ==
    /\ u \in IdList /\ Len(u) = Len(s) /\ u[i] = id
    /\ \A j \in 1 .. Len(s) : j # i => u[j] = s[j]

LEMMA ExceptReplaces ==
    ASSUME NEW s \in IdList, NEW i \in 1 .. Len(s), NEW id \in ItemId
    PROVE  Replaced([s EXCEPT ![i] = id], s, i, id)
<1>1. s \in Seq(ItemId)
  BY DEF IdList
<1>2. /\ [s EXCEPT ![i] = id] \in Seq(ItemId) /\ Len([s EXCEPT ![i] = id]) = Len(s)
      /\ \A j \in 1 .. Len(s) : [s EXCEPT ![i] = id][j] = IF j = i THEN id ELSE s[j]
  BY <1>1, ExceptSeq
<1>3. Len(s) <= Capacity
  BY DEF IdList
<1> HIDE DEF IdList
<1>4. [s EXCEPT ![i] = id] \in IdList
  BY <1>2, <1>3 DEF IdList
<1> QED BY <1>2, <1>4 DEF Replaced

Movable(s, n, m, k, end, id) ==
    /\ n < m /\ m < k
    /\ Row(s, Around(n, m, k), k)
    /\ n # 0 => end = s[n].offset
    /\ end + n <= Capacity /\ k <= end /\ end <= Capacity
    /\ \A i \in m + 1 .. k : End(s, i) <= end
    /\ id.size = s[m + 1].size /\ id.offset = end - id.size

LEMMA RowMoved ==
    ASSUME NEW s \in IdList, NEW n \in Nat, NEW m \in Nat, NEW k \in Nat,
           NEW end \in Int, NEW id \in ItemId, Movable(s, n, m, k, end, id),
           NEW u, Replaced(u, s, m + 1, id),
           NEW t, IsWritten(t, u, n + 1, id, id.size)
    PROVE  /\ Row(t, Around(n + 1, m + 1, k), k)
           /\ SameIds(s, t, Around(n, m, k) \ {m + 1})
           /\ n + 1 \in 1 .. Len(t) /\ t[n + 1] = id
           /\ k <= id.offset /\ id.offset + n + 1 <= Capacity
           /\ id.offset \in Nat
           /\ \A i \in m + 1 + 1 .. k : End(t, i) <= id.offset
<1> DEFINE P == Around(n, m, k)
<1> DEFINE Q == Around(n + 1, m + 1, k)
<1>1. /\ \A i : i \in P <=> i \in Int /\ (i \in 1 .. n \/ i \in m + 1 .. k)
      /\ \A i : i \in Q <=> i \in Int /\ (i \in 1 .. n + 1 \/ i \in m + 2 .. k)
  BY DEF Around
<1>2. /\ n < m /\ m < k
      /\ n # 0 => end = s[n].offset
      /\ end + n <= Capacity /\ k <= end /\ end <= Capacity
      /\ id.size = s[m + 1].size /\ id.offset = end - id.size
  BY DEF Movable
<1>3. /\ Row(s, P, k)
      /\ SameIds(s, t, P \ {m + 1}) => SameIds(s, t, Around(n, m, k) \ {m + 1})
      /\ Row(t, Q, k) => Row(t, Around(n + 1, m + 1, k), k)
  BY <1>2 DEF Movable
<1> HIDE DEF P, Q
<1>4. /\ Len(s) \in Nat /\ Capacity \in Nat /\ s \in Seq(ItemId)
      /\ \A i \in P : i \in 1 .. Len(s)
  BY <1>3, LenProperties, DataAssumption DEF IdList, Row, Placed
<1>5. /\ k \in P /\ m + 1 \in P /\ k <= Len(s) /\ m + 1 \in 1 .. Len(s)
      /\ m + 1 \notin 1 .. n
  <2>1. k \in P /\ m + 1 \in P /\ m + 1 \notin 1 .. n
    BY <1>2, <1>1
  <2> QED BY <1>2, <1>4, <2>1
<1>6. \A i \in P : /\ s[i] \in ItemId /\ s[i].offset \in Int /\ s[i].size \in Nat
                   /\ s[i].size >= 1 /\ s[i].offset >= k
                   /\ s[i].offset + i <= Capacity /\ s[i].offset + s[i].size <= Capacity
  <2>1. \A i \in P : s[i] \in ItemId
    BY <1>2, <1>4, ElementOfSeq
  <2> QED BY <1>2, <1>3, <2>1 DEF Row, Placed, End, ItemId
<1>7. \A i, j \in P : i < j => s[j].offset + s[j].size <= s[i].offset
  BY <1>2, <1>3 DEF Row, Ordered, End
<1>8. /\ id.size = s[m + 1].size /\ id.offset = end - id.size
      /\ id.offset \in Int /\ id.size \in Nat /\ id.size >= 1
      /\ id.offset >= s[m + 1].offset /\ id.offset >= k
      /\ s[m + 1].offset \in Int
  <2>1. m + 1 \in m + 1 .. k
    BY <1>2
  <2>2. s[m + 1].offset + s[m + 1].size <= end
    BY <1>2, <2>1 DEF Movable, End
  <2>3. s[m + 1].offset \in Int /\ s[m + 1].size \in Nat /\ s[m + 1].size >= 1
        /\ s[m + 1].offset >= k
    BY <1>2, <1>5, <1>6
  <2> QED BY <1>2, <2>2, <2>3
<1>9. u \in IdList /\ Len(u) = Len(s) /\ u[m + 1] = id
      /\ \A i \in 1 .. Len(s) : i # m + 1 => u[i] = s[i]
  BY DEF Replaced
<1>10. IsWritten(t, u, n + 1, id, id.size)
  OBVIOUS
<1>11. Len(t) \in Nat /\ Len(s) <= Len(t) /\ t[n + 1] = id /\ n + 1 \in 1 .. Len(t)
  BY <1>9, <1>10, LenProperties DEF IsWritten, IdList
<1>12. \A i \in 1 .. n : s[i].offset >= end /\ i \in P
  <2> SUFFICES ASSUME NEW i \in 1 .. n PROVE s[i].offset >= end /\ i \in P
    OBVIOUS
  <2>1. i \in P /\ n \in P
    BY <1>2, <1>1
  <2>2. CASE i = n
    BY <1>2, <1>6, <2>1, <2>2
  <2>3. CASE i < n
    <3>1. s[n].offset + s[n].size <= s[i].offset
      BY <1>2, <1>7, <2>1, <2>3
    <3> QED BY <1>2, <1>6, <2>1, <2>3, <3>1
  <2> QED BY <1>2, <2>1, <2>2, <2>3
<1>13. \A i \in m + 2 .. k : s[i].offset + s[i].size <= s[m + 1].offset /\ i \in P
  <2> SUFFICES ASSUME NEW i \in m + 2 .. k
               PROVE  s[i].offset + s[i].size <= s[m + 1].offset /\ i \in P
    OBVIOUS
  <2>1. i \in P /\ m + 1 < i
    BY <1>2, <1>1
  <2> QED BY <1>2, <1>5, <1>7, <2>1
<1>14. SameIds(s, t, P \ {m + 1})
  <2> SUFFICES ASSUME NEW i \in P \ {m + 1} PROVE i \in 1 .. Len(t) /\ t[i] = s[i]
    BY <1>2 DEF SameIds
  <2>1. i \in 1 .. Len(s) /\ i \in Int /\ i # n + 1 /\ (i \in 1 .. n \/ i \in m + 2 .. k)
    BY <1>2, <1>1, <1>4
  <2>2. ~Meets(s[i], i, id.offset, id.size)
    <3>1. CASE i \in 1 .. n
      BY <1>2, <1>6, <1>8, <1>12, <3>1 DEF Meets
    <3>2. CASE i \in m + 2 .. k
      <4>1. s[i].offset + s[i].size <= id.offset
        <5>1. i \in P /\ s[i].offset + s[i].size <= s[m + 1].offset
          BY <1>13, <3>2
        <5>2. s[i].offset \in Int /\ s[i].size \in Int
          BY <1>6, <5>1
        <5> QED BY <1>8, <5>1, <5>2
      <4>2. i - 1 < id.offset
        BY <1>8, <3>2
      <4> QED BY <1>6, <1>8, <1>13, <3>2, <4>1, <4>2 DEF Meets
    <3> QED BY <1>2, <2>1, <3>1, <3>2
  <2>3. u[i] = s[i] /\ i \in 1 .. Len(t) /\ i \in 1 .. Len(u)
    BY <1>2, <1>4, <1>9, <1>11, <2>1
  <2> QED BY <1>2, <1>10, <2>1, <2>2, <2>3 DEF IsWritten
<1>15. \A i \in Q : \/ i = n + 1
                    \/ i \in 1 .. n /\ i \in P /\ t[i] = s[i]
                    \/ i \in m + 2 .. k /\ i \in P /\ t[i] = s[i]
  <2> SUFFICES ASSUME NEW i \in Q, i # n + 1
               PROVE  i \in P /\ t[i] = s[i] /\ (i \in 1 .. n \/ i \in m + 2 .. k)
    OBVIOUS
  <2>1. i \in P \ {m + 1} /\ (i \in 1 .. n \/ i \in m + 2 .. k)
    BY <1>2, <1>1
  <2> QED BY <1>2, <1>14, <2>1 DEF SameIds
<1>16. Placed(t, Q, k)
  <2> SUFFICES ASSUME NEW i \in Q
               PROVE  /\ i \in 1 .. Len(t) /\ t[i].size >= 1
                      /\ t[i].offset >= k /\ t[i].offset + i <= Capacity
                      /\ t[i].offset + t[i].size <= Capacity
    BY <1>2 DEF Placed, End
  <2>1. CASE i = n + 1
    <3>1. i \in 1 .. Len(t)
      BY <1>11, <2>1
    <3>2. t[i].size >= 1
      BY <1>8, <1>11, <2>1
    <3>3. t[i].offset >= k
      BY <1>8, <1>11, <2>1
    <3>4. id.offset + i <= Capacity
      BY <1>2, <1>4, <1>8, <2>1
    <3>5. id.offset + id.size <= Capacity
      BY <1>2, <1>4, <1>8
    <3> QED BY <1>11, <2>1, <3>1, <3>2, <3>3, <3>4, <3>5
  <2>2. CASE i \in P /\ t[i] = s[i]
    <3>1. i \in 1 .. Len(t)
      BY <1>2, <1>4, <1>11, <2>2
    <3> QED BY <1>2, <1>6, <2>2, <3>1
  <2> QED BY <1>2, <1>15, <2>1, <2>2
<1>17. Ordered(t, Q)
  <2> SUFFICES ASSUME NEW i \in Q, NEW j \in Q, i < j
               PROVE  t[j].offset + t[j].size <= t[i].offset
    BY <1>2 DEF Ordered, End
  <2>1. CASE i \in P /\ t[i] = s[i] /\ j \in P /\ t[j] = s[j]
    BY <1>2, <1>7, <2>1
  <2>2. CASE i = n + 1
    <3>1. j \in m + 2 .. k /\ j \in P /\ t[j] = s[j]
      BY <1>2, <1>15, <2>2
    <3>2. s[j].offset + s[j].size <= id.offset
      <4>1. s[j].offset + s[j].size <= s[m + 1].offset
        BY <1>13, <3>1
      <4>2. s[j].offset \in Int /\ s[j].size \in Int
        BY <1>6, <3>1
      <4> QED BY <1>8, <4>1, <4>2
    <3> QED BY <1>11, <2>2, <3>1, <3>2
  <2>3. CASE j = n + 1
    <3>1. i \in 1 .. n /\ i \in P /\ t[i] = s[i]
      BY <1>2, <1>15, <2>3
    <3>2. id.offset + id.size <= s[i].offset
      BY <1>6, <1>8, <1>12, <3>1
    <3> QED BY <1>11, <2>3, <3>1, <3>2
  <2> QED BY <1>2, <1>15, <2>1, <2>2, <2>3
<1>18. Packed(t, Q)
  <2> SUFFICES ASSUME NEW i \in Q, i + 1 \in Q
               PROVE  t[i + 1].offset + t[i + 1].size = t[i].offset
    BY <1>2 DEF Packed, End
  <2>1. CASE i \in P /\ t[i] = s[i] /\ i + 1 \in P /\ t[i + 1] = s[i + 1]
    BY <1>2, <1>3, <2>1 DEF Row, Packed, End
  <2>2. CASE i = n + 1
    BY <1>2, <1>1, <2>2
  <2>3. CASE i + 1 = n + 1
    <3>1. i = n /\ n # 0 /\ t[n] = s[n]
      <4>1. i = n /\ i \in Int
        BY <1>2, <1>1, <2>3
      <4> QED BY <1>2, <1>15, <4>1
    <3> QED BY <1>2, <1>8, <1>11, <2>3, <3>1
  <2> QED BY <1>2, <1>15, <2>1, <2>2, <2>3
<1>19. \A i \in m + 1 + 1 .. k : End(t, i) <= id.offset
  <2> SUFFICES ASSUME NEW i \in m + 1 + 1 .. k PROVE t[i].offset + t[i].size <= id.offset
    BY <1>2 DEF End
  <2>1. i \in m + 2 .. k /\ i # m + 1
    OBVIOUS
  <2>2. i \in P /\ t[i] = s[i] /\ s[i].offset + s[i].size <= s[m + 1].offset
    BY <1>2, <1>13, <1>14, <2>1 DEF SameIds
  <2>3. s[m + 1].offset <= id.offset /\ id.offset \in Int /\ s[m + 1].offset \in Int
    BY <1>5, <1>6, <1>8
  <2>4. s[i].offset \in Int /\ s[i].size \in Int
    BY <1>6, <2>2
  <2> QED BY <2>2, <2>3, <2>4
<1>20. id.offset + n + 1 <= Capacity /\ id.offset \in Nat
  BY <1>2, <1>4, <1>8
<1> QED BY <1>2, <1>3, <1>8, <1>11, <1>14, <1>16, <1>17, <1>18, <1>19, <1>20 DEF Row

(* The page groups, with what PageGroupManagerProofs knows of them.        *)
PGP == INSTANCE PageGroupManagerProofs

(* Both are the same module; the provers take them for two.                *)
LEMMA SameNames ==
    /\ PG!Pages = PGP!Pages /\ PG!PAGE_ID_NULL = PGP!PAGE_ID_NULL
    /\ PG!PageIds = PGP!PageIds /\ PG!Groups = PGP!Groups
    /\ PG!NewPage = PGP!NewPage /\ PG!CreatedHeader = PGP!CreatedHeader
    /\ PG!NullHeader = PGP!NullHeader /\ PG!DefaultHeader = PGP!DefaultHeader
    /\ PG!HasFreePage = PGP!HasFreePage /\ PG!Idle = PGP!Idle
    /\ PG!vars = PGP!vars
    /\ PG!links = PGP!links /\ PG!loop = PGP!loop /\ PG!history = PGP!history
  BY Zenon DEF PG!Pages, PGP!Pages, PG!PAGE_ID_NULL, PGP!PAGE_ID_NULL,
     PG!PageIds, PGP!PageIds, PG!Groups, PGP!Groups, PG!NewPage, PGP!NewPage,
     PG!CreatedHeader, PGP!CreatedHeader, PG!NullHeader, PGP!NullHeader,
     PG!DefaultHeader, PGP!DefaultHeader, PG!HasFreePage, PGP!HasFreePage,
     PG!Idle, PGP!Idle, PG!vars, PGP!vars, PG!links, PGP!links, PG!loop, PGP!loop,
     PG!history, PGP!history

LEMMA SameWithout == \A s, p : PG!Without(s, p) = PGP!Without(s, p)
  BY Zenon DEF PG!Without, PGP!Without, PG!RemoveFirst, PGP!RemoveFirst, PG!RemoveAt,
     PGP!RemoveAt, PG!SelectInSeq, PGP!SelectInSeq, PG!Min, PGP!Min

LEMMA SameTakePage == PG!TakePage = PGP!TakePage
  BY SameWithout, SameNames, Zenon DEF PG!TakePage, PGP!TakePage

LEMMA SameFreePage == \A h, p : PG!FreePage(h, p) = PGP!FreePage(h, p)
<1>1. \A s : PG!Range(s) = PGP!Range(s)
  BY Zenon DEF PG!Range, PGP!Range
<1>2. \A p : PG!PagesTo(p) = PGP!PagesTo(p)
  BY Zenon DEF PG!PagesTo, PGP!PagesTo
<1>3. \A h, p : PG!FreedHeader(h, p) = PGP!FreedHeader(h, p)
  BY SameNames, Zenon DEF PG!FreedHeader, PGP!FreedHeader
<1> QED BY <1>1, <1>2, <1>3, SameNames, Zenon DEF PG!FreePage, PGP!FreePage

LEMMA SameActions ==
    /\ PG!Init = PGP!Init /\ PG!TypeOK = PGP!TypeOK
    /\ PG!CreateGroup = PGP!CreateGroup
    /\ \A g : PG!AddPage(g) = PGP!AddPage(g)
    /\ \A g : PG!DeleteGroup(g) = PGP!DeleteGroup(g)
    /\ PG!DeleteGroupTurn = PGP!DeleteGroupTurn
    /\ PG!DeleteGroupReturn = PGP!DeleteGroupReturn
    /\ \A g, p : PG!FreeRest(g, p) = PGP!FreeRest(g, p)
    /\ PG!FreePageCurrent = PGP!FreePageCurrent
    /\ PG!FreeRestReturn = PGP!FreeRestReturn
    /\ PG!Restart = PGP!Restart
<1>1. \A s : PG!Range(s) = PGP!Range(s)
  BY Zenon DEF PG!Range, PGP!Range
<1>2. PG!Init = PGP!Init
  BY SameNames, Zenon DEF PG!Init, PGP!Init
<1>3. PG!TypeOK = PGP!TypeOK
  BY SameNames, Zenon DEF PG!TypeOK, PGP!TypeOK, PG!PageHeader, PGP!PageHeader,
     PG!ApplicationHeader, PGP!ApplicationHeader
<1>4. PG!CreateGroup = PGP!CreateGroup
  BY SameNames, SameTakePage, Zenon DEF PG!CreateGroup, PGP!CreateGroup,
     PG!links, PGP!links, PG!loop, PGP!loop, PG!history, PGP!history
<1>5. \A g : PG!AddPage(g) = PGP!AddPage(g)
  BY SameNames, SameTakePage, Zenon DEF PG!AddPage, PGP!AddPage,
     PG!links, PGP!links, PG!loop, PGP!loop, PG!history, PGP!history
<1>6. \A g : PG!DeleteGroup(g) = PGP!DeleteGroup(g)
  BY SameNames, Zenon DEF PG!DeleteGroup, PGP!DeleteGroup,
     PG!links, PGP!links, PG!loop, PGP!loop, PG!history, PGP!history
<1>7. PG!DeleteGroupTurn = PGP!DeleteGroupTurn
  BY SameNames, SameFreePage, SameWithout, Zenon DEF PG!DeleteGroupTurn, PGP!DeleteGroupTurn,
     PG!links, PGP!links, PG!loop, PGP!loop, PG!history, PGP!history
<1>8. PG!DeleteGroupReturn = PGP!DeleteGroupReturn
  BY SameNames, <1>1, Zenon DEF PG!DeleteGroupReturn, PGP!DeleteGroupReturn,
     PG!links, PGP!links, PG!loop, PGP!loop, PG!history, PGP!history
<1>9. \A g, p : PG!FreeRest(g, p) = PGP!FreeRest(g, p)
  BY SameNames, Zenon DEF PG!FreeRest, PGP!FreeRest,
     PG!links, PGP!links, PG!loop, PGP!loop, PG!history, PGP!history
<1>10. PG!FreePageCurrent = PGP!FreePageCurrent
  <2>1. \A p : PG!Unlinked(p) = PGP!Unlinked(p)
    BY SameNames, Zenon DEF PG!Unlinked, PGP!Unlinked
  <2> QED BY <2>1, SameNames, SameFreePage, SameWithout, Zenon
          DEF PG!FreePageCurrent, PGP!FreePageCurrent,
     PG!links, PGP!links, PG!loop, PGP!loop, PG!history, PGP!history
<1>11. PG!FreeRestReturn = PGP!FreeRestReturn
  BY SameNames, Zenon DEF PG!FreeRestReturn, PGP!FreeRestReturn,
     PG!links, PGP!links, PG!loop, PGP!loop, PG!history, PGP!history
<1>12. PG!Restart = PGP!Restart
  BY SameNames, <1>1, Zenon DEF PG!Restart, PGP!Restart,
     PG!links, PGP!links, PG!loop, PGP!loop, PG!history, PGP!history
<1> QED BY <1>2, <1>3, <1>4, <1>5, <1>6, <1>7, <1>8, <1>9, <1>10, <1>11, <1>12

LEMMA PageNumbers ==
    /\ NULL = 0 /\ NULL \notin PG!Pages /\ PG!Pages \subseteq Nat
    /\ PG!PageIds = PG!Pages \cup {NULL} /\ PG!Groups = DOMAIN chain
    /\ PG!Pages = 1 .. MaxPage /\ MaxPage \in Nat \ {0}
  BY DataAssumption DEF NULL, PG!PAGE_ID_NULL, PG!Pages, PG!PageIds, PG!Groups

(* The pages s of group g are linked by the headers h.                     *)
Listed(s, g, h) ==
    /\ s \in Seq(PG!Pages) /\ IsInjective(s)
    /\ Len(s) \in Nat \ {0} /\ DOMAIN s = 1 .. Len(s) /\ s[1] = g
    /\ \A i \in 1 .. Len(s) :
          s[i] \in PG!Pages /\ h[s[i]].next = IF i = Len(s) THEN NULL ELSE s[i + 1]

(* What is known of the groups between the turns of vacuum's last loop.    *)
LEMMA GroupFacts ==
    ASSUME PGP!Inv, ~damaged, NEW g \in PG!Groups, phase = "delete" => g # loop_group
    PROVE  /\ Listed(chain[g], g, header)
           /\ \A h \in PG!Groups \ {g} : Range(chain[g]) \cap Range(chain[h]) = {}
<1>1. /\ PGP!TypeOK /\ PGP!GroupsLinked /\ PGP!Apart /\ PGP!Phases
  BY DEF PGP!Inv, PGP!Sound
<1>2. g \in PGP!Groups /\ PGP!Pages = PG!Pages
  BY SameNames
<1>3. g \in PGP!Settled
  <2>1. phase \in {"idle", "delete", "vacuum"} /\ (phase = "idle" => loop_group = 0)
        /\ PGP!Groups \subseteq 1 .. page_amount
    BY <1>1 DEF PGP!TypeOK, PGP!Phases, PGP!PAGE_ID_NULL
  <2>2. g # 0
    BY <1>2, <2>1
  <2> QED BY <1>2, <2>1, <2>2 DEF PGP!Settled
<1> DEFINE s == chain[g]
<1>4. /\ s \in Seq(PG!Pages) /\ s # <<>> /\ s[1] = g /\ PGP!Linked(s)
  BY <1>1, <1>2, <1>3 DEF PGP!TypeOK, PGP!GroupsLinked
<1>5. /\ Len(s) \in Nat \ {0} /\ DOMAIN s = 1 .. Len(s)
      /\ \A i \in 1 .. Len(s) : s[i] \in PG!Pages
  BY <1>4, LenProperties, EmptySeq, ElementOfSeq
<1>6. /\ IsInjective(s)
      /\ \A h \in PG!Groups \ {g} : Range(s) \cap Range(chain[h]) = {}
  BY <1>1, <1>2, SameNames DEF PGP!Apart, PGP!IsInjective, IsInjective, PGP!Range, Range
<1>7. \A i \in 1 .. Len(s) : header[s[i]].next = IF i = Len(s) THEN NULL ELSE s[i + 1]
  BY <1>4, <1>5 DEF PGP!Linked, PGP!PAGE_ID_NULL, NULL, PG!PAGE_ID_NULL
<1> QED BY <1>4, <1>5, <1>6, <1>7 DEF Listed

(* item_iterator_preload_next_item goes from spot to spot until one ends   *)
(* it.                                                                     *)
WalkOf(f, D, T, v, succ) == f = [x \in D |-> IF x \in T THEN v[x] ELSE f[succ[x]]]

(* A function that goes from state to state until one ends it exists,      *)
(* whether or not it comes to an end.                                      *)
LEMMA WalkExists ==
    ASSUME NEW D, NEW T \in SUBSET D, NEW v, NEW succ \in [D -> D]
    PROVE  \E f : WalkOf(f, D, T, v, succ)
<1> DEFINE Path(w, n, x) ==
               /\ w \in [0 .. n -> D] /\ w[0] = x /\ w[n] \in T
               /\ \A k \in 0 .. n - 1 : w[k] \notin T /\ w[k + 1] = succ[w[k]]
           Ends(x) == {y \in T : \E n \in Nat : \E w : Path(w, n, x) /\ y = w[n]}
           f == [x \in D |-> IF Ends(x) = {} THEN 0 ELSE v[CHOOSE y \in Ends(x) : TRUE]]
<1>1. ASSUME NEW x \in T PROVE Ends(x) = {x}
  <2>1. x \in Ends(x)
    <3> DEFINE w == [k \in 0 .. 0 |-> x]
    <3>1. Path(w, 0, x)
      OBVIOUS
    <3>2. w[0] = x /\ 0 \in Nat
      OBVIOUS
    <3> HIDE DEF w, Path
    <3> QED BY <3>1, <3>2
  <2>2. ASSUME NEW n \in Nat, NEW w, Path(w, n, x) PROVE w[n] = x
    <3>1. CASE n = 0
      BY <2>2, <3>1
    <3>2. CASE n # 0
      <4>1. 0 \in 0 .. n - 1
        BY <3>2
      <4> QED BY <2>2, <4>1
    <3> QED BY <3>1, <3>2
  <2> HIDE DEF Path
  <2> QED BY <2>1, <2>2
<1>2. ASSUME NEW x \in D \ T PROVE Ends(x) = Ends(succ[x])
  <2>1. ASSUME NEW y \in T, NEW n \in Nat, NEW w, Path(w, n, x), y = w[n]
        PROVE  y \in Ends(succ[x])
    <3>1. n # 0 /\ n - 1 \in Nat /\ 0 \in 0 .. n - 1
      BY <2>1
    <3> DEFINE u == [k \in 0 .. n - 1 |-> w[k + 1]]
    <3>2. Path(u, n - 1, succ[x])
      <4>1. \A k \in 0 .. n - 1 : k + 1 \in 0 .. n /\ w[k + 1] \in D /\ u[k] = w[k + 1]
        BY <2>1, <3>1
      <4>2. u \in [0 .. n - 1 -> D]
        BY <4>1
      <4>3. u[0] = succ[x] /\ u[n - 1] \in T
        BY <2>1, <3>1, <4>1
      <4>4. ASSUME NEW k \in 0 .. n - 1 - 1 PROVE u[k] \notin T /\ u[k + 1] = succ[u[k]]
        <5>1. k \in 0 .. n - 1 /\ k + 1 \in 0 .. n - 1
          BY <3>1
        <5> QED BY <2>1, <4>1, <5>1
      <4> HIDE DEF u
      <4> QED BY <4>2, <4>3, <4>4
    <3>3. u[n - 1] = y
      BY <2>1, <3>1
    <3> HIDE DEF u, Path
    <3> QED BY <3>1, <3>2, <3>3
  <2>2. ASSUME NEW y \in T, NEW n \in Nat, NEW w, Path(w, n, succ[x]), y = w[n]
        PROVE  y \in Ends(x)
    <3> DEFINE u == [k \in 0 .. n + 1 |-> IF k = 0 THEN x ELSE w[k - 1]]
    <3>1. Path(u, n + 1, x)
      <4>1. \A k \in 1 .. n + 1 : k - 1 \in 0 .. n /\ w[k - 1] \in D /\ u[k] = w[k - 1]
        BY <2>2
      <4>2. u[0] = x /\ u \in [0 .. n + 1 -> D]
        BY <4>1
      <4>3. u[n + 1] \in T
        BY <2>2, <4>1
      <4>4. ASSUME NEW k \in 0 .. n + 1 - 1 PROVE u[k] \notin T /\ u[k + 1] = succ[u[k]]
        <5>1. CASE k = 0
          BY <2>2, <4>1, <4>2, <5>1
        <5>2. CASE k # 0
          <6>1. k - 1 \in 0 .. n - 1 /\ k \in 1 .. n + 1 /\ k + 1 \in 1 .. n + 1
                /\ k + 1 - 1 = k - 1 + 1
            BY <5>2
          <6>2. u[k + 1] = w[k + 1 - 1] /\ u[k] = w[k - 1]
            BY <4>1, <6>1
          <6>3. w[k - 1 + 1] = succ[w[k - 1]] /\ w[k - 1] \notin T
            BY <2>2, <6>1
          <6> HIDE DEF u
          <6> QED BY <6>1, <6>2, <6>3
        <5> QED BY <5>1, <5>2
      <4> HIDE DEF u
      <4> QED BY <4>2, <4>3, <4>4
    <3>2. u[n + 1] = y /\ n + 1 \in Nat
      BY <2>2
    <3> HIDE DEF u, Path
    <3> QED BY <3>1, <3>2
  <2> HIDE DEF Path
  <2> QED BY <2>1, <2>2
<1>3. f = [x \in D |-> IF x \in T THEN v[x] ELSE f[succ[x]]]
  <2>1. ASSUME NEW x \in D PROVE f[x] = IF x \in T THEN v[x] ELSE f[succ[x]]
    <3> HIDE DEF Ends
    <3>1. CASE x \in T
      BY <1>1, <3>1
    <3>2. CASE x \notin T
      BY <1>2, <3>2
    <3> QED BY <3>1, <3>2
  <2>2. f = [x \in D |-> f[x]]
    OBVIOUS
  <2> HIDE DEF f
  <2> QED BY <2>1, <2>2
<1> HIDE DEF f
<1> QED BY <1>3 DEF WalkOf

Spots == PG!Pages \X PG!PageIds \X (0 .. Capacity)
Stops == {at \in Spots :
   IF at[3] < data[at[1]].item_amount THEN ~data[at[1]].ids[at[3] + 1].deleted
   ELSE at[2] # NULL => ~data[at[2]].ids[1].deleted}
GoesOn(at) == IF at[3] < data[at[1]].item_amount THEN <<at[1], at[2], at[3] + 1>>
              ELSE <<at[2], header[at[2]].next, 1>>
Gives(at) ==
   IF at[3] < data[at[1]].item_amount
   THEN [page |-> at[1], next_page |-> at[2], index |-> at[3], is_empty |-> FALSE]
   ELSE IF at[2] = NULL
   THEN [page |-> at[1], next_page |-> at[2], index |-> 0, is_empty |-> TRUE]
   ELSE [page |-> at[2], next_page |-> header[at[2]].next, index |-> 0, is_empty |-> FALSE]

LEMMA PreloadSteps ==
    ASSUME \A at \in Spots : at \notin Stops => GoesOn(at) \in Spots
    PROVE  PreloadNextItem =
             [at \in Spots |->
                IF at \in Stops THEN Gives(at) ELSE PreloadNextItem[GoesOn(at)]]
<1> DEFINE F(f) == [at \in Spots |-> IF at \in Stops THEN Gives(at) ELSE f[GoesOn(at)]]
<1>1. \E f : f = F(f)
  <2> DEFINE succ == [at \in Spots |-> IF at \in Stops THEN at ELSE GoesOn(at)]
             v == [at \in Spots |-> Gives(at)]
  <2>1. succ \in [Spots -> Spots] /\ Stops \in SUBSET Spots
    BY DEF Stops
  <2>2. PICK f : f = [at \in Spots |-> IF at \in Stops THEN v[at] ELSE f[succ[at]]]
    <3> HIDE DEF succ, v, Stops, Spots
    <3>1. PICK f : WalkOf(f, Spots, Stops, v, succ)
      BY <2>1, WalkExists
    <3> QED BY <3>1 DEF WalkOf
  <2>3. \A at \in Spots : (IF at \in Stops THEN v[at] ELSE f[succ[at]])
                         = (IF at \in Stops THEN Gives(at) ELSE f[GoesOn(at)])
    <3> HIDE DEF Stops, Spots, Gives, GoesOn
    <3> QED OBVIOUS
  <2>4. f = F(f)
    <3> HIDE DEF Stops, Spots, Gives, GoesOn, succ, v
    <3> QED BY <2>2, <2>3
  <2> QED BY <2>4
<1>2. ASSUME NEW f PROVE F(f) = [at \in PG!Pages \X PG!PageIds \X (0 .. Capacity) |->
    LET p == at[1]
        n == at[2]
        i == at[3]
    IN  IF i < data[p].item_amount
        THEN IF data[p].ids[i + 1].deleted THEN f[<<p, n, i + 1>>]
             ELSE [page |-> p, next_page |-> n, index |-> i, is_empty |-> FALSE]
        ELSE IF n = NULL
        THEN [page |-> p, next_page |-> n, index |-> 0, is_empty |-> TRUE]
        ELSE IF data[n].ids[1].deleted THEN f[<<n, header[n].next, 1>>]
        ELSE [page |-> n, next_page |-> header[n].next, index |-> 0, is_empty |-> FALSE]]
  <2> SUFFICES ASSUME NEW at \in Spots
      PROVE (IF at \in Stops THEN Gives(at) ELSE f[GoesOn(at)]) =
       IF at[3] < data[at[1]].item_amount
        THEN IF data[at[1]].ids[at[3] + 1].deleted THEN f[<<at[1], at[2], at[3] + 1>>]
             ELSE [page |-> at[1], next_page |-> at[2], index |-> at[3], is_empty |-> FALSE]
        ELSE IF at[2] = NULL
        THEN [page |-> at[1], next_page |-> at[2], index |-> 0, is_empty |-> TRUE]
        ELSE IF data[at[2]].ids[1].deleted THEN f[<<at[2], header[at[2]].next, 1>>]
        ELSE [page |-> at[2], next_page |-> header[at[2]].next, index |-> 0, is_empty |-> FALSE]
    BY Zenon DEF Spots
  <2> QED BY DEF Stops, Gives, GoesOn
<1>3. PreloadNextItem = CHOOSE f : f = F(f)
  <2> HIDE DEF F
  <2> QED BY <1>2, Zenon DEF PreloadNextItem
<1> QED BY <1>1, <1>3

(* A page of a group between the calls; "first" says that its number is    *)
(* the group's.                                                            *)
Tidy(d, inSealed, first) ==
    /\ Row(d.ids, 1 .. d.item_amount, d.item_amount)
    /\ ~inSealed =>
          /\ d.start = d.item_amount
          /\ d.item_amount # 0 => d.end = d.ids[d.item_amount].offset
    /\ inSealed => d.start = 0
    /\ ~first => /\ Len(d.ids) >= 1
                 /\ d.item_amount = 0 => d.ids[1].deleted

(* What a scan of the pages s finds from item i of page k on: the first    *)
(* item that is not deleted, and deleted ones on its way.                  *)
Passed(s, d, k, i, l, j) ==
    \A m \in k .. l : \A x \in 1 .. d[s[m]].item_amount :
        (m = k => i < x) /\ (m = l => x <= j) => d[s[m]].ids[x].deleted
FoundAt(r, s, d, h, k, i, l) ==
    /\ l \in k .. Len(s)
    /\ r = [page |-> s[l], next_page |-> h[s[l]].next, index |-> r.index,
            is_empty |-> r.is_empty]
    /\ r.is_empty \in BOOLEAN /\ r.index \in Nat
    /\ r.is_empty => l = Len(s) /\ Passed(s, d, k, i, l, Capacity)
    /\ ~r.is_empty => /\ r.index < d[s[l]].item_amount
                      /\ ~d[s[l]].ids[r.index + 1].deleted
                      /\ l = k => i <= r.index
                      /\ Passed(s, d, k, i, l, r.index)
Found(r, s, d, h, k, i) == \E l \in k .. Len(s) : FoundAt(r, s, d, h, k, i, l)

LEMMA PreloadFinds ==
    ASSUME data \in [PG!Pages -> Page], header \in [PG!Pages -> PG!PageHeader],
           NEW g \in PG!Pages, NEW s, Listed(s, g, header),
           \A k \in 2 .. Len(s) : data[s[k]].item_amount = 0 => data[s[k]].ids[1].deleted,
           NEW k \in 1 .. Len(s), NEW i \in 0 .. Capacity
    PROVE  Found(PreloadNextItem[<<s[k], header[s[k]].next, i>>], s, data, header, k, i)
<1> DEFINE f == PreloadNextItem
           At(x, j) == <<s[x], header[s[x]].next, j>>
           OK(x, j) == Found(f[At(x, j)], s, data, header, x, j)
           amount(x) == data[s[x]].item_amount
<1>1. /\ Len(s) \in Nat /\ Capacity \in Nat /\ Capacity >= 1
      /\ \A x \in 1 .. Len(s) : s[x] \in PG!Pages
      /\ \A x \in 1 .. Len(s) : header[s[x]].next = IF x = Len(s) THEN NULL ELSE s[x + 1]
      /\ \A x \in 1 .. Len(s) : amount(x) \in 0 .. Capacity
  <2>1. /\ Len(s) \in Nat /\ \A x \in 1 .. Len(s) : s[x] \in PG!Pages
        /\ \A x \in 1 .. Len(s) : header[s[x]].next = IF x = Len(s) THEN NULL ELSE s[x + 1]
    BY DEF Listed
  <2>2. \A p \in PG!Pages : data[p].item_amount \in 0 .. Capacity
    BY DEF Page
  <2> QED BY <2>1, <2>2, DataAssumption
<1>2. \A x \in 1 .. Len(s), j \in 0 .. Capacity : At(x, j) \in Spots
  <2> SUFFICES ASSUME NEW x \in 1 .. Len(s), NEW j \in 0 .. Capacity
               PROVE  At(x, j) \in Spots
    OBVIOUS
  <2>1. header[s[x]] \in PG!PageHeader
    BY <1>1
  <2> QED BY <1>1, <2>1 DEF Spots, PG!PageHeader
<1>3. \A at \in Spots : at \notin Stops => GoesOn(at) \in Spots
  <2> SUFFICES ASSUME NEW p \in PG!Pages, NEW n \in PG!PageIds, NEW j \in 0 .. Capacity,
                      <<p, n, j>> \notin Stops
               PROVE  GoesOn(<<p, n, j>>) \in Spots
    BY DEF Spots
  <2>1. data[p].item_amount \in 0 .. Capacity
    BY DEF Page
  <2>2. CASE j < data[p].item_amount
    BY <1>1, <2>1, <2>2 DEF GoesOn, Spots
  <2>3. CASE ~(j < data[p].item_amount)
    <3>1. n # NULL
      BY <2>3 DEF Stops, Spots
    <3>2. n \in PG!Pages /\ header[n].next \in PG!PageIds
      <4>1. n \in PG!Pages
        BY <3>1, PageNumbers
      <4>2. header[n] \in PG!PageHeader
        BY <4>1
      <4> QED BY <4>1, <4>2 DEF PG!PageHeader
    <3> QED BY <1>1, <2>3, <3>2 DEF GoesOn, Spots
  <2> QED BY <2>2, <2>3
<1>4. f = [at \in Spots |-> IF at \in Stops THEN Gives(at) ELSE f[GoesOn(at)]]
  BY <1>3, PreloadSteps
<1> HIDE DEF f
<1>5. ASSUME NEW x \in 1 .. Len(s), NEW j \in 0 .. Capacity,
             (j < amount(x) /\ data[s[x]].ids[j + 1].deleted) => OK(x, j + 1),
             x < Len(s) => OK(x + 1, 1)
      PROVE  OK(x, j)
  <2> DEFINE at == At(x, j)
  <2>1. at \in Spots /\ f[at] = IF at \in Stops THEN Gives(at) ELSE f[GoesOn(at)]
    BY <1>2, <1>4
  <2>2. at[1] = s[x] /\ at[2] = header[s[x]].next /\ at[3] = j
    OBVIOUS
  <2>3. CASE j < amount(x) /\ data[s[x]].ids[j + 1].deleted
    <3>1. at \notin Stops /\ GoesOn(at) = At(x, j + 1)
      BY <2>2, <2>3 DEF Stops, GoesOn
    <3>2. f[at] = f[At(x, j + 1)] /\ OK(x, j + 1)
      BY <1>5, <2>1, <2>3, <3>1
    <3>3. ASSUME NEW l \in x .. Len(s), NEW y, Passed(s, data, x, j + 1, l, y)
          PROVE  Passed(s, data, x, j, l, y)
      BY <2>3, <3>3 DEF Passed
    <3> HIDE DEF at, At
    <3>4. PICK l \in x .. Len(s) : FoundAt(f[at], s, data, header, x, j + 1, l)
      BY <3>2 DEF Found
    <3>5. FoundAt(f[at], s, data, header, x, j, l)
      <4>1. (l = x /\ j + 1 <= f[at].index) => j <= f[at].index
        BY <3>4 DEF FoundAt
      <4> QED BY <3>3, <3>4, <4>1 DEF FoundAt
    <3> QED BY <3>5 DEF Found, at
  <2>4. CASE j < amount(x) /\ ~data[s[x]].ids[j + 1].deleted
    <3>1. at \in Stops /\ Gives(at) = [page |-> s[x], next_page |-> header[s[x]].next,
                                       index |-> j, is_empty |-> FALSE]
      BY <2>1, <2>2, <2>4 DEF Stops, Gives
    <3>2. Passed(s, data, x, j, x, j)
      BY <1>1 DEF Passed
    <3> HIDE DEF at, At
    <3>3. FoundAt(f[at], s, data, header, x, j, x)
      BY <1>1, <2>1, <2>4, <3>1, <3>2 DEF FoundAt, amount
    <3> QED BY <1>1, <3>3 DEF Found, at
  <2>5. CASE ~(j < amount(x)) /\ x = Len(s)
    <3>1. at \in Stops /\ Gives(at) = [page |-> s[x], next_page |-> header[s[x]].next,
                                       index |-> 0, is_empty |-> TRUE]
      BY <1>1, <2>1, <2>2, <2>5 DEF Stops, Gives
    <3>2. Passed(s, data, x, j, x, Capacity)
      BY <1>1, <2>5 DEF Passed
    <3> HIDE DEF at, At
    <3>3. FoundAt(f[at], s, data, header, x, j, x)
      BY <1>1, <2>1, <2>5, <3>1, <3>2 DEF FoundAt
    <3> QED BY <1>1, <3>3 DEF Found, at
  <2> DEFINE n == s[x + 1]
  <2>6. ASSUME ~(j < amount(x)), x # Len(s)
        PROVE  /\ x + 1 \in 2 .. Len(s) /\ x + 1 \in 1 .. Len(s)
               /\ at[2] = n /\ n # NULL /\ amount(x + 1) \in Nat
               /\ amount(x + 1) = 0 => data[n].ids[1].deleted
    <3>1. x + 1 \in 2 .. Len(s) /\ x + 1 \in 1 .. Len(s)
      BY <1>1, <2>6
    <3>2. n \in PG!Pages /\ at[2] = n /\ amount(x + 1) \in 0 .. Capacity
      BY <1>1, <2>2, <2>6, <3>1
    <3>3. n # NULL
      BY <3>2, PageNumbers
    <3>4. amount(x + 1) = 0 => data[n].ids[1].deleted
      BY <3>1
    <3> HIDE DEF at, n
    <3> QED BY <3>1, <3>2, <3>3, <3>4
  <2>7. CASE ~(j < amount(x)) /\ x # Len(s) /\ data[n].ids[1].deleted
    <3>1. at \notin Stops /\ GoesOn(at) = At(x + 1, 1)
      BY <2>2, <2>6, <2>7 DEF Stops, GoesOn
    <3>2. f[at] = f[At(x + 1, 1)] /\ OK(x + 1, 1)
      BY <1>5, <2>1, <2>6, <2>7, <3>1
    <3>3. ASSUME NEW l \in x + 1 .. Len(s), NEW y, Passed(s, data, x + 1, 1, l, y)
          PROVE  Passed(s, data, x, j, l, y)
      <4> SUFFICES ASSUME NEW m \in x .. l, NEW z \in 1 .. amount(m),
                          m = x => j < z, m = l => z <= y
                   PROVE  data[s[m]].ids[z].deleted
        BY DEF Passed
      <4>1. m # x
        BY <1>1, <2>7
      <4>2. CASE m = x + 1 /\ z = 1
        BY <2>7, <4>2
      <4>3. CASE m # x + 1 \/ z # 1
        <5>1. m \in x + 1 .. l /\ (m = x + 1 => 1 < z)
          BY <4>1, <4>3
        <5> QED BY <3>3, <5>1 DEF Passed
      <4> QED BY <4>2, <4>3
    <3>4. \A l \in x + 1 .. Len(s) : l \in x .. Len(s) /\ l # x
      OBVIOUS
    <3> HIDE DEF at, At
    <3>5. PICK l \in x + 1 .. Len(s) : FoundAt(f[at], s, data, header, x + 1, 1, l)
      BY <3>2 DEF Found
    <3>6. l \in x .. Len(s) /\ l # x
      BY <3>4
    <3>7. FoundAt(f[at], s, data, header, x, j, l)
      BY <3>3, <3>5, <3>6 DEF FoundAt
    <3> QED BY <3>6, <3>7 DEF Found, at
  <2>8. CASE ~(j < amount(x)) /\ x # Len(s) /\ ~data[n].ids[1].deleted
    <3>1. at \in Stops /\ Gives(at) = [page |-> s[x + 1], next_page |-> header[s[x + 1]].next,
                                       index |-> 0, is_empty |-> FALSE]
      BY <2>1, <2>2, <2>6, <2>8 DEF Stops, Gives
    <3>2. Passed(s, data, x, j, x + 1, 0)
      BY <1>1, <2>8 DEF Passed
    <3>3. 0 < amount(x + 1) /\ x + 1 \in x .. Len(s) /\ x + 1 # x
      BY <1>1, <2>6, <2>8
    <3> HIDE DEF at, At
    <3>4. FoundAt(f[at], s, data, header, x, j, x + 1)
      BY <2>1, <2>8, <3>1, <3>2, <3>3 DEF FoundAt
    <3> QED BY <3>3, <3>4 DEF Found, at
  <2> QED BY <2>3, <2>4, <2>5, <2>7, <2>8
<1> HIDE DEF OK, At, amount
<1>6. ASSUME NEW x \in 1 .. Len(s), x < Len(s) => OK(x + 1, 1)
      PROVE  \A j \in 0 .. Capacity : OK(x, j)
  <2> DEFINE T == {n \in Nat : \E j \in 0 .. Capacity : n = Capacity - j /\ ~OK(x, j)}
  <2>1. CASE T # {}
    <3>1. PICK n \in T : \A m \in T : n <= m
      BY <2>1, LeastOf
    <3>2. PICK j \in 0 .. Capacity : n = Capacity - j /\ ~OK(x, j)
      BY <3>1
    <3>3. j < amount(x) => j + 1 \in 0 .. Capacity
      BY <1>1, <3>2
    <3>4. j + 1 \in 0 .. Capacity => OK(x, j + 1)
      <4> SUFFICES ASSUME j + 1 \in 0 .. Capacity, ~OK(x, j + 1) PROVE FALSE
        OBVIOUS
      <4>1. Capacity - (j + 1) \in Nat /\ Capacity - (j + 1) < n
        BY <1>1, <3>2
      <4>2. Capacity - (j + 1) \in T
        BY <4>1
      <4> QED BY <3>1, <4>1, <4>2
    <3> QED BY <1>5, <1>6, <3>2, <3>3, <3>4
  <2>2. CASE T = {}
    <3>1. \A j \in 0 .. Capacity : Capacity - j \in Nat
      BY <1>1
    <3> QED BY <2>2, <3>1
  <2> QED BY <2>1, <2>2
<1>7. \A x \in 1 .. Len(s) : \A j \in 0 .. Capacity : OK(x, j)
  <2> DEFINE T == {n \in Nat : \E x \in 1 .. Len(s) :
                                  n = Len(s) - x /\ \E j \in 0 .. Capacity : ~OK(x, j)}
  <2>1. CASE T # {}
    <3>1. PICK n \in T : \A m \in T : n <= m
      BY <2>1, LeastOf
    <3>2. PICK x \in 1 .. Len(s) : n = Len(s) - x /\ \E j \in 0 .. Capacity : ~OK(x, j)
      BY <3>1
    <3>3. x < Len(s) => OK(x + 1, 1)
      <4> SUFFICES ASSUME x < Len(s), ~OK(x + 1, 1) PROVE FALSE
        OBVIOUS
      <4>1. x + 1 \in 1 .. Len(s) /\ Len(s) - (x + 1) \in Nat /\ Len(s) - (x + 1) < n
            /\ 1 \in 0 .. Capacity
        BY <1>1, <3>2
      <4>2. Len(s) - (x + 1) \in T
        BY <4>1
      <4> HIDE DEF T
      <4>3. n <= Len(s) - (x + 1)
        BY <3>1, <4>2
      <4> QED BY <1>1, <3>2, <4>1, <4>3
    <3> QED BY <1>6, <3>2, <3>3
  <2>2. CASE T = {}
    <3>1. \A x \in 1 .. Len(s) : Len(s) - x \in Nat
      BY <1>1
    <3> QED BY <2>2, <3>1
  <2> QED BY <2>1, <2>2
<1> QED BY <1>7 DEF OK, At, f

(* The invariant.                                                          *)
NoneDeletedIn(d, n) == \A i \in 1 .. n : ~d.ids[i].deleted
Reclaimed(d, inSealed) == ~inSealed => NoneDeletedIn(d, d.item_amount)

(* Vacuum on the pages s of a group, with the source page at place ks and  *)
(* the destination at kd.  It has not found a deleted item yet, ...        *)
Searching(v, d, inSealed, first) ==
    /\ ~v.started /\ Tidy(d, inSealed, first)
    /\ v.ids = d.start /\ v.index <= v.ids /\ NoneDeletedIn(d, v.index)
    /\ v.dest_id = 0 /\ v.dest_data <= Capacity

(* ... or it fills the page it reads, ...                                  *)
Filling(v, d) ==
    /\ v.started /\ v.index <= v.ids /\ 2 * v.ids <= Capacity
    /\ v.dest_data <= Capacity /\ v.dest_id + v.dest_data <= Capacity
    /\ v.dest_id <= v.dest_data
    /\ Len(d.ids) >= 1 /\ NoneDeletedIn(d, v.dest_id)
    /\ v.dest_id = 0 => d.ids[1].deleted
    /\ v.dest_id # 0 => v.dest_data = d.ids[v.dest_id].offset
OnePage(v, d) ==
    /\ Filling(v, d)
    /\ v.dest_id < v.index /\ v.ids <= v.dest_data
    /\ Row(d.ids, Around(v.dest_id, v.index, v.ids), v.ids)
    /\ d.item_amount = v.dest_id + v.ids - v.index
    /\ \A i \in v.index + 1 .. v.ids : End(d.ids, i) <= v.dest_data

(* ... or another one.                                                     *)
TwoPages(v, from, inSealed, to) ==
    /\ Filling(v, to)
    /\ Row(from.ids, v.index + 1 .. v.ids, v.ids) /\ from.item_amount = v.ids - v.index
    /\ v.index = 0 => Tidy(from, inSealed, FALSE) /\ v.ids = from.start
    /\ Row(to.ids, 1 .. v.dest_id, v.dest_id) /\ to.item_amount = v.dest_id

Position(v, s, h, kd, ks) ==
    /\ kd \in 1 .. Len(s) /\ ks \in kd .. Len(s)
    /\ v.src = s[ks] /\ v.dest = s[kd]
    /\ v.src_next = h[s[ks]].next /\ v.dest_next = h[s[kd]].next
InFront(s, d, sl, k) ==
    \A j \in 1 .. k : Tidy(d[s[j]], s[j] \in sl, j = 1) /\ Reclaimed(d[s[j]], s[j] \in sl)
Behind(s, d, sl, k) == \A j \in k + 1 .. Len(s) : Tidy(d[s[j]], s[j] \in sl, FALSE)
Emptied(s, d, k, l) == \A j \in k .. l : d[s[j]].item_amount = 0
VacuumAt(v, s, d, sl, h, kd, ks) ==
    /\ Position(v, s, h, kd, ks)
    /\ InFront(s, d, sl, kd - 1) /\ Behind(s, d, sl, ks) /\ Emptied(s, d, kd + 1, ks - 1)
    /\ \/ kd = ks /\ Searching(v, d[s[kd]], s[kd] \in sl, kd = 1)
       \/ kd = ks /\ OnePage(v, d[s[kd]])
       \/ kd < ks /\ TwoPages(v, d[s[ks]], s[ks] \in sl, d[s[kd]])
FreeingAt(s, d, sl, v, next, kd) ==
    /\ kd \in 1 .. Len(s) /\ v.dest = s[kd]
    /\ InFront(s, d, sl, kd) /\ Emptied(s, d, kd + 1, Len(s))
    /\ next = IF kd = Len(s) THEN NULL ELSE s[kd + 1]
ScanAt(i, s, d, h, k) ==
    /\ k \in 1 .. Len(s) /\ i.page = s[k] /\ i.next_page = h[s[k]].next
    /\ ~i.is_empty => /\ i.index < d[s[k]].item_amount
                      /\ ~d[s[k]].ids[i.index + 1].deleted

Clearing == operation \in {"vacuum", "free"}
GroupTidy(g) == \A p \in PagesOf(g) : Tidy(data[p], p \in sealed, p = g)
Tidiness ==
    \A g \in DOMAIN rows : (g = group /\ Clearing) \/ GroupTidy(g)
Half == \A p \in PG!Pages : 2 * data[p].item_amount <= Capacity
Vacuum ==
    operation = "vacuum" =>
        \/ vac = FreshVacuum(group) /\ GroupTidy(group)
        \/ \E kd, ks \in Nat : VacuumAt(vac, chain[group], data, sealed, header, kd, ks)
Freeing ==
    operation = "free" =>
        \E kd \in Nat : FreeingAt(chain[group], data, sealed, vac, next_page_id, kd)
Scan ==
    operation \in Scans => \E k \in Nat : ScanAt(it, chain[group], data, header, k)

(* The types, and what PageGroupManagerProofs knows of the groups, ...      *)
ItemIterator == [page : PG!PageIds, next_page : PG!PageIds, index : Nat, is_empty : BOOLEAN]
VacuumLocals == [src : PG!PageIds, src_next : PG!PageIds, index : Nat, ids : Nat,
                 dest : PG!PageIds, dest_next : PG!PageIds, dest_id : Nat,
                 dest_data : Nat, started : BOOLEAN, age : Nat]
Kinds ==
    /\ data \in [PG!Pages -> Page]
    /\ operation \in Scans \cup {"idle", "vacuum", "free"}
    /\ vacuums \in 0 .. 2
    /\ group \in PG!PageIds
    /\ it \in ItemIterator
    /\ vac \in VacuumLocals
    /\ DOMAIN rows \subseteq PG!Groups
    /\ \A g \in DOMAIN rows : rows[g] \subseteq Items
    /\ scanned \subseteq Items
    /\ sealed \subseteq PG!Pages
    /\ harmed \in BOOLEAN

(* ... and which call runs.                                                *)
Phases ==
    /\ operation = "idle" <=> group = NULL
    /\ operation # "idle" => group \in DOMAIN rows
    /\ operation = "free" <=> phase = "vacuum"
    /\ operation = "free" => loop_group = group
    /\ phase = "delete" => operation = "idle"
    /\ DOMAIN rows = IF phase = "delete" THEN PG!Groups \ {loop_group} ELSE PG!Groups
    /\ IF Clearing THEN vacuums \in 1 .. 2 ELSE vacuums = 0
    /\ damaged => harmed
    /\ phase = "delete" => harmed = damaged
Sound == Tidiness /\ Half /\ Vacuum /\ Freeing /\ Scan
IInv == PGP!Inv /\ Kinds /\ Phases /\ (~harmed => Sound)

LEMMA TypesHold == ASSUME IInv PROVE TypeOK
<1>1. PG!TypeOK
  BY SameActions DEF IInv, PGP!Inv
<1>2. \A p \in PG!Pages :
         /\ data[p].item_amount \in 0 .. Capacity
         /\ data[p].start \in 0 .. Capacity
         /\ data[p].end \in -HeaderSize .. Capacity
         /\ Len(data[p].ids) <= Capacity
  BY DEF IInv, Kinds, Page, IdList
<1> QED BY <1>1, <1>2 DEF IInv, Kinds, TypeOK, ItemIterator, VacuumLocals

LEMMA GroupsInit == PG!Init => PGP!Inv
  BY PGP!InvInit, SameActions, DataAssumption

LEMMA GroupsSame == ASSUME PGP!Inv, UNCHANGED groupVars PROVE PGP!Inv'
<1>1. UNCHANGED PGP!vars
  BY DEF groupVars, PGP!vars, PGP!links, PGP!loop, PGP!history
<1> QED BY <1>1, PGP!InvStep, DataAssumption

LEMMA GroupsStep ==
    ASSUME PGP!Inv,
           \/ PG!CreateGroup
           \/ \E g \in PG!Groups : PG!AddPage(g)
           \/ \E g \in PG!Groups : PG!DeleteGroup(g)
           \/ \E g \in PG!Groups : \E p \in Range(chain[g]) : PG!FreeRest(g, p)
           \/ PG!DeleteGroupTurn
           \/ PG!DeleteGroupReturn
           \/ PG!FreePageCurrent
           \/ PG!FreeRestReturn
           \/ PG!Restart
    PROVE  PGP!Inv'
<1>1. \A s : Range(s) = PGP!Range(s)
  BY Zenon DEF Range, PGP!Range
<1>2. PG!Groups = PGP!Groups
  BY SameNames
<1>3. MaxPage \in Nat \ {0}
  BY DataAssumption
<1>4. CASE PG!CreateGroup
  BY <1>1, <1>2, <1>3, <1>4, SameActions, PGP!CreateGroupStep
<1>5. CASE \E g \in PG!Groups : PG!AddPage(g)
  BY <1>1, <1>2, <1>3, <1>5, SameActions, PGP!AddPageStep
<1>6. CASE \E g \in PG!Groups : PG!DeleteGroup(g)
  BY <1>1, <1>2, <1>3, <1>6, SameActions, PGP!DeleteGroupBegins
<1>7. CASE \E g \in PG!Groups : \E p \in Range(chain[g]) : PG!FreeRest(g, p)
  BY <1>1, <1>2, <1>3, <1>7, SameActions, PGP!FreeRestBegins
<1>8. CASE PG!DeleteGroupTurn
  BY <1>1, <1>2, <1>3, <1>8, SameActions, PGP!DeleteGroupTurnStep
<1>9. CASE PG!DeleteGroupReturn
  BY <1>1, <1>2, <1>3, <1>9, SameActions, PGP!DeleteGroupEnds
<1>10. CASE PG!FreePageCurrent
  BY <1>1, <1>2, <1>3, <1>10, SameActions, PGP!FreePageCurrentStep
<1>11. CASE PG!FreeRestReturn
  BY <1>1, <1>2, <1>3, <1>11, SameActions, PGP!FreeRestEnds
<1>12. CASE PG!Restart
  BY <1>1, <1>2, <1>3, <1>12, SameActions, PGP!RestartStep
<1> QED BY <1>4, <1>5, <1>6, <1>7, <1>8, <1>9, <1>10, <1>11, <1>12

LEMMA NewPageFacts ==
    ASSUME PGP!Inv, PG!Idle, PG!TakePage
    PROVE  /\ PG!NewPage \in PG!Pages /\ PG!NewPage \notin PG!Groups
           /\ \A g \in PG!Groups : PG!NewPage \notin Range(chain[g])
<1>1. \A s : Range(s) = PGP!Range(s)
  BY Zenon DEF Range, PGP!Range
<1>2. PGP!Idle /\ PGP!TakePage
  BY SameNames, SameTakePage
<1>3. PGP!NewPage \in PGP!Pages /\ PGP!NewPage \notin PGP!Groups
  BY <1>2, PGP!TakePageFacts, DataAssumption
<1>4. \A g \in PGP!Groups : PGP!NewPage \notin PGP!Range(chain[g])
  BY <1>2, PGP!TakePageFacts, DataAssumption
<1> QED BY <1>1, <1>3, <1>4, SameNames

(* Between the calls every group is a list, and they share no page.        *)
LEMMA ListsOf ==
    ASSUME IInv, ~harmed, NEW g \in DOMAIN rows
    PROVE  /\ g \in PG!Groups /\ Listed(chain[g], g, header) /\ PagesOf(g) \subseteq PG!Pages
           /\ g \in PG!Pages
           /\ \A h \in PG!Groups \ {g} : PagesOf(g) \cap Range(chain[h]) = {}
<1>1. ~damaged /\ g \in PG!Groups /\ (phase = "delete" => g # loop_group)
  BY DEF IInv, Phases
<1>2. /\ Listed(chain[g], g, header)
      /\ \A h \in PG!Groups \ {g} : Range(chain[g]) \cap Range(chain[h]) = {}
  BY <1>1, GroupFacts DEF IInv
<1>3. Range(chain[g]) \subseteq PG!Pages /\ chain[g][1] = g /\ 1 \in 1 .. Len(chain[g])
  BY <1>2 DEF Listed, Range
<1> QED BY <1>1, <1>2, <1>3 DEF PagesOf, Listed

LEMMA IInvInit == Init => IInv
<1> SUFFICES ASSUME Init PROVE IInv
  OBVIOUS
<1>1. PGP!Inv
  BY GroupsInit DEF Init
<1>2. /\ chain = <<>> /\ phase = "idle" /\ ~damaged /\ DOMAIN rows = {} /\ PG!Groups = {}
      /\ damaged \in BOOLEAN
  <2>1. \A s : s = <<>> => DOMAIN s = {}
    OBVIOUS
  <2>2. chain = <<>> /\ rows = <<>> /\ phase = "idle" /\ damaged = FALSE
    BY DEF Init, PG!Init
  <2> QED BY <2>1, <2>2, PageNumbers
<1>3. EmptyPage \in Page
  <2>1. <<>> \in IdList
    BY DataAssumption, EmptySeq DEF IdList
  <2> QED BY <2>1, DataAssumption DEF EmptyPage, Page
<1>4. Kinds
  <2>1. data \in [PG!Pages -> Page]
    BY <1>3 DEF Init
  <2>2. it \in ItemIterator /\ vac \in VacuumLocals
    BY PageNumbers DEF Init, NoIterator, NoVacuum, ItemIterator, VacuumLocals
  <2>3. vacuums = 0 /\ group \in PG!PageIds /\ operation = "idle"
    BY PageNumbers DEF Init
  <2>4. scanned = {} /\ sealed = {} /\ harmed = FALSE
    BY DEF Init
  <2>5. operation \in Scans \cup {"idle", "vacuum", "free"} /\ vacuums \in 0 .. 2
    BY <2>3
  <2>6. /\ DOMAIN rows \subseteq PG!Groups
        /\ \A g \in DOMAIN rows : rows[g] \subseteq Items
    BY <1>2
  <2>7. scanned \subseteq Items /\ sealed \subseteq PG!Pages /\ harmed \in BOOLEAN
    BY <2>4
  <2> QED BY <2>1, <2>2, <2>3, <2>5, <2>6, <2>7 DEF Kinds
<1>5. Phases
  BY <1>2 DEF Init, Phases, Clearing, Scans
<1>6. Half
  BY DataAssumption DEF Init, Half, EmptyPage
<1>7. Tidiness /\ Vacuum /\ Freeing /\ Scan
  BY <1>2 DEF Init, Tidiness, Vacuum, Freeing, Scan, Scans
<1> QED BY <1>1, <1>4, <1>5, <1>6, <1>7 DEF IInv, Sound

(* What a step leaves alone: a group, and what runs.                       *)
LEMMA GroupTidyKept ==
    ASSUME NEW g, GroupTidy(g), chain'[g] = chain[g],
           \A p \in Range(chain[g]) : data'[p] = data[p] /\ (p \in sealed' <=> p \in sealed)
    PROVE  GroupTidy(g)'
  BY DEF GroupTidy, PagesOf

LEMMA BetweenCalls ==
    ASSUME IInv, Idle
    PROVE  /\ PGP!Inv /\ Kinds /\ Phases /\ Tidiness /\ Half /\ ~harmed /\ ~damaged
           /\ operation = "idle" /\ phase = "idle" /\ group = NULL /\ vacuums = 0
           /\ DOMAIN rows = PG!Groups
           /\ \A g \in PG!Groups : GroupTidy(g)
  BY DEF IInv, Sound, Idle, Phases, Clearing, Tidiness

(* A step between two calls leaves what belongs to them alone.             *)
LEMMA StillIdle ==
    ASSUME operation' = "idle", Tidiness', Half'
    PROVE  Sound'
  BY DEF Sound, Vacuum, Freeing, Scan, Scans

LEMMA IdleKinds ==
    ASSUME Kinds, UNCHANGED <<control, scanning, vac>>,
           data' \in [PG!Pages -> Page], sealed' \subseteq PG!Pages, harmed' \in BOOLEAN,
           DOMAIN rows' \subseteq DOMAIN chain', \A g \in DOMAIN rows' : rows'[g] \subseteq Items
    PROVE  Kinds'
<1>1. PG!Groups' = DOMAIN chain'
  BY DEF PG!Groups
<1> QED BY <1>1 DEF Kinds, control, scanning

LEMMA EmptyPageFacts == EmptyPage \in Page /\ Tidy(EmptyPage, FALSE, TRUE)
<1>1. EmptyPage \in Page
  <2>1. <<>> \in IdList
    BY DataAssumption, EmptySeq DEF IdList
  <2> QED BY <2>1, DataAssumption DEF EmptyPage, Page
<1>2. Row(<<>>, 1 .. 0, 0)
  BY DEF Row, Placed, Ordered, Packed
<1> QED BY <1>1, <1>2 DEF EmptyPage, Tidy
-----------------------------------------------------------------------------
LEMMA CreateGroupStep == ASSUME IInv, CreateGroup PROVE IInv'
<1>1. /\ PGP!Inv /\ Kinds /\ Phases /\ Tidiness /\ Half /\ ~harmed /\ ~damaged
      /\ operation = "idle" /\ phase = "idle" /\ group = NULL /\ vacuums = 0
      /\ DOMAIN rows = PG!Groups
      /\ \A g \in PG!Groups : GroupTidy(g)
  BY BetweenCalls DEF CreateGroup
<1>2. PICK n \in PG!Pages :
         n = PG!NewPage /\ n \notin PG!Groups /\ \A g \in PG!Groups : n \notin Range(chain[g])
  BY <1>1, NewPageFacts DEF CreateGroup, PG!CreateGroup
<1>3. /\ PG!CreateGroup
      /\ data' = [data EXCEPT ![n] = EmptyPage]
      /\ rows' = [g \in DOMAIN rows \cup {n} |-> IF g = n THEN {} ELSE rows[g]]
      /\ sealed' = sealed \ {n}
      /\ UNCHANGED <<control, scanning, vac, harmed>>
  BY <1>2 DEF CreateGroup
<1>4. PGP!Inv'
  BY <1>3, <1>1, GroupsStep
<1>5. /\ chain' = [g \in PG!Groups \cup {n} |-> IF g = n THEN <<g>> ELSE chain[g]]
      /\ UNCHANGED <<phase, loop_group, next_page_id, damaged>>
  BY <1>3, <1>2 DEF PG!CreateGroup, PG!loop
<1>6. /\ operation' = "idle" /\ vacuums' = 0 /\ group' = NULL /\ ~harmed' /\ ~damaged'
      /\ phase' = "idle" /\ harmed' \in BOOLEAN
  BY <1>3, <1>1, <1>5 DEF control, Kinds
<1>7. Kinds'
  <2>1. data' \in [PG!Pages -> Page] /\ sealed' \subseteq PG!Pages
    BY <1>3, <1>1, EmptyPageFacts DEF Kinds
  <2>2. DOMAIN rows' \subseteq DOMAIN chain'
    BY <1>3, <1>1, <1>5
  <2>3. \A g \in DOMAIN rows' : rows'[g] \subseteq Items
    BY <1>3, <1>1 DEF Kinds
  <2> QED BY <1>3, <1>1, <1>6, <2>1, <2>2, <2>3, IdleKinds
<1>8. Phases'
  <2>1. DOMAIN rows' = PG!Groups'
    BY <1>3, <1>1, <1>5 DEF PG!Groups
  <2> QED BY <1>6, <2>1 DEF Phases, Clearing
<1>9. Half'
  BY <1>3, <1>1, DataAssumption DEF Half, Kinds, EmptyPage
<1>10. Tidiness'
  <2>1. ASSUME NEW g \in DOMAIN rows, g # n PROVE GroupTidy(g)'
    <3>1. chain'[g] = chain[g] /\ n \notin Range(chain[g]) /\ GroupTidy(g)
      BY <1>1, <1>2, <1>5, <2>1
    <3>2. \A p \in Range(chain[g]) : data'[p] = data[p] /\ (p \in sealed' <=> p \in sealed)
      BY <1>3, <1>1, <3>1 DEF Kinds
    <3> QED BY <3>1, <3>2, GroupTidyKept
  <2>2. GroupTidy(n)'
    <3>1. chain'[n] = <<n>> /\ data'[n] = EmptyPage /\ n \notin sealed'
      BY <1>3, <1>1, <1>2, <1>5 DEF Kinds
    <3>2. Range(<<n>>) = {n}
      BY DEF Range
    <3>3. SUFFICES ASSUME NEW p \in Range(chain'[n])
                   PROVE  Tidy(data'[p], p \in sealed', p = n)
      BY DEF GroupTidy, PagesOf
    <3>4. p = n
      BY <3>1, <3>2
    <3> QED BY <3>1, <3>4, EmptyPageFacts DEF Tidy
  <2>3. DOMAIN rows' = DOMAIN rows \cup {n}
    BY <1>3
  <2>4. \A g \in DOMAIN rows' : GroupTidy(g)'
    BY <2>1, <2>2, <2>3
  <2> QED BY <2>4 DEF Tidiness
<1> QED BY <1>4, <1>6, <1>7, <1>8, <1>9, <1>10, StillIdle DEF IInv

LEMMA DeleteGroupBegins ==
    ASSUME IInv, NEW g \in PG!Groups, DeleteGroup(g) PROVE IInv'
<1>1. /\ PG!DeleteGroup(g)
      /\ rows' = [o \in DOMAIN rows \ {g} |-> rows[o]]
      /\ UNCHANGED <<data, control, scanning, vac, sealed, harmed>>
  BY DEF DeleteGroup
<1>2. /\ PGP!Inv /\ Kinds /\ Phases /\ Tidiness /\ Half /\ ~harmed /\ ~damaged
      /\ operation = "idle" /\ phase = "idle" /\ group = NULL /\ vacuums = 0
      /\ DOMAIN rows = PG!Groups
      /\ \A h \in PG!Groups : GroupTidy(h)
  BY BetweenCalls DEF DeleteGroup
<1>3. PGP!Inv'
  BY <1>1, <1>2, GroupsStep
<1>4. /\ phase' = "delete" /\ loop_group' = g /\ chain' = chain /\ damaged' = damaged
  BY <1>1 DEF PG!DeleteGroup, PG!history
<1>5. /\ operation' = "idle" /\ vacuums' = 0 /\ group' = NULL /\ ~harmed' /\ ~damaged'
      /\ harmed' = damaged'
      /\ data' = data /\ sealed' = sealed /\ sealed \subseteq PG!Pages /\ harmed' \in BOOLEAN
      /\ damaged \in BOOLEAN
  <2>1. damaged \in BOOLEAN
    BY <1>2, SameActions DEF PGP!Inv, PG!TypeOK
  <2> QED BY <1>1, <1>2, <1>4, <2>1 DEF control, Kinds
<1>6. Kinds'
  <2>1. DOMAIN rows' \subseteq DOMAIN chain' /\ \A h \in DOMAIN rows' : rows'[h] \subseteq Items
    BY <1>1, <1>2, <1>4, PageNumbers DEF Kinds
  <2> QED BY <1>1, <1>2, <1>5, <2>1, IdleKinds DEF Kinds
<1>7. Phases'
  <2>1. DOMAIN rows' = PG!Groups' \ {loop_group'}
    BY <1>1, <1>2, <1>4 DEF PG!Groups
  <2> QED BY <1>4, <1>5, <2>1 DEF Phases, Clearing
<1>8. Half' /\ Tidiness'
  <2>1. Half'
    BY <1>2, <1>5 DEF Half
  <2>2. \A h \in DOMAIN rows' : GroupTidy(h)'
    BY <1>1, <1>2, <1>4, <1>5, GroupTidyKept
  <2> QED BY <2>1, <2>2 DEF Tidiness
<1> QED BY <1>3, <1>5, <1>6, <1>7, <1>8, StillIdle DEF IInv

LEMMA Forgets ==
    ASSUME data \in [PG!Pages -> Page], NEW p \in PG!Pages
    PROVE  /\ Forgotten(p) \in [PG!Pages -> Page]
           /\ \A q \in PG!Pages : q # p => Forgotten(p)[q] = data[q]
           /\ \A q \in PG!Pages : Forgotten(p)[q].item_amount = data[q].item_amount
<1>1. <<>> \in IdList
  BY DataAssumption, EmptySeq DEF IdList
<1>2. [data[p] EXCEPT !.ids = <<>>] \in Page
  BY <1>1 DEF Page
<1>3. /\ Forgotten(p) = [data EXCEPT ![p] = [data[p] EXCEPT !.ids = <<>>]]
      /\ [data[p] EXCEPT !.ids = <<>>].item_amount = data[p].item_amount
  <2>1. data[p] \in Page
    OBVIOUS
  <2> QED BY <2>1 DEF Forgotten, Page
<1> QED BY <1>2, <1>3

LEMMA DamageStays ==
    ASSUME NEW h, NEW p, PG!FreePage(h, p) PROVE damaged => damaged'
  BY DEF PG!FreePage

LEMMA DeleteTurnStep ==
    ASSUME IInv, PG!DeleteGroupTurn, data' = Forgotten(next_page_id), harmed' = damaged',
           UNCHANGED <<control, scanning, vac, rows, sealed>>
    PROVE  IInv'
<1>1. PICK p : p = next_page_id
  OBVIOUS
<1>2. PICK g : g = loop_group
  OBVIOUS
<1>3. /\ PGP!Inv /\ Kinds /\ Phases /\ PGP!TypeOK /\ PGP!Phases
      /\ PGP!Inv'
  BY GroupsStep DEF IInv, PGP!Inv
<1>4. /\ phase = "delete" /\ p # NULL /\ UNCHANGED <<phase, loop_group>>
      /\ chain' = [chain EXCEPT ![g] = PG!Without(@, p)]
      /\ damaged => damaged'
  BY <1>1, <1>2, DamageStays DEF PG!DeleteGroupTurn, NULL
<1>5. /\ operation = "idle" /\ group = NULL /\ vacuums = 0 /\ DOMAIN rows = PG!Groups \ {g}
      /\ harmed = damaged
  BY <1>2, <1>3, <1>4 DEF Phases, Clearing
<1>6. p \in PG!Pages /\ g \in PG!Groups /\ damaged' \in BOOLEAN
  <2>1. p \in PG!PageIds
    BY <1>1, <1>3, SameNames DEF PGP!TypeOK
  <2>2. g \in PG!Groups
    BY <1>2, <1>3, <1>4, SameNames DEF PGP!Phases
  <2>3. PGP!TypeOK'
    BY <1>3 DEF PGP!Inv
  <2> QED BY <1>4, <2>1, <2>2, <2>3, PageNumbers DEF PGP!TypeOK
<1>7. /\ data' \in [PG!Pages -> Page]
      /\ \A q \in PG!Pages : q # p => data'[q] = data[q]
      /\ \A q \in PG!Pages : data'[q].item_amount = data[q].item_amount
  BY <1>1, <1>3, <1>6, Forgets DEF Kinds
<1>8. DOMAIN chain' = PG!Groups /\ \A h \in PG!Groups : h # g => chain'[h] = chain[h]
  BY <1>4, PageNumbers
<1>9. Kinds'
  <2>1. DOMAIN rows' \subseteq DOMAIN chain' /\ \A h \in DOMAIN rows' : rows'[h] \subseteq Items
    BY <1>3, <1>8 DEF Kinds
  <2>2. sealed' \subseteq PG!Pages
    BY <1>3 DEF Kinds
  <2> QED BY <1>3, <1>6, <1>7, <2>1, <2>2, IdleKinds
<1>10. Phases'
  <2>1. DOMAIN rows' = PG!Groups' \ {loop_group'}
    BY <1>2, <1>4, <1>5, <1>8 DEF PG!Groups
  <2> QED BY <1>4, <1>5, <2>1 DEF Phases, Clearing, control
<1>11. ASSUME ~harmed' PROVE Sound'
  <2>1. ~damaged /\ ~harmed
    BY <1>4, <1>5, <1>11
  <2>2. Tidiness /\ Half /\ PGP!Deleting /\ PGP!Apart
    BY <1>3, <2>1 DEF IInv, Sound, PGP!Inv, PGP!Sound
  <2>3. Half'
    BY <1>7, <2>2 DEF Half
  <2>4. p \in Range(chain[g])
    <3>1. /\ chain[g] \in Seq(PG!Pages) /\ chain[g] # <<>> /\ p = chain[g][1]
      BY <1>1, <1>2, <1>3, <1>4, <1>6, <2>2, SameNames
         DEF PGP!Deleting, PGP!TypeOK, NULL
    <3>2. 1 \in DOMAIN chain[g]
      BY <3>1, EmptySeq, LenProperties
    <3> QED BY <3>1, <3>2 DEF Range
  <2>5. ASSUME NEW h \in DOMAIN rows' PROVE GroupTidy(h)'
    <3>1. h \in DOMAIN rows /\ h # g /\ h \in PG!Groups /\ chain'[h] = chain[h]
      BY <1>5, <1>8
    <3>2. PagesOf(h) \cap Range(chain[g]) = {} /\ PagesOf(h) \subseteq PG!Pages
      BY <1>6, <2>1, <3>1, ListsOf
    <3>3. GroupTidy(h)
      BY <1>5, <2>2, <3>1 DEF Tidiness, Clearing
    <3>4. \A q \in Range(chain[h]) : data'[q] = data[q]
      BY <1>7, <2>4, <3>2 DEF PagesOf
    <3> QED BY <3>1, <3>3, <3>4, GroupTidyKept
  <2> QED BY <1>5, <2>3, <2>5, StillIdle DEF Tidiness, control
<1> QED BY <1>3, <1>9, <1>10, <1>11 DEF IInv

LEMMA DeleteReturnStep ==
    ASSUME IInv, PG!DeleteGroupReturn, UNCHANGED data, harmed' = damaged',
           UNCHANGED <<control, scanning, vac, rows, sealed>>
    PROVE  IInv'
<1>1. PICK g : g = loop_group
  OBVIOUS
<1>2. PGP!Inv /\ Kinds /\ Phases /\ PGP!Inv' /\ PGP!TypeOK /\ PGP!Phases
  BY GroupsStep DEF IInv, PGP!Inv
<1>3. /\ phase = "delete" /\ phase' = "idle" /\ damaged' = damaged
      /\ chain' = [h \in PG!Groups \ {g} |-> chain[h]]
  BY <1>1 DEF PG!DeleteGroupReturn
<1>4. /\ operation = "idle" /\ group = NULL /\ vacuums = 0 /\ DOMAIN rows = PG!Groups \ {g}
      /\ harmed = damaged /\ damaged \in BOOLEAN
  BY <1>1, <1>2, <1>3 DEF Phases, Clearing, Kinds
<1>5. Kinds'
  BY <1>2, <1>3, <1>4, IdleKinds DEF Kinds
<1>6. Phases'
  <2>1. DOMAIN rows' = PG!Groups'
    BY <1>3, <1>4 DEF PG!Groups
  <2> QED BY <1>3, <1>4, <2>1 DEF Phases, Clearing, control
<1>7. ASSUME ~harmed' PROVE Sound'
  <2>1. Tidiness /\ Half
    BY <1>3, <1>4, <1>7 DEF IInv, Sound
  <2>2. \A h \in DOMAIN rows' : GroupTidy(h)'
    BY <1>3, <1>4, <2>1, GroupTidyKept DEF Tidiness, Clearing
  <2> QED BY <1>4, <2>1, <2>2, StillIdle DEF Tidiness, Half, control
<1> QED BY <1>2, <1>5, <1>6, <1>7 DEF IInv

LEMMA RestartStep == ASSUME IInv, Restart PROVE IInv'
<1>1. /\ PGP!Inv /\ Kinds /\ Phases /\ Tidiness /\ Half /\ ~harmed /\ ~damaged
      /\ operation = "idle" /\ phase = "idle" /\ group = NULL /\ vacuums = 0
      /\ DOMAIN rows = PG!Groups
      /\ \A h \in PG!Groups : GroupTidy(h)
  BY BetweenCalls DEF Restart
<1>2. /\ PG!Restart /\ UNCHANGED <<data, control, scanning, vac, rows, sealed, harmed>>
  BY DEF Restart
<1>3. PGP!Inv' /\ UNCHANGED <<phase, loop_group, next_page_id, chain, damaged>>
  BY <1>1, <1>2, GroupsStep DEF PG!Restart, PG!loop
<1>4. Kinds'
  BY <1>1, <1>2, <1>3, IdleKinds, PageNumbers DEF Kinds
<1>5. Phases'
  BY <1>1, <1>2, <1>3 DEF Phases, Clearing, control, PG!Groups
<1>6. Half' /\ Tidiness'
  <2>1. \A h \in DOMAIN rows' : GroupTidy(h)'
    BY <1>1, <1>2, <1>3, GroupTidyKept
  <2> QED BY <1>1, <1>2, <2>1 DEF Tidiness, Half
<1> QED BY <1>1, <1>2, <1>3, <1>4, <1>5, <1>6, StillIdle DEF IInv, control

NewId(d, t) == [offset |-> d.end - SizeOf[t], size |-> SizeOf[t], deleted |-> FALSE, item |-> t]

(* insert_item makes a page of a page ...                                  *)
LEMMA InsertedTypes ==
    ASSUME NEW d \in Page, NEW t \in Items, d.start + 1 <= Capacity,
           d.item_amount + 1 <= Capacity, d.end - SizeOf[t] >= -HeaderSize
    PROVE  /\ ItemInserted(d, t) \in Page /\ NewId(d, t) \in ItemId
           /\ ItemInserted(d, t).item_amount = d.item_amount + 1
           /\ ItemInserted(d, t).start = d.start + 1
           /\ ItemInserted(d, t).end = d.end - SizeOf[t]
           /\ IsWritten(ItemInserted(d, t).ids, d.ids, d.start + 1, NewId(d, t), SizeOf[t])
<1>1. SizeOf[t] \in Nat \ {0} /\ Capacity \in Nat \ {0} /\ HeaderSize \in Nat
  BY DataAssumption
<1>2. /\ d.start \in 0 .. Capacity /\ d.item_amount \in 0 .. Capacity
      /\ d.end \in -HeaderSize .. Capacity /\ d.ids \in IdList
  BY DEF Page
<1>3. NewId(d, t) \in ItemId
  BY <1>1, <1>2 DEF NewId, ItemId
<1> DEFINE w == Written(d.ids, d.start + 1, NewId(d, t), SizeOf[t])
<1>4. IsWritten(w, d.ids, d.start + 1, NewId(d, t), SizeOf[t])
  <2>1. d.start + 1 \in 1 .. Capacity
    BY <1>1, <1>2
  <2> QED BY <1>1, <1>2, <1>3, <2>1, WrittenFacts
<1>5. ItemInserted(d, t) = [item_amount |-> d.item_amount + 1, start |-> d.start + 1,
                            end |-> d.end - SizeOf[t], ids |-> w]
  BY DEF ItemInserted, NewId
<1> HIDE DEF w
<1>6. /\ d.item_amount + 1 \in 0 .. Capacity /\ d.start + 1 \in 0 .. Capacity
      /\ d.end - SizeOf[t] \in -HeaderSize .. Capacity
  BY <1>1, <1>2
<1>7. w \in IdList
  BY <1>4 DEF IsWritten
<1> QED BY <1>3, <1>4, <1>5, <1>6, <1>7 DEF Page

(* ... and leaves one that is in order so.                                 *)
LEMMA InsertedTidy ==
    ASSUME NEW d \in Page, NEW t \in Items, NEW first, Tidy(d, FALSE, first),
           SizeOf[t] + 1 <= d.end - d.start
    PROVE  /\ ItemInserted(d, t) \in Page
           /\ Tidy(ItemInserted(d, t), FALSE, TRUE) /\ Tidy(ItemInserted(d, t), FALSE, FALSE)
           /\ 2 * ItemInserted(d, t).item_amount <= Capacity
           /\ SameIds(d.ids, ItemInserted(d, t).ids, 1 .. d.item_amount)
<1> DEFINE n == d.item_amount
           e == ItemInserted(d, t)
           id == NewId(d, t)
<1>1. SizeOf[t] \in Nat \ {0} /\ Capacity \in Nat \ {0} /\ HeaderSize \in Nat
  BY DataAssumption
<1>2. /\ d.start = n /\ n \in Nat /\ n <= Capacity
      /\ d.end \in Int /\ d.end <= Capacity /\ d.ids \in IdList
  BY <1>1 DEF Page, Tidy
<1>3. Row(d.ids, 1 .. n, n) /\ (n # 0 => d.end = d.ids[n].offset)
  BY DEF Tidy
<1>4. n + 1 <= d.end - SizeOf[t] /\ n + 1 <= Capacity
  BY <1>1, <1>2
<1>5. /\ e \in Page /\ id \in ItemId /\ e.item_amount = n + 1 /\ e.start = n + 1
      /\ e.end = d.end - SizeOf[t] /\ IsWritten(e.ids, d.ids, n + 1, id, SizeOf[t])
  <2>1. d.end - SizeOf[t] >= -HeaderSize
    BY <1>1, <1>2, <1>4
  <2> QED BY <1>2, <1>4, <2>1, InsertedTypes
<1>6. id.size = SizeOf[t] /\ id.offset = d.end - SizeOf[t]
  BY DEF NewId
<1>7. d.end + n <= Capacity
  <2>1. CASE n = 0
    BY <1>2, <2>1
  <2>2. CASE n # 0
    <3>1. n \in 1 .. n
      BY <1>2, <2>2
    <3> QED BY <1>3, <2>2, <3>1 DEF Row, Placed
  <2> QED BY <2>1, <2>2
<1> HIDE DEF n, e, id
<1>8. Row(e.ids, 1 .. n + 1, n + 1) /\ SameIds(d.ids, e.ids, 1 .. n)
  <2>1. id.size >= 1 /\ id.offset = d.end - id.size /\ id.offset >= n + 1
    BY <1>1, <1>2, <1>4, <1>6
  <2> QED BY <1>2, <1>3, <1>4, <1>5, <1>6, <1>7, <2>1, RowExtended
<1>9. n + 1 \in 1 .. n + 1 /\ n + 1 # 0
  BY <1>2
<1>10. /\ n + 1 <= Len(e.ids) /\ e.ids[n + 1].offset + (n + 1) <= Capacity
       /\ e.ids[n + 1].offset = e.end /\ e.ids[n + 1] = id
  BY <1>5, <1>6, <1>8, <1>9 DEF Row, Placed, IsWritten
<1>11. Len(e.ids) \in Nat /\ Len(e.ids) >= 1
  <2>1. Len(e.ids) \in Nat
    BY <1>5, LenProperties DEF Page, IdList
  <2> QED BY <1>2, <1>10, <2>1
<1>12. 2 * e.item_amount <= Capacity
  BY <1>1, <1>2, <1>4, <1>5, <1>6, <1>10
<1>13. Tidy(e, FALSE, TRUE) /\ Tidy(e, FALSE, FALSE)
  BY <1>5, <1>8, <1>9, <1>10, <1>11 DEF Tidy
<1> QED BY <1>5, <1>8, <1>12, <1>13 DEF e, n

(* SelectInSeq finds what it looks for.                                    *)
LEMMA TargetFits ==
    ASSUME NEW g, NEW t, Target(g, t) # 0
    PROVE  FitsIn(t, data[Candidates(g)[Target(g, t)]])
<1> DEFINE s == Candidates(g)
           I == {i \in 1 .. Len(s) : FitsIn(t, data[s[i]])}
<1>1. Target(g, t) = IF I = {} THEN 0 ELSE Min(I)
  BY Zenon DEF Target, SelectInSeq
<1>2. PICK n \in I : \A m \in I : n <= m
  <2>1. I \in SUBSET Nat /\ I # {}
    BY <1>1
  <2> HIDE DEF I
  <2> QED BY <2>1, LeastOf
<1>3. Min(I) \in I
  <2> HIDE DEF I
  <2> QED BY <1>2 DEF Min
<1> QED BY <1>1, <1>2, <1>3

LEMMA InsertRows ==
    ASSUME Kinds, NEW g, NEW t \in Items, rows' = [rows EXCEPT ![g] = @ \cup {t}]
    PROVE  DOMAIN rows' = DOMAIN rows /\ \A h \in DOMAIN rows' : rows'[h] \subseteq Items
  BY DEF Kinds

LEMMA InsertIntoPageStep ==
    ASSUME IInv, NEW g \in PG!Groups, NEW t \in Items, Insert(g, t), Target(g, t) # 0
    PROVE  IInv'
<1>1. /\ PGP!Inv /\ Kinds /\ Phases /\ Tidiness /\ Half /\ ~harmed /\ ~damaged
      /\ operation = "idle" /\ phase = "idle" /\ group = NULL /\ vacuums = 0
      /\ DOMAIN rows = PG!Groups
      /\ \A h \in PG!Groups : GroupTidy(h)
  BY BetweenCalls DEF Insert
<1>2. PICK p : p = Candidates(g)[Target(g, t)]
  OBVIOUS
<1>3. /\ data' = [data EXCEPT ![p] = ItemInserted(@, t)]
      /\ harmed' = (p \notin Range(chain[g]) \/ p \in sealed)
      /\ rows' = [rows EXCEPT ![g] = @ \cup {t}]
      /\ UNCHANGED <<groupVars, sealed, control, scanning, vac>>
  BY <1>2 DEF Insert, InsertIntoPage
<1>4. PGP!Inv'
  BY <1>1, <1>3, GroupsSame
<1>5. UNCHANGED <<phase, loop_group, chain, damaged>>
  BY <1>3 DEF groupVars
<1>6. SizeOf[t] + 1 < data[p].end - data[p].start
  BY <1>2, TargetFits DEF FitsIn, EntrySize
<1>7. data \in [PG!Pages -> Page] /\ Capacity \in Nat \ {0} /\ SizeOf[t] \in Nat \ {0}
      /\ HeaderSize \in Nat
  BY <1>1, DataAssumption DEF Kinds
<1>8. data' \in [PG!Pages -> Page]
  <2>1. CASE p \in PG!Pages
    <3>1. data[p] \in Page
      BY <1>7, <2>1
    <3>2. /\ data[p].start \in 0 .. Capacity /\ data[p].item_amount \in 0 .. Capacity
          /\ data[p].end \in -HeaderSize .. Capacity /\ 2 * data[p].item_amount <= Capacity
      BY <1>1, <2>1, <3>1 DEF Half, Page
    <3>3. /\ data[p].start + 1 <= Capacity /\ data[p].item_amount + 1 <= Capacity
          /\ data[p].end - SizeOf[t] >= -HeaderSize
      BY <1>6, <1>7, <3>2
    <3>4. ItemInserted(data[p], t) \in Page
      BY <3>1, <3>3, InsertedTypes
    <3> QED BY <1>3, <1>7, <3>4
  <2>2. CASE p \notin PG!Pages
    BY <1>3, <1>7, <2>2
  <2> QED BY <2>1, <2>2
<1>9. Kinds'
  <2>1. harmed' \in BOOLEAN
    BY <1>3
  <2> QED BY <1>1, <1>3, <1>5, <1>8, <2>1, IdleKinds, InsertRows DEF Kinds, PG!Groups
<1>10. Phases'
  <2>1. DOMAIN rows' = PG!Groups'
    BY <1>1, <1>3, <1>5, InsertRows DEF PG!Groups
  <2> QED BY <1>1, <1>3, <1>5, <2>1 DEF Phases, Clearing, control
<1>11. ASSUME ~harmed' PROVE Sound'
  <2>1. p \in Range(chain[g]) /\ p \notin sealed
    BY <1>3, <1>11
  <2>2. /\ p \in PG!Pages /\ \A h \in PG!Groups \ {g} : p \notin Range(chain[h])
    BY <1>1, <2>1, ListsOf DEF PagesOf
  <2>3. Tidy(data[p], p \in sealed, p = g)
    BY <1>1, <2>1 DEF GroupTidy, PagesOf
  <2>4. data[p] \in Page /\ data'[p] = ItemInserted(data[p], t)
        /\ \A q \in PG!Pages : q # p => data'[q] = data[q]
    BY <1>3, <1>7, <2>2
  <2>5. Tidy(data[p], FALSE, p = g)
    BY <2>1, <2>3 DEF Tidy
  <2>6. SizeOf[t] + 1 <= data[p].end - data[p].start
    BY <1>6, <1>7, <2>4 DEF Page
  <2>7. /\ Tidy(data'[p], FALSE, TRUE) /\ Tidy(data'[p], FALSE, FALSE)
        /\ 2 * data'[p].item_amount <= Capacity
    BY <2>4, <2>5, <2>6, InsertedTidy
  <2>8. Half'
    BY <1>1, <2>4, <2>7 DEF Half
  <2>9. ASSUME NEW h \in DOMAIN rows', h # g PROVE GroupTidy(h)'
    <3>1. h \in PG!Groups /\ chain'[h] = chain[h] /\ PagesOf(h) \subseteq PG!Pages
          /\ p \notin Range(chain[h])
      BY <1>1, <1>3, <1>5, <2>2, <2>9, InsertRows, ListsOf
    <3>2. \A q \in Range(chain[h]) : data'[q] = data[q] /\ (q \in sealed' <=> q \in sealed)
      BY <1>3, <2>4, <3>1 DEF PagesOf
    <3> QED BY <1>1, <3>1, <3>2, GroupTidyKept
  <2>10. GroupTidy(g)'
    <3>1. SUFFICES ASSUME NEW q \in Range(chain[g])
                   PROVE  Tidy(data'[q], q \in sealed', q = g)
      BY <1>5 DEF GroupTidy, PagesOf
    <3>2. CASE q = p
      BY <1>3, <2>1, <2>7, <3>2 DEF Tidy
    <3>3. CASE q # p
      <4>1. data'[q] = data[q]
        BY <1>1, <2>4, <3>3, ListsOf DEF PagesOf
      <4> QED BY <1>1, <1>3, <4>1 DEF GroupTidy, PagesOf
    <3> QED BY <3>2, <3>3
  <2>11. Tidiness'
    BY <2>9, <2>10 DEF Tidiness
  <2> QED BY <1>1, <1>3, <2>8, <2>11, StillIdle DEF control
<1> QED BY <1>4, <1>9, <1>10, <1>11 DEF IInv

LEMMA InsertIntoNewPageStep ==
    ASSUME IInv, NEW g \in PG!Groups, NEW t \in Items, Insert(g, t), Target(g, t) = 0
    PROVE  IInv'
<1>1. /\ PGP!Inv /\ Kinds /\ Phases /\ Tidiness /\ Half /\ ~harmed /\ ~damaged
      /\ operation = "idle" /\ phase = "idle" /\ group = NULL /\ vacuums = 0
      /\ DOMAIN rows = PG!Groups
      /\ \A h \in PG!Groups : GroupTidy(h)
  BY BetweenCalls DEF Insert
<1>2. PICK n \in PG!Pages :
         n = PG!NewPage /\ n \notin PG!Groups /\ \A h \in PG!Groups : n \notin Range(chain[h])
  BY <1>1, NewPageFacts DEF Insert, InsertIntoNewPage, PG!AddPage
<1> DEFINE e == ItemInserted(EmptyPage, t)
<1>3. /\ PG!AddPage(g)
      /\ data' = [data EXCEPT ![n] = e]
      /\ harmed' = (damaged' \/ EntrySize(SizeOf[t]) > Capacity)
      /\ sealed' = sealed \ {n}
      /\ rows' = [rows EXCEPT ![g] = @ \cup {t}]
      /\ UNCHANGED <<control, scanning, vac>>
      /\ SizeOf[t] <= Capacity + HeaderSize - 1
  BY <1>2 DEF Insert, InsertIntoNewPage, MaxItemSize
<1>4. PGP!Inv'
  BY <1>1, <1>3, GroupsStep
<1>5. /\ chain' = [chain EXCEPT ![g] = Append(@, n)] /\ UNCHANGED <<phase, loop_group>>
      /\ damaged' \in BOOLEAN
  <2>1. PGP!TypeOK'
    BY <1>4 DEF PGP!Inv
  <2> QED BY <1>2, <1>3, <2>1 DEF PG!AddPage, PG!loop, PGP!TypeOK
<1>6. /\ Capacity \in Nat \ {0} /\ SizeOf[t] \in Nat \ {0} /\ HeaderSize \in Nat
      /\ EmptyPage \in Page /\ EmptyPage.start = 0 /\ EmptyPage.item_amount = 0
      /\ EmptyPage.end = Capacity
  BY EmptyPageFacts, DataAssumption DEF EmptyPage
<1>7. e \in Page /\ e.item_amount = 1
  <2>1. Capacity - SizeOf[t] >= -HeaderSize /\ 0 + 1 <= Capacity
    BY <1>3, <1>6
  <2> QED BY <1>6, <2>1, InsertedTypes
<1> HIDE DEF e
<1>8. /\ data' \in [PG!Pages -> Page] /\ data'[n] = e
      /\ \A q \in PG!Pages : q # n => data'[q] = data[q]
  BY <1>1, <1>2, <1>3, <1>7 DEF Kinds
<1>9. DOMAIN chain' = PG!Groups /\ \A h \in PG!Groups \ {g} : chain'[h] = chain[h]
  BY <1>5, PageNumbers
<1>10. Kinds'
  <2>1. harmed' \in BOOLEAN
    BY <1>3, <1>5
  <2>2. sealed' \subseteq PG!Pages
    BY <1>1, <1>3 DEF Kinds
  <2>3. DOMAIN rows' \subseteq DOMAIN chain' /\ \A h \in DOMAIN rows' : rows'[h] \subseteq Items
    BY <1>1, <1>3, <1>9, InsertRows
  <2> QED BY <1>1, <1>3, <1>8, <2>1, <2>2, <2>3, IdleKinds
<1>11. Phases'
  <2>1. DOMAIN rows' = PG!Groups'
    BY <1>1, <1>3, <1>9, InsertRows DEF PG!Groups
  <2>2. damaged' => harmed'
    BY <1>3
  <2> QED BY <1>1, <1>3, <1>5, <2>1, <2>2 DEF Phases, Clearing, control
<1>12. ASSUME ~harmed' PROVE Sound'
  <2>1. SizeOf[t] + 1 <= Capacity
    <3>1. ~(EntrySize(SizeOf[t]) > Capacity)
      BY <1>3, <1>12
    <3> QED BY <1>6, <3>1 DEF EntrySize
  <2>2. /\ Tidy(e, FALSE, FALSE) /\ 2 * e.item_amount <= Capacity
    <3>1. SizeOf[t] + 1 <= EmptyPage.end - EmptyPage.start
      BY <1>6, <2>1
    <3> QED BY <3>1, EmptyPageFacts, InsertedTidy DEF e
  <2>3. Half'
    BY <1>1, <1>8, <2>2 DEF Half
  <2>4. ASSUME NEW h \in PG!Groups, NEW q \in Range(chain[h])
        PROVE  Tidy(data'[q], q \in sealed', q = h)
    <3>1. q \in PG!Pages /\ q # n
      BY <1>1, <1>2, <2>4, ListsOf DEF PagesOf
    <3>2. data'[q] = data[q] /\ (q \in sealed' <=> q \in sealed)
      BY <1>3, <1>8, <3>1
    <3> QED BY <1>1, <3>2 DEF GroupTidy, PagesOf
  <2>5. ASSUME NEW h \in DOMAIN rows' PROVE GroupTidy(h)'
    <3>1. h \in PG!Groups
      BY <1>1, <1>3, <2>5, InsertRows
    <3>2. SUFFICES ASSUME NEW q \in Range(chain'[h])
                   PROVE  Tidy(data'[q], q \in sealed', q = h)
      BY DEF GroupTidy, PagesOf
    <3>3. CASE q \in Range(chain[h])
      BY <2>4, <3>1, <3>3
    <3>4. CASE q \notin Range(chain[h])
      <4>1. h = g
        BY <1>9, <3>1, <3>2, <3>4
      <4>2. chain[g] \in Seq(PG!Pages)
        BY <1>1, ListsOf DEF Listed
      <4>3. chain'[g] = Append(chain[g], n)
        BY <1>5, PageNumbers
      <4>4. q = n
        BY <1>2, <3>2, <3>4, <4>1, <4>2, <4>3, AppendProperties, LenProperties DEF Range
      <4>5. q # h /\ q \notin sealed'
        BY <1>2, <1>3, <3>1, <4>4
      <4> QED BY <1>8, <2>2, <4>4, <4>5 DEF Tidy
    <3> QED BY <3>3, <3>4
  <2>6. Tidiness'
    BY <2>5 DEF Tidiness
  <2> QED BY <1>1, <1>3, <2>3, <2>6, StillIdle DEF control
<1> QED BY <1>4, <1>10, <1>11, <1>12 DEF IInv

LEMMA InsertStep == ASSUME IInv, NEW g \in PG!Groups, NEW t \in Items, Insert(g, t) PROVE IInv'
  BY InsertIntoPageStep, InsertIntoNewPageStep

(* A call that is over, or goes on with vacuum.                            *)
LEMMA FreshFacts ==
    ASSUME NEW g \in PG!PageIds
    PROVE  /\ FreshVacuum(g) \in VacuumLocals /\ NoVacuum \in VacuumLocals
           /\ NoIterator \in ItemIterator
  BY PageNumbers DEF FreshVacuum, NoVacuum, VacuumLocals, NoIterator, ItemIterator

LEMMA VacuumRuns ==
    ASSUME IInv, operation # "idle", NEW times \in 0 .. 2, RunVacuum(times),
           PGP!Inv', phase' = "idle", chain' = chain, damaged' => harmed',
           data' \in [PG!Pages -> Page], sealed' \subseteq PG!Pages, harmed' \in BOOLEAN,
           DOMAIN rows' = DOMAIN rows, \A g \in DOMAIN rows : rows'[g] \subseteq Items,
           it' \in ItemIterator, scanned' \subseteq Items,
           ~harmed' => Half' /\ \A g \in DOMAIN rows : GroupTidy(g)'
    PROVE  IInv'
<1>1. Kinds /\ Phases
  BY DEF IInv
<1>2. DOMAIN rows = PG!Groups /\ group \in DOMAIN rows /\ PG!Groups' = PG!Groups
      /\ group \in PG!PageIds /\ NULL \notin DOMAIN rows /\ NULL \in PG!PageIds
  <2>1. DOMAIN rows = PG!Groups /\ group \in DOMAIN rows
    BY <1>1 DEF Phases
  <2>2. PG!Groups' = PG!Groups
    BY DEF PG!Groups
  <2>3. group \in PG!PageIds /\ NULL \in PG!PageIds
    BY <1>1, PageNumbers DEF Kinds
  <2>4. NULL \notin DOMAIN rows
    <3>1. PGP!Groups \subseteq 1 .. page_amount
      BY DEF IInv, PGP!Inv, PGP!TypeOK
    <3> QED BY <2>1, <3>1, PageNumbers, SameNames
  <2> QED BY <2>1, <2>2, <2>3, <2>4
<1>3. \/ times = 0 /\ operation' = "idle" /\ vacuums' = 0 /\ group' = NULL /\ vac' = NoVacuum
      \/ /\ times # 0 /\ operation' = "vacuum" /\ vacuums' = times
         /\ vac' = FreshVacuum(group) /\ group' = group
  BY DEF RunVacuum
<1>4. Kinds'
  <2>1. vac' \in VacuumLocals /\ group' \in PG!PageIds /\ vacuums' \in 0 .. 2
        /\ operation' \in {"idle", "vacuum"}
    BY <1>2, <1>3, FreshFacts
  <2>2. DOMAIN rows' \subseteq PG!Groups' /\ \A g \in DOMAIN rows' : rows'[g] \subseteq Items
    BY <1>2
  <2> QED BY <2>1, <2>2 DEF Kinds
<1>5. Phases'
  BY <1>2, <1>3 DEF Phases, Clearing
<1>6. ASSUME ~harmed' PROVE Sound'
  <2>1. Tidiness' /\ Half'
    BY <1>6 DEF Tidiness
  <2>2. PICK g : g = group
    OBVIOUS
  <2>3. GroupTidy(g)'
    BY <1>2, <1>6, <2>2
  <2>4. Vacuum'
    BY <1>3, <2>2, <2>3 DEF Vacuum
  <2>5. Freeing' /\ Scan'
    BY <1>3 DEF Freeing, Scan, Scans
  <2> QED BY <2>1, <2>4, <2>5 DEF Sound
<1> QED BY <1>4, <1>5, <1>6 DEF IInv
-----------------------------------------------------------------------------
(* A page in order stays so when the ids keep their places and sizes.      *)
LEMMA TidyRewritten ==
    ASSUME NEW d \in Page, NEW w \in IdList, NEW b, NEW first, Tidy(d, b, first),
           Len(d.ids) <= Len(w),
           \A i \in 1 .. Len(d.ids) : w[i].offset = d.ids[i].offset /\ w[i].size = d.ids[i].size,
           d.item_amount # 0
    PROVE  /\ [d EXCEPT !.ids = w] \in Page
           /\ [d EXCEPT !.ids = w].item_amount = d.item_amount
           /\ [d EXCEPT !.ids = w].ids = w
           /\ Tidy([d EXCEPT !.ids = w], b, first)
<1> DEFINE n == d.item_amount
           e == [d EXCEPT !.ids = w]
<1>1. e \in Page /\ e.item_amount = n /\ e.start = d.start /\ e.end = d.end /\ e.ids = w
      /\ n \in Nat /\ d.ids \in IdList
  BY DataAssumption DEF Page
<1>2. n \in 1 .. n /\ Row(d.ids, 1 .. n, n)
  BY <1>1 DEF Tidy
<1>3. \A i \in 1 .. n : i \in 1 .. Len(d.ids) /\ i \in 1 .. Len(w)
  <2>1. \A i \in 1 .. n : i \in 1 .. Len(d.ids)
    BY <1>2 DEF Row, Placed
  <2>2. Len(d.ids) \in Nat /\ Len(w) \in Nat
    BY <1>1, LenProperties DEF IdList
  <2> QED BY <2>1, <2>2
<1> HIDE DEF e
<1>4. Row(w, 1 .. n, n)
  <2>1. SameSpace(d.ids, w, 1 .. n)
    BY <1>3 DEF SameSpace
  <2> HIDE DEF n
  <2> QED BY <1>1, <1>2, <2>1, RowKept
<1>5. w[n].offset = d.ids[n].offset /\ Len(w) >= 1
  <2>1. n \in 1 .. Len(d.ids) /\ n \in 1 .. Len(w) /\ Len(w) \in Nat
    BY <1>2, <1>3, LenProperties DEF IdList
  <2> QED BY <2>1
<1> QED BY <1>1, <1>4, <1>5 DEF Tidy, e

(* What a scan knows.                                                      *)
LEMMA ScanFacts ==
    ASSUME IInv, Scanning
    PROVE  /\ PGP!Inv /\ Kinds /\ Phases /\ Half /\ ~harmed /\ ~damaged
           /\ operation \in Scans /\ operation \notin {"idle", "vacuum", "free"}
           /\ phase = "idle" /\ vacuums = 0 /\ DOMAIN rows = PG!Groups
           /\ group \in DOMAIN rows
           /\ \A g \in DOMAIN rows : GroupTidy(g)
           /\ \E k \in Nat : ScanAt(it, chain[group], data, header, k)
<1>1. /\ PGP!Inv /\ Kinds /\ Phases /\ Sound /\ ~harmed /\ operation \in Scans
      /\ operation \notin {"idle", "vacuum", "free"}
  BY DEF IInv, Scanning, Scans
<1>2. phase \in {"idle", "delete", "vacuum"}
  BY <1>1, SameActions DEF PGP!Inv, PG!TypeOK
<1> QED BY <1>1, <1>2 DEF Phases, Sound, Tidiness, Clearing, Scan

LEMMA PreloadReady ==
    ASSUME IInv, ~harmed, NEW g \in DOMAIN rows, GroupTidy(g)
    PROVE  /\ data \in [PG!Pages -> Page] /\ header \in [PG!Pages -> PG!PageHeader]
           /\ g \in PG!Pages /\ Listed(chain[g], g, header)
           /\ \A k \in 2 .. Len(chain[g]) :
                 data[chain[g][k]].item_amount = 0 => data[chain[g][k]].ids[1].deleted
<1>1. data \in [PG!Pages -> Page] /\ header \in [PG!Pages -> PG!PageHeader]
  BY SameActions DEF IInv, Kinds, PGP!Inv, PG!TypeOK
<1>2. g \in PG!Pages /\ Listed(chain[g], g, header)
  BY ListsOf
<1>3. ASSUME NEW k \in 2 .. Len(chain[g]), data[chain[g][k]].item_amount = 0
      PROVE  data[chain[g][k]].ids[1].deleted
  <2>1. chain[g][k] \in Range(chain[g]) /\ chain[g][k] # g
    BY <1>2 DEF Listed, Range, IsInjective
  <2> QED BY <1>3, <2>1 DEF GroupTidy, PagesOf, Tidy
<1> QED BY <1>1, <1>2, <1>3

LEMMA FoundIsAt ==
    ASSUME header \in [PG!Pages -> PG!PageHeader], NEW g, NEW s, Listed(s, g, header),
           NEW r, NEW k \in 1 .. Len(s), NEW i, NEW l \in k .. Len(s),
           FoundAt(r, s, data, header, k, i, l)
    PROVE  r \in ItemIterator /\ ScanAt(r, s, data, header, l)
<1>1. l \in 1 .. Len(s) /\ Len(s) \in Nat
  <2>1. Len(s) \in Nat
    BY Zenon DEF Listed
  <2> QED BY <2>1
<1>2. s[l] \in PG!Pages
  BY Zenon, <1>1 DEF Listed
<1>3. header[s[l]].next \in PG!PageIds
  <2>1. header[s[l]] \in PG!PageHeader
    BY <1>2
  <2> QED BY <2>1 DEF PG!PageHeader
<1>4. r \in ItemIterator
  BY <1>2, <1>3, PageNumbers DEF FoundAt, ItemIterator
<1>5. r.page = s[l] /\ r.next_page = header[s[l]].next
  <2>1. PICK a, b : r = [page |-> s[l], next_page |-> header[s[l]].next,
                         index |-> a, is_empty |-> b]
    BY DEF FoundAt
  <2> QED BY <2>1
<1> QED BY <1>1, <1>4, <1>5 DEF FoundAt, ScanAt

LEMMA ScanBeginStep ==
    ASSUME IInv, NEW g \in PG!Groups, NEW kind \in Scans, ScanBegin(g, kind) PROVE IInv'
<1>1. /\ PGP!Inv /\ Kinds /\ Phases /\ Tidiness /\ Half /\ ~harmed /\ ~damaged
      /\ operation = "idle" /\ phase = "idle" /\ group = NULL /\ vacuums = 0
      /\ DOMAIN rows = PG!Groups
      /\ \A h \in PG!Groups : GroupTidy(h)
  BY BetweenCalls DEF ScanBegin
<1>2. /\ operation' = kind /\ group' = g
      /\ it' = PreloadNextItem[<<g, header[g].next, 0>>]
      /\ scanned' = rows[g]
      /\ UNCHANGED <<groupVars, data, vacuums, vac, rows, sealed, harmed>>
  BY DEF ScanBegin
<1>3. PGP!Inv' /\ UNCHANGED <<phase, chain, damaged, header>>
  BY <1>1, <1>2, GroupsSame DEF groupVars
<1>4. /\ data \in [PG!Pages -> Page] /\ header \in [PG!Pages -> PG!PageHeader]
      /\ g \in PG!Pages /\ Listed(chain[g], g, header)
      /\ \A k \in 2 .. Len(chain[g]) :
            data[chain[g][k]].item_amount = 0 => data[chain[g][k]].ids[1].deleted
  BY <1>1, PreloadReady
<1>5. chain[g][1] = g /\ 1 \in 1 .. Len(chain[g]) /\ 0 \in 0 .. Capacity
  BY <1>4, DataAssumption DEF Listed
<1>6. Found(it', chain[g], data, header, 1, 0)
  BY <1>2, <1>4, <1>5, PreloadFinds
<1>7. PICK l \in 1 .. Len(chain[g]) : it' \in ItemIterator /\ ScanAt(it', chain[g], data, header, l)
  BY <1>4, <1>5, <1>6, FoundIsAt DEF Found
<1>8. Kinds'
  <2>1. operation' \in Scans /\ group' \in PG!PageIds /\ scanned' \subseteq Items
    BY <1>1, <1>2, <1>4, PageNumbers DEF Kinds
  <2>2. DOMAIN rows' \subseteq PG!Groups'
    BY <1>1, <1>2, <1>3 DEF PG!Groups
  <2> QED BY <1>1, <1>2, <1>7, <2>1, <2>2 DEF Kinds
<1>9. Phases'
  <2>1. g # NULL /\ kind \notin {"idle", "vacuum", "free"} /\ PG!Groups' = PG!Groups
    BY <1>3, <1>4, PageNumbers DEF Scans, PG!Groups
  <2> QED BY <1>1, <1>2, <1>3, <2>1 DEF Phases, Clearing
<1>10. Sound'
  <2>1. Half'
    BY <1>1, <1>2 DEF Half
  <2>2. \A h \in DOMAIN rows' : GroupTidy(h)'
    BY <1>1, <1>2, <1>3, GroupTidyKept
  <2>3. Scan'
    <3>1. l \in Nat
      BY <1>4 DEF Listed
    <3> QED BY <1>2, <1>3, <1>7, <3>1 DEF Scan
  <2>4. Vacuum' /\ Freeing'
    BY <1>2 DEF Vacuum, Freeing, Scans
  <2> QED BY <2>1, <2>2, <2>3, <2>4 DEF Sound, Tidiness
<1> QED BY <1>3, <1>8, <1>9, <1>10 DEF IInv

(* The item a scan looks at.                                               *)
LEMMA ScanReads ==
    ASSUME IInv, Scanning, ~it.is_empty
    PROVE  \E k \in 1 .. Len(chain[group]) :
              /\ it.page = chain[group][k] /\ it.next_page = header[chain[group][k]].next
              /\ it.page \in PagesOf(group) /\ it.page \in PG!Pages
              /\ it.index + 1 \in 1 .. data[it.page].item_amount
              /\ it.index + 1 \in 1 .. Len(data[it.page].ids)
              /\ it.index + 1 \in 1 .. Capacity
              /\ data[it.page].item_amount # 0
              /\ Current \in ItemId /\ data[it.page].ids \in IdList
<1>1. PICK k \in Nat : ScanAt(it, chain[group], data, header, k)
  BY ScanFacts
<1>2. /\ k \in 1 .. Len(chain[group])
      /\ it.page = chain[group][k] /\ it.next_page = header[chain[group][k]].next
      /\ it.index < data[it.page].item_amount
  BY <1>1 DEF ScanAt
<1>3. /\ Listed(chain[group], group, header) /\ PagesOf(group) \subseteq PG!Pages
      /\ GroupTidy(group) /\ data \in [PG!Pages -> Page] /\ it.index \in Nat
  BY ScanFacts, ListsOf DEF Kinds, ItemIterator
<1>4. it.page \in PagesOf(group) /\ it.page \in PG!Pages
  BY <1>2, <1>3 DEF Listed, PagesOf, Range
<1> DEFINE d == data[it.page]
<1>5. d \in Page /\ Row(d.ids, 1 .. d.item_amount, d.item_amount)
  BY <1>3, <1>4 DEF GroupTidy, Tidy
<1>6. /\ d.item_amount \in 0 .. Capacity /\ d.ids \in IdList /\ Capacity \in Nat
  BY <1>5, DataAssumption DEF Page
<1>7. it.index + 1 \in 1 .. d.item_amount /\ it.index + 1 \in 1 .. Capacity
      /\ d.item_amount # 0
  BY <1>2, <1>3, <1>6
<1>8. it.index + 1 \in 1 .. Len(d.ids)
  BY <1>5, <1>7 DEF Row, Placed
<1>9. Current \in ItemId
  BY <1>6, <1>8, ElementOfSeq DEF Current, IdList
<1> QED BY <1>2, <1>4, <1>6, <1>7, <1>8, <1>9

(* A scan writes over an item, or marks it deleted: the pages stay in      *)
(* order.                                                                  *)
LEMMA ItemRewritten ==
    ASSUME IInv, Scanning, NEW p \in PagesOf(group), data[p].item_amount # 0,
           NEW w \in IdList, Len(data[p].ids) <= Len(w),
           \A i \in 1 .. Len(data[p].ids) :
              w[i].offset = data[p].ids[i].offset /\ w[i].size = data[p].ids[i].size,
           data' = [data EXCEPT ![p] = [data[p] EXCEPT !.ids = w]],
           chain' = chain, sealed' = sealed
    PROVE  /\ data' \in [PG!Pages -> Page] /\ Half'
           /\ \A g \in DOMAIN rows : GroupTidy(g)'
           /\ \A q \in PG!Pages : data'[q].item_amount = data[q].item_amount
           /\ \A q \in PG!Pages : q # p => data'[q] = data[q]
           /\ data'[p].ids = w
<1>1. /\ Kinds /\ Half /\ DOMAIN rows = PG!Groups /\ group \in DOMAIN rows /\ ~harmed
      /\ \A g \in DOMAIN rows : GroupTidy(g)
  BY ScanFacts
<1>2. /\ p \in PG!Pages
      /\ \A g \in DOMAIN rows : g # group => p \notin Range(chain[g])
      /\ \A g \in DOMAIN rows : PagesOf(g) \subseteq PG!Pages
  BY <1>1, ListsOf
<1>3. data \in [PG!Pages -> Page] /\ data[p] \in Page /\ Tidy(data[p], p \in sealed, p = group)
  BY <1>1, <1>2 DEF Kinds, GroupTidy
<1> DEFINE e == [data[p] EXCEPT !.ids = w]
<1>4. /\ e \in Page /\ e.item_amount = data[p].item_amount /\ e.ids = w
      /\ Tidy(e, p \in sealed, p = group)
  BY <1>3, TidyRewritten
<1>5. data' = [data EXCEPT ![p] = e]
  OBVIOUS
<1> HIDE DEF e
<1>6. /\ data' \in [PG!Pages -> Page] /\ data'[p] = e
      /\ \A q \in PG!Pages : q # p => data'[q] = data[q]
  BY <1>2, <1>3, <1>4, <1>5
<1>7. Half'
  BY <1>1, <1>4, <1>6 DEF Half
<1>8. ASSUME NEW g \in DOMAIN rows PROVE GroupTidy(g)'
  <2>1. CASE g # group
    <3>1. \A q \in Range(chain[g]) : data'[q] = data[q] /\ (q \in sealed' <=> q \in sealed)
      BY <1>2, <1>6, <2>1 DEF PagesOf
    <3> QED BY <1>1, <3>1, GroupTidyKept
  <2>2. CASE g = group
    <3>1. SUFFICES ASSUME NEW q \in Range(chain[g])
                   PROVE  Tidy(data'[q], q \in sealed, q = g)
      BY DEF GroupTidy, PagesOf
    <3>2. q \in PG!Pages /\ Tidy(data[q], q \in sealed, q = g)
      BY <1>1, <1>2 DEF GroupTidy, PagesOf
    <3> QED BY <1>4, <1>6, <2>2, <3>2
  <2> QED BY <2>1, <2>2
<1> QED BY <1>4, <1>6, <1>7, <1>8

(* item_iterator_next, and what the loop then does to the item it gave.    *)
LEMMA ScanGoesOn ==
    ASSUME IInv, NextItem, UNCHANGED <<control, vac>>, harmed' \in BOOLEAN,
           data' \in [PG!Pages -> Page], Half', \A g \in DOMAIN rows : GroupTidy(g)',
           \A q \in PG!Pages : data'[q].item_amount = data[q].item_amount,
           \A q \in PG!Pages : q # it.page => data'[q] = data[q],
           \A i \in 1 .. data[it.page].item_amount : i # it.index + 1 =>
              data'[it.page].ids[i].deleted = data[it.page].ids[i].deleted,
           DOMAIN rows' = DOMAIN rows, \A g \in DOMAIN rows : rows'[g] \subseteq Items
    PROVE  IInv'
<1>1. /\ Scanning /\ ~it.is_empty
      /\ it' = PreloadNextItem[<<it.page, it.next_page, it.index + 1>>]
      /\ UNCHANGED <<groupVars, scanned, sealed>>
  BY DEF NextItem
<1>2. /\ PGP!Inv /\ Kinds /\ Phases /\ ~damaged
      /\ operation \in Scans /\ operation \notin {"idle", "vacuum", "free"}
      /\ phase = "idle" /\ vacuums = 0 /\ DOMAIN rows = PG!Groups
      /\ group \in DOMAIN rows /\ GroupTidy(group) /\ ~harmed
  BY <1>1, ScanFacts
<1> DEFINE s == chain[group]
<1>3. PICK k \in 1 .. Len(s) :
              /\ it.page = s[k] /\ it.next_page = header[s[k]].next
              /\ it.page \in PG!Pages
              /\ it.index + 1 \in 1 .. data[it.page].item_amount
              /\ it.index + 1 \in 1 .. Capacity
  BY <1>1, ScanReads
<1>4. /\ data \in [PG!Pages -> Page] /\ header \in [PG!Pages -> PG!PageHeader]
      /\ group \in PG!Pages /\ Listed(s, group, header)
      /\ \A x \in 2 .. Len(s) :
            data[s[x]].item_amount = 0 => data[s[x]].ids[1].deleted
  BY <1>2, PreloadReady
<1>5. it.index + 1 \in 0 .. Capacity
  BY <1>3
<1> HIDE DEF s
<1>6. Found(it', s, data, header, k, it.index + 1)
  BY <1>1, <1>3, <1>4, <1>5, PreloadFinds
<1>7. PICK l \in k .. Len(s) : FoundAt(it', s, data, header, k, it.index + 1, l)
  BY <1>6 DEF Found
<1>8. it' \in ItemIterator /\ ScanAt(it', s, data, header, l)
  BY <1>4, <1>7, FoundIsAt
<1>9. l \in 1 .. Len(s) /\ l \in Nat /\ s[l] \in PG!Pages
  <2>1. l \in 1 .. Len(s) /\ l \in Nat
    <3>1. Len(s) \in Nat
      BY <1>4 DEF Listed
    <3> QED BY <3>1
  <2> QED BY <1>4, <2>1 DEF Listed
<1>10. ScanAt(it', s, data', header, l)
  <2>1. SUFFICES ASSUME ~it'.is_empty
                 PROVE  /\ it'.index < data'[s[l]].item_amount
                        /\ ~data'[s[l]].ids[it'.index + 1].deleted
    BY <1>8 DEF ScanAt
  <2>2. /\ it'.index < data[s[l]].item_amount /\ ~data[s[l]].ids[it'.index + 1].deleted
        /\ it'.index \in Nat
    BY <1>8, <2>1 DEF ScanAt, ItemIterator
  <2>3. CASE l # k
    <3>1. s[l] # s[k]
      BY <1>4, <1>9, <2>3 DEF Listed, IsInjective
    <3>2. data'[s[l]] = data[s[l]]
      BY <1>3, <1>9, <3>1
    <3> QED BY <2>2, <3>2
  <2>4. CASE l = k
    <3>1. it.index + 1 <= it'.index
      BY <1>7, <2>1, <2>4 DEF FoundAt
    <3>2. data[it.page] \in Page
      BY <1>3, <1>4
    <3>3. data[it.page].item_amount \in Nat
      BY <3>2, DataAssumption DEF Page
    <3>4. it.index \in Nat
      BY <1>2 DEF Kinds, ItemIterator
    <3>5. it'.index + 1 \in 1 .. data[it.page].item_amount /\ it'.index + 1 # it.index + 1
      BY <1>3, <2>2, <2>4, <3>1, <3>3, <3>4
    <3> QED BY <1>3, <1>9, <2>2, <2>4, <3>5
  <2> QED BY <2>3, <2>4
<1>11. /\ PGP!Inv' /\ phase' = phase /\ chain' = chain /\ damaged' = damaged
       /\ header' = header /\ loop_group' = loop_group
       /\ operation' = operation /\ vacuums' = vacuums /\ group' = group /\ vac' = vac
       /\ sealed' = sealed /\ scanned' = scanned
  <2>1. PGP!Inv'
    BY <1>1, <1>2, GroupsSame
  <2> QED BY <1>1, <2>1 DEF groupVars, control
<1>12. PG!Groups' = PG!Groups
  BY <1>11 DEF PG!Groups
<1>13. Kinds'
  <2>1. DOMAIN rows' \subseteq PG!Groups' /\ \A g \in DOMAIN rows' : rows'[g] \subseteq Items
    BY <1>2, <1>12
  <2> QED BY <1>2, <1>8, <1>11, <2>1 DEF Kinds
<1>14. Phases'
  BY <1>2, <1>11, <1>12 DEF Phases, Clearing
<1>15. Sound'
  <2>1. Tidiness'
    BY DEF Tidiness
  <2>2. Vacuum' /\ Freeing'
    BY <1>2, <1>11 DEF Vacuum, Freeing
  <2>3. Scan'
    BY <1>9, <1>10, <1>11 DEF Scan, s
  <2> QED BY <2>1, <2>2, <2>3 DEF Sound
<1> QED BY <1>11, <1>13, <1>14, <1>15 DEF IInv

LEMMA PassItemStep == ASSUME IInv, PassItem PROVE IInv'
<1>1. NextItem /\ UNCHANGED <<data, control, vac, rows, harmed>> /\ UNCHANGED <<groupVars, sealed>>
  BY DEF PassItem, NextItem
<1>2. /\ Kinds /\ Half /\ \A g \in DOMAIN rows : GroupTidy(g)
  BY <1>1, ScanFacts DEF NextItem
<1>3. chain' = chain
  BY <1>1 DEF groupVars
<1>4. Half' /\ \A g \in DOMAIN rows : GroupTidy(g)'
  <2>1. Half'
    BY <1>1, <1>2 DEF Half
  <2> QED BY <1>1, <1>2, <1>3, <2>1, GroupTidyKept
<1>5. /\ data' \in [PG!Pages -> Page] /\ harmed' \in BOOLEAN
      /\ \A g \in DOMAIN rows : rows'[g] \subseteq Items
  BY <1>1, <1>2 DEF Kinds
<1> QED BY <1>1, <1>4, <1>5, ScanGoesOn

(* What the steps on one item do to its page.                              *)
LEMMA UpdateItemStep == ASSUME IInv, NEW t \in Items, UpdateItem(t) PROVE IInv'
<1> DEFINE p == it.page
           i == it.index + 1
           id == [Current EXCEPT !.item = t]
           w == Written(data[p].ids, i, id, SizeOf[t])
<1>1. /\ NextItem
      /\ data' = [data EXCEPT ![p].ids = Written(@, i, id, SizeOf[t])]
      /\ rows' = [rows EXCEPT ![group] = (@ \ {Current.item}) \cup {t}]
      /\ harmed' = (SizeOf[t] > Current.size)
      /\ UNCHANGED <<control, vac>>
  BY DEF UpdateItem
<1>2. Scanning /\ ~it.is_empty /\ UNCHANGED <<groupVars, sealed>>
  BY <1>1 DEF NextItem
<1>3. PICK k \in 1 .. Len(chain[group]) :
         /\ p \in PagesOf(group) /\ p \in PG!Pages
         /\ i \in 1 .. data[p].item_amount /\ i \in 1 .. Len(data[p].ids)
         /\ i \in 1 .. Capacity /\ data[p].item_amount # 0
         /\ Current \in ItemId /\ data[p].ids \in IdList
  BY <1>2, ScanReads
<1>4. /\ Kinds /\ data \in [PG!Pages -> Page] /\ data[p] \in Page
      /\ DOMAIN rows = PG!Groups /\ group \in DOMAIN rows
  BY <1>2, <1>3, ScanFacts DEF Kinds
<1>5. /\ id \in ItemId /\ id.offset = Current.offset /\ id.size = Current.size
      /\ Current = data[p].ids[i]
  BY <1>3 DEF ItemId, Current
<1>6. data' = [data EXCEPT ![p] = [data[p] EXCEPT !.ids = w]]
  BY <1>1
<1> HIDE DEF id
<1>7. IsWritten(w, data[p].ids, i, id, SizeOf[t])
  <2>1. SizeOf[t] \in Nat
    BY DataAssumption
  <2> HIDE DEF p, i
  <2> QED BY <1>3, <1>5, <2>1, WrittenFacts
<1> HIDE DEF w, p, i
<1>8. /\ w \in IdList /\ Len(data[p].ids) <= Len(w)
      /\ \A j \in 1 .. Len(data[p].ids) :
            /\ w[j].offset = data[p].ids[j].offset /\ w[j].size = data[p].ids[j].size
            /\ j # i => w[j].deleted = data[p].ids[j].deleted
  <2>1. w[i].offset = data[p].ids[i].offset /\ w[i].size = data[p].ids[i].size
    BY <1>5, <1>7 DEF IsWritten
  <2>2. /\ w \in IdList /\ Len(data[p].ids) <= Len(w)
        /\ \A j \in 1 .. Len(data[p].ids) : j # i =>
              /\ w[j].offset = data[p].ids[j].offset /\ w[j].size = data[p].ids[j].size
              /\ w[j].deleted = data[p].ids[j].deleted
    BY <1>7, Zenon DEF IsWritten
  <2> QED BY <2>1, <2>2
<1>9. chain' = chain /\ sealed' = sealed
  BY <1>2 DEF groupVars
<1>10. /\ data' \in [PG!Pages -> Page] /\ Half'
       /\ \A g \in DOMAIN rows : GroupTidy(g)'
       /\ \A q \in PG!Pages : data'[q].item_amount = data[q].item_amount
       /\ \A q \in PG!Pages : q # p => data'[q] = data[q]
       /\ data'[p].ids = w
  <2>1. \A j \in 1 .. Len(data[p].ids) :
           w[j].offset = data[p].ids[j].offset /\ w[j].size = data[p].ids[j].size
    BY <1>8
  <2>2. w \in IdList /\ Len(data[p].ids) <= Len(w) /\ p \in PagesOf(group)
        /\ data[p].item_amount # 0
    BY <1>3, <1>8
  <2> QED BY <1>2, <1>6, <1>9, <2>1, <2>2, ItemRewritten
<1>11. \A j \in 1 .. data[p].item_amount : j \in 1 .. Len(data[p].ids)
  <2>1. GroupTidy(group)
    BY <1>2, <1>4, ScanFacts
  <2>2. Row(data[p].ids, 1 .. data[p].item_amount, data[p].item_amount)
    BY <1>3, <2>1 DEF GroupTidy, Tidy
  <2> QED BY <2>2 DEF Row, Placed
<1>12. \A j \in 1 .. data[p].item_amount : j # i =>
          data'[p].ids[j].deleted = data[p].ids[j].deleted
  BY <1>8, <1>10, <1>11
<1>13. /\ DOMAIN rows' = DOMAIN rows /\ \A g \in DOMAIN rows : rows'[g] \subseteq Items
       /\ harmed' \in BOOLEAN
  BY <1>1, <1>4 DEF Kinds
<1> QED BY <1>1, <1>10, <1>12, <1>13, ScanGoesOn DEF p, i

LEMMA DeletedFacts ==
    ASSUME IInv, Scanning, ~it.is_empty, data' = Deleted, chain' = chain, sealed' = sealed
    PROVE  /\ data' \in [PG!Pages -> Page] /\ Half'
           /\ \A g \in DOMAIN rows : GroupTidy(g)'
           /\ \A q \in PG!Pages : data'[q].item_amount = data[q].item_amount
           /\ \A q \in PG!Pages : q # it.page => data'[q] = data[q]
           /\ Replaced(data'[it.page].ids, data[it.page].ids, it.index + 1,
                       [Current EXCEPT !.deleted = TRUE])
<1> DEFINE p == it.page
           i == it.index + 1
           id == [Current EXCEPT !.deleted = TRUE]
           w == [data[p].ids EXCEPT ![i] = id]
<1>1. PICK k \in 1 .. Len(chain[group]) :
         /\ p \in PagesOf(group) /\ p \in PG!Pages
         /\ i \in 1 .. data[p].item_amount /\ i \in 1 .. Len(data[p].ids)
         /\ i \in 1 .. Capacity /\ data[p].item_amount # 0
         /\ Current \in ItemId /\ data[p].ids \in IdList
  BY ScanReads
<1>2. /\ id \in ItemId /\ id.offset = Current.offset /\ id.size = Current.size
      /\ Current = data[p].ids[i]
  BY <1>1 DEF ItemId, Current
<1>3. data' = [data EXCEPT ![p] = [data[p] EXCEPT !.ids = w]]
  <2>1. data' = [data EXCEPT ![p].ids[i].deleted = TRUE]
    BY DEF Deleted
  <2> QED BY <1>2, <2>1
<1> HIDE DEF id
<1>4. Replaced(w, data[p].ids, i, id)
  BY <1>1, <1>2, ExceptReplaces
<1> HIDE DEF w, p, i
<1>5. /\ w \in IdList /\ Len(data[p].ids) <= Len(w)
      /\ \A j \in 1 .. Len(data[p].ids) :
            /\ w[j].offset = data[p].ids[j].offset /\ w[j].size = data[p].ids[j].size
  <2>1. Len(w) \in Nat
    BY <1>4, LenProperties DEF Replaced, IdList
  <2> QED BY <1>2, <1>4, <2>1 DEF Replaced
<1>6. /\ data' \in [PG!Pages -> Page] /\ Half'
      /\ \A g \in DOMAIN rows : GroupTidy(g)'
      /\ \A q \in PG!Pages : data'[q].item_amount = data[q].item_amount
      /\ \A q \in PG!Pages : q # p => data'[q] = data[q]
      /\ data'[p].ids = w
  BY <1>1, <1>3, <1>5, ItemRewritten
<1> QED BY <1>4, <1>6 DEF p, i, id

LEMMA DeleteItemStep == ASSUME IInv, DeleteItem PROVE IInv'
<1>1. /\ NextItem /\ data' = Deleted
      /\ rows' = [rows EXCEPT ![group] = @ \ {Current.item}]
      /\ UNCHANGED <<control, vac, harmed>>
  BY DEF DeleteItem
<1>2. Scanning /\ ~it.is_empty /\ chain' = chain /\ sealed' = sealed
  BY <1>1 DEF NextItem, groupVars
<1>3. /\ Kinds /\ DOMAIN rows = PG!Groups /\ group \in DOMAIN rows /\ GroupTidy(group)
  BY <1>2, ScanFacts
<1>4. /\ data' \in [PG!Pages -> Page] /\ Half'
      /\ \A g \in DOMAIN rows : GroupTidy(g)'
      /\ \A q \in PG!Pages : data'[q].item_amount = data[q].item_amount
      /\ \A q \in PG!Pages : q # it.page => data'[q] = data[q]
      /\ Replaced(data'[it.page].ids, data[it.page].ids, it.index + 1,
                  [Current EXCEPT !.deleted = TRUE])
  BY <1>1, <1>2, DeletedFacts
<1>5. it.page \in PagesOf(group)
  BY <1>2, ScanReads
<1>6. \A j \in 1 .. data[it.page].item_amount : j # it.index + 1 =>
         data'[it.page].ids[j].deleted = data[it.page].ids[j].deleted
  <2>1. Row(data[it.page].ids, 1 .. data[it.page].item_amount, data[it.page].item_amount)
    BY <1>3, <1>5 DEF GroupTidy, Tidy
  <2> QED BY <1>4, <2>1 DEF Row, Placed, Replaced
<1>7. /\ DOMAIN rows' = DOMAIN rows /\ \A g \in DOMAIN rows : rows'[g] \subseteq Items
      /\ harmed' \in BOOLEAN
  BY <1>1, <1>3 DEF Kinds
<1> QED BY <1>1, <1>4, <1>6, <1>7, ScanGoesOn

(* The scan is over.                                                       *)
LEMMA EndScanStep ==
    ASSUME IInv, EndScan, NEW times \in 0 .. 2, RunVacuum(times),
           data' \in [PG!Pages -> Page], Half', \A g \in DOMAIN rows : GroupTidy(g)',
           DOMAIN rows' = DOMAIN rows, \A g \in DOMAIN rows : rows'[g] \subseteq Items
    PROVE  IInv'
<1>1. /\ Scanning /\ it' = NoIterator /\ scanned' = {}
      /\ UNCHANGED <<groupVars, sealed, harmed>>
  BY DEF EndScan
<1>2. /\ PGP!Inv /\ Kinds /\ ~damaged /\ ~harmed /\ operation # "idle" /\ phase = "idle"
  BY <1>1, ScanFacts
<1>3. PGP!Inv' /\ phase' = "idle" /\ chain' = chain /\ ~damaged'
  BY <1>1, <1>2, GroupsSame DEF groupVars
<1>4. it' \in ItemIterator /\ scanned' \subseteq Items
  BY <1>1, PageNumbers DEF NoIterator, ItemIterator
<1>5. sealed' \subseteq PG!Pages /\ harmed' \in BOOLEAN
  BY <1>1, <1>2 DEF Kinds
<1> QED BY <1>2, <1>3, <1>4, <1>5, VacuumRuns

LEMMA EndsUnchanged ==
    ASSUME IInv, Scanning, UNCHANGED <<data, rows, sealed, chain>>
    PROVE  /\ data' \in [PG!Pages -> Page] /\ Half' /\ \A g \in DOMAIN rows : GroupTidy(g)'
           /\ DOMAIN rows' = DOMAIN rows /\ \A g \in DOMAIN rows : rows'[g] \subseteq Items
<1>1. /\ Kinds /\ Half /\ \A g \in DOMAIN rows : GroupTidy(g)
  BY ScanFacts
<1>2. Half'
  BY <1>1 DEF Half
<1>3. \A g \in DOMAIN rows : GroupTidy(g)'
  BY <1>1, GroupTidyKept
<1> QED BY <1>1, <1>2, <1>3 DEF Kinds

LEMMA ScanReturnStep == ASSUME IInv, ScanReturn PROVE IInv'
<1>1. /\ EndScan /\ UNCHANGED <<data, rows>>
  BY DEF ScanReturn
<1>2. Scanning /\ UNCHANGED <<chain, sealed>>
  BY <1>1 DEF EndScan, groupVars
<1>3. PICK times \in 0 .. 2 : RunVacuum(times)
  <2>1. VacuumsAfter(operation) \subseteq 0 .. 2
    BY <1>2, ScanFacts DEF VacuumsAfter, Scans
  <2> QED BY <2>1 DEF ScanReturn
<1> QED BY <1>1, <1>2, <1>3, EndsUnchanged, EndScanStep

LEMMA ScanFailsStep == ASSUME IInv, ScanFails PROVE IInv'
<1>1. /\ EndScan /\ UNCHANGED <<data, rows>> /\ RunVacuum(0)
  BY DEF ScanFails
<1>2. Scanning /\ UNCHANGED <<chain, sealed>>
  BY <1>1 DEF EndScan, groupVars
<1>3. 0 \in 0 .. 2
  OBVIOUS
<1> QED BY <1>1, <1>2, <1>3, EndsUnchanged, EndScanStep

LEMMA DeleteFirstStep == ASSUME IInv, DeleteFirst PROVE IInv'
<1>1. /\ EndScan /\ ~it.is_empty /\ data' = Deleted /\ RunVacuum(1)
      /\ rows' = [rows EXCEPT ![group] = @ \ {Current.item}]
  BY DEF DeleteFirst
<1>2. Scanning /\ UNCHANGED <<chain, sealed>>
  BY <1>1 DEF EndScan, groupVars
<1>3. 1 \in 0 .. 2
  OBVIOUS
<1>4. data' \in [PG!Pages -> Page] /\ Half' /\ \A g \in DOMAIN rows : GroupTidy(g)'
  BY <1>1, <1>2, DeletedFacts
<1>5. DOMAIN rows' = DOMAIN rows /\ \A g \in DOMAIN rows : rows'[g] \subseteq Items
  <2>1. Kinds
    BY DEF IInv
  <2> QED BY <1>1, <2>1 DEF Kinds
<1> QED BY <1>1, <1>3, <1>4, <1>5, EndScanStep

(* vacuum on its pages, one id at a time.                                  *)
LEMMA RowFacts ==
    ASSUME NEW s \in IdList, NEW P, NEW low, Row(s, P, low)
    PROVE  \A i \in P : /\ i \in 1 .. Len(s) /\ s[i] \in ItemId
                        /\ s[i].offset \in Int /\ s[i].size \in Nat /\ s[i].size >= 1
                        /\ s[i].offset >= low /\ s[i].offset + i <= Capacity
                        /\ End(s, i) <= Capacity /\ End(s, i) \in Int
                        /\ End(s, i) = s[i].offset + s[i].size
<1> SUFFICES ASSUME NEW i \in P
             PROVE  /\ i \in 1 .. Len(s) /\ s[i] \in ItemId
                    /\ s[i].offset \in Int /\ s[i].size \in Nat /\ s[i].size >= 1
                    /\ s[i].offset >= low /\ s[i].offset + i <= Capacity
                    /\ End(s, i) <= Capacity /\ End(s, i) \in Int
                    /\ End(s, i) = s[i].offset + s[i].size
  OBVIOUS
<1>1. i \in 1 .. Len(s) /\ s[i].size >= 1 /\ s[i].offset >= low /\ s[i].offset + i <= Capacity
      /\ End(s, i) <= Capacity
  BY DEF Row, Placed
<1>2. s[i] \in ItemId
  BY <1>1, ElementOfSeq DEF IdList
<1> QED BY <1>1, <1>2 DEF ItemId, End

LEMMA RowPart ==
    ASSUME NEW s \in IdList, NEW P, NEW Q \in SUBSET P, NEW low \in Int, NEW low2 \in Int,
           low2 <= low, Row(s, P, low)
    PROVE  Row(s, Q, low2)
<1>1. SameSpace(s, s, Q)
  BY RowFacts DEF SameSpace
<1> QED BY <1>1, RowKept

LEMMA CountedOff ==
    ASSUME NEW d \in Page, d.item_amount # 0, NEW e, e = [d EXCEPT !.item_amount = @ - 1]
    PROVE  /\ e \in Page /\ e.item_amount = d.item_amount - 1
           /\ e.start = d.start /\ e.end = d.end /\ e.ids = d.ids
  BY DataAssumption DEF Page

(* Where a started vacuum has an item before it: the page is not sealed.   *)
LEMMA SearchingReads ==
    ASSUME NEW v \in VacuumLocals, NEW d \in Page, NEW b, NEW first,
           Searching(v, d, b, first), v.index # v.ids
    PROVE  /\ v.index \in Nat /\ v.ids \in Nat /\ v.index < v.ids
           /\ d.item_amount = v.ids /\ d.ids \in IdList
           /\ Row(d.ids, 1 .. v.ids, v.ids)
<1>1. v.index \in Nat /\ v.ids \in Nat
  BY DEF VacuumLocals
<1>2. v.index <= v.ids /\ v.ids = d.start /\ Tidy(d, b, first)
  BY DEF Searching
<1>3. ~b
  BY <1>1, <1>2 DEF Tidy
<1> QED BY <1>1, <1>2, <1>3 DEF Tidy, Page

(* The locals u of vacuum behind a step from v within the source page.     *)
IsAt(u, v, started, index, dest_id, dest_data) ==
    /\ u \in VacuumLocals /\ u.ids = v.ids
    /\ u.started = started /\ u.index = index
    /\ u.dest_id = dest_id /\ u.dest_data = dest_data

LEMMA SearchingStarts ==
    ASSUME NEW v \in VacuumLocals, NEW d \in Page, NEW b, NEW first,
           Searching(v, d, b, first), v.index # v.ids,
           2 * d.item_amount <= Capacity, d.ids[v.index + 1].deleted,
           NEW u, IsAt(u, v, TRUE, v.index + 1, v.index,
                       d.ids[v.index + 1].offset + d.ids[v.index + 1].size),
           NEW e, e = [d EXCEPT !.item_amount = @ - 1]
    PROVE  e \in Page /\ OnePage(u, e) /\ 2 * e.item_amount <= Capacity
<1> DEFINE m == v.index
           k == v.ids
           id == d.ids[m + 1]
<1>1. /\ m \in Nat /\ k \in Nat /\ m < k /\ d.item_amount = k /\ d.ids \in IdList
      /\ Row(d.ids, 1 .. k, k) /\ 2 * k <= Capacity /\ Capacity \in Nat
  BY SearchingReads, DataAssumption
<1>2. NoneDeletedIn(d, m)
  BY DEF Searching
<1>3. /\ e \in Page /\ e.item_amount = k - 1 /\ e.ids = d.ids
  BY <1>1, CountedOff
<1>4. \A i \in 1 .. k : /\ i \in 1 .. Len(d.ids)
                        /\ d.ids[i].offset \in Int /\ d.ids[i].size \in Nat
                        /\ d.ids[i].size >= 1 /\ d.ids[i].offset >= k
                        /\ d.ids[i].offset + i <= Capacity
                        /\ d.ids[i].offset + d.ids[i].size <= Capacity
  BY <1>1, RowFacts DEF End
<1>5. m + 1 \in 1 .. k /\ 1 \in 1 .. k
  BY <1>1
<1>6. /\ id.offset \in Int /\ id.size \in Nat /\ id.size >= 1 /\ id.offset >= k
      /\ id.offset + id.size <= Capacity
  BY <1>4, <1>5
<1> DEFINE end == id.offset + id.size
<1>7. u.started = TRUE /\ u.index = m + 1 /\ u.ids = k /\ u.dest_id = m /\ u.dest_data = end
  BY Zenon DEF IsAt
<1>8. m # 0 => m \in 1 .. k /\ end = d.ids[m].offset
  <2>1. m # 0 => m \in 1 .. k
    BY <1>1
  <2> QED BY <1>1, <1>5, <2>1 DEF Row, Packed, End
<1>9. m = 0 => d.ids[1].deleted
  OBVIOUS
<1>10. end = id.offset + id.size /\ id = d.ids[m + 1]
  OBVIOUS
<1> HIDE DEF m, k, id, end
<1>11. /\ end \in Int /\ end <= Capacity /\ k <= end /\ m <= end
       /\ m + end <= Capacity
  <2>1. /\ end \in Int /\ end <= Capacity /\ k <= end /\ m <= end
    BY <1>1, <1>6, <1>10
  <2>2. m + end <= Capacity
    <3>1. CASE m = 0
      BY <2>1, <3>1
    <3>2. CASE m # 0
      <4>1. d.ids[m].offset + m <= Capacity
        BY <1>4, <1>8, <3>2
      <4> QED BY <1>1, <1>8, <2>1, <3>2, <4>1
    <3> QED BY <3>1, <3>2
  <2> QED BY <2>1, <2>2
<1>12. \A i \in m + 1 + 1 .. k : End(d.ids, i) <= end
  <2> SUFFICES ASSUME NEW i \in m + 1 + 1 .. k PROVE d.ids[i].offset + d.ids[i].size <= end
    BY DEF End
  <2>1. i \in 1 .. k /\ m + 1 < i
    BY <1>1
  <2>2. d.ids[i].offset + d.ids[i].size <= id.offset
    BY <1>1, <1>5, <1>10, <2>1 DEF Row, Ordered, End
  <2> QED BY <1>4, <1>6, <1>10, <2>1, <2>2
<1>13. Row(d.ids, Around(m, m + 1, k), k)
  <2>1. Around(m, m + 1, k) \in SUBSET (1 .. k)
    BY <1>1 DEF Around
  <2>2. k \in Int /\ k <= k /\ d.ids \in IdList /\ Row(d.ids, 1 .. k, k)
    BY <1>1
  <2> QED BY <2>1, <2>2, RowPart
<1>14. Filling(u, e)
  <2>1. Len(e.ids) >= 1
    <3>1. Len(d.ids) \in Nat
      BY <1>1, LenProperties DEF IdList
    <3> QED BY <1>3, <1>4, <1>5, <3>1
  <2>2. NoneDeletedIn(e, m)
    BY <1>2, <1>3 DEF NoneDeletedIn
  <2>3. m = 0 => e.ids[1].deleted
    BY <1>3, <1>9
  <2>4. m # 0 => end = e.ids[m].offset
    BY <1>3, <1>8
  <2>5. /\ m + 1 <= k /\ 2 * k <= Capacity /\ end <= Capacity /\ m + end <= Capacity /\ m <= end
    BY <1>1, <1>11
  <2>6. u.started
    BY <1>7
  <2>7. /\ u.index <= u.ids /\ 2 * u.ids <= Capacity /\ u.dest_data <= Capacity
        /\ u.dest_id + u.dest_data <= Capacity /\ u.dest_id <= u.dest_data
    BY <1>7, <2>5
  <2>8. /\ NoneDeletedIn(e, u.dest_id)
        /\ u.dest_id = 0 => e.ids[1].deleted
        /\ u.dest_id # 0 => u.dest_data = e.ids[u.dest_id].offset
    BY <1>7, <2>2, <2>3, <2>4
  <2> QED BY <2>1, <2>6, <2>7, <2>8 DEF Filling
<1>15. OnePage(u, e)
  <2>1. e.item_amount = m + k - (m + 1) /\ m < m + 1
    BY <1>1, <1>3
  <2> QED BY <1>3, <1>7, <1>11, <1>12, <1>13, <1>14, <2>1 DEF OnePage
<1> QED BY <1>1, <1>3, <1>7, <1>15

LEMMA LocalsNat ==
    ASSUME NEW v \in VacuumLocals
    PROVE  v.index \in Nat /\ v.ids \in Nat /\ v.dest_id \in Nat /\ v.dest_data \in Nat
  BY DEF VacuumLocals

LEMMA SearchingSkips ==
    ASSUME NEW v \in VacuumLocals, NEW d, NEW b, NEW first, Searching(v, d, b, first),
           v.index # v.ids, ~d.ids[v.index + 1].deleted,
           NEW u, IsAt(u, v, FALSE, v.index + 1, v.dest_id, v.dest_data)
    PROVE  Searching(u, d, b, first)
<1> DEFINE m == v.index
           k == v.ids
<1>1. m \in Nat /\ k \in Nat /\ m <= k /\ m # k /\ NoneDeletedIn(d, m)
  BY LocalsNat DEF Searching
<1>2. ~u.started /\ u.index = m + 1 /\ u.ids = k /\ u.dest_id = v.dest_id
      /\ u.dest_data = v.dest_data
  BY DEF IsAt
<1>3. ~d.ids[m + 1].deleted
  OBVIOUS
<1> HIDE DEF m, k
<1>4. NoneDeletedIn(d, m + 1)
  <2>1. \A i \in 1 .. m + 1 : i \in 1 .. m \/ i = m + 1
    BY <1>1
  <2> QED BY <1>1, <1>3, <2>1 DEF NoneDeletedIn
<1>5. u.index <= u.ids
  BY <1>1, <1>2
<1> QED BY <1>2, <1>4, <1>5 DEF Searching, k

(* A deleted item is passed.                                               *)
LEMMA OnePageSkips ==
    ASSUME NEW v \in VacuumLocals, NEW d \in Page, OnePage(v, d), v.index # v.ids,
           NEW u, IsAt(u, v, TRUE, v.index + 1, v.dest_id, v.dest_data),
           NEW e, e = [d EXCEPT !.item_amount = @ - 1]
    PROVE  e \in Page /\ OnePage(u, e) /\ 2 * e.item_amount <= Capacity
<1> DEFINE n == v.dest_id
           m == v.index
           k == v.ids
           end == v.dest_data
<1>1. m \in Nat /\ k \in Nat /\ n \in Nat /\ end \in Nat
  BY LocalsNat
<1>2. /\ Filling(v, d) /\ n < m /\ k <= end /\ Row(d.ids, Around(n, m, k), k)
      /\ d.item_amount = n + k - m /\ \A i \in m + 1 .. k : End(d.ids, i) <= end
  BY Zenon DEF OnePage
<1>3. /\ m <= k /\ 2 * k <= Capacity /\ end <= Capacity
      /\ n + end <= Capacity /\ n <= end
  BY <1>2 DEF Filling
<1>4. /\ NoneDeletedIn(d, n)
      /\ n = 0 => d.ids[1].deleted
      /\ n # 0 => end = d.ids[n].offset
      /\ Len(d.ids) >= 1
  BY <1>2, Zenon DEF Filling
<1>5. u.started = TRUE /\ u.index = m + 1 /\ u.ids = k /\ u.dest_id = n /\ u.dest_data = end
  BY Zenon DEF IsAt
<1>6. m # k /\ Capacity \in Nat
  BY DataAssumption
<1> HIDE DEF n, m, k, end
<1>7. m + 1 <= k
  <2>1. m <= k /\ m # k
    BY <1>3, <1>6
  <2> QED BY <1>1, <2>1
<1>8. e \in Page /\ e.item_amount = n + k - (m + 1) /\ e.ids = d.ids
  <2>1. d.item_amount # 0
    BY <1>1, <1>2, <1>7
  <2>2. e \in Page /\ e.item_amount = d.item_amount - 1 /\ e.ids = d.ids
    BY <2>1, CountedOff
  <2> QED BY <1>1, <1>2, <2>2
<1>9. Row(d.ids, Around(n, m + 1, k), k)
  <2>1. Around(n, m + 1, k) \in SUBSET Around(n, m, k)
    BY <1>1 DEF Around
  <2>2. k \in Int /\ k <= k /\ d.ids \in IdList
    BY <1>1 DEF Page
  <2> QED BY <1>2, <2>1, <2>2, RowPart
<1>10. \A i \in m + 1 + 1 .. k : End(d.ids, i) <= end
  BY <1>1, <1>2
<1>11. Filling(u, e)
  <2>1. u.started
    BY <1>5
  <2>2. /\ u.index <= u.ids /\ 2 * u.ids <= Capacity /\ u.dest_data <= Capacity
        /\ u.dest_id + u.dest_data <= Capacity /\ u.dest_id <= u.dest_data
    BY <1>3, <1>5, <1>7
  <2>3. /\ NoneDeletedIn(e, u.dest_id)
        /\ u.dest_id = 0 => e.ids[1].deleted
        /\ u.dest_id # 0 => u.dest_data = e.ids[u.dest_id].offset
        /\ Len(e.ids) >= 1
    BY <1>4, <1>5, <1>8 DEF NoneDeletedIn
  <2> QED BY <2>1, <2>2, <2>3 DEF Filling
<1>12. 2 * e.item_amount <= Capacity
  BY <1>1, <1>2, <1>3, <1>6, <1>8
<1>13. OnePage(u, e)
  <2>1. n < m + 1
    BY <1>1, <1>2
  <2> QED BY <1>2, <1>5, <1>8, <1>9, <1>10, <1>11, <2>1 DEF OnePage
<1> QED BY <1>8, <1>12, <1>13

LEMMA TwoPagesSkips ==
    ASSUME NEW v \in VacuumLocals, NEW from \in Page, NEW to, NEW b, TwoPages(v, from, b, to),
           v.index # v.ids,
           NEW u, IsAt(u, v, TRUE, v.index + 1, v.dest_id, v.dest_data),
           NEW e, e = [from EXCEPT !.item_amount = @ - 1], NEW c
    PROVE  e \in Page /\ TwoPages(u, e, c, to) /\ 2 * e.item_amount <= Capacity
<1> DEFINE n == v.dest_id
           m == v.index
           k == v.ids
           end == v.dest_data
<1>1. m \in Nat /\ k \in Nat /\ n \in Nat /\ end \in Nat
  BY LocalsNat
<1>2. /\ Filling(v, to) /\ Row(from.ids, m + 1 .. k, k) /\ from.item_amount = k - m
      /\ Row(to.ids, 1 .. n, n) /\ to.item_amount = n
  BY Zenon DEF TwoPages
<1>3. m <= k /\ 2 * k <= Capacity
  BY <1>2 DEF Filling
<1>4. u.started = TRUE /\ u.index = m + 1 /\ u.ids = k /\ u.dest_id = n /\ u.dest_data = end
  BY Zenon DEF IsAt
<1>5. m # k /\ Capacity \in Nat
  BY DataAssumption
<1>6. Filling(u, to)
  <2>1. u.started
    BY <1>4
  <2>2. u.index <= u.ids
    BY <1>1, <1>3, <1>4, <1>5
  <2> QED BY <1>2, <1>4, <2>1, <2>2 DEF Filling
<1> HIDE DEF n, m, k, end
<1>7. e \in Page /\ e.item_amount = k - (m + 1) /\ e.ids = from.ids
  <2>1. from.item_amount # 0
    BY <1>1, <1>2, <1>5
  <2>2. e \in Page /\ e.item_amount = from.item_amount - 1 /\ e.ids = from.ids
    BY <2>1, CountedOff
  <2> QED BY <1>1, <1>2, <2>2
<1>8. Row(from.ids, m + 1 + 1 .. k, k)
  <2>1. m + 1 + 1 .. k \in SUBSET (m + 1 .. k)
    BY <1>1
  <2>2. k \in Int /\ k <= k /\ from.ids \in IdList
    BY <1>1 DEF Page
  <2> QED BY <1>2, <2>1, <2>2, RowPart
<1>9. 2 * e.item_amount <= Capacity
  BY <1>1, <1>2, <1>3, <1>5, <1>7
<1>10. m + 1 # 0
  BY <1>1
<1> QED BY <1>2, <1>4, <1>6, <1>7, <1>8, <1>9, <1>10 DEF TwoPages

(* The item at place m + 1 moves behind the n before it.                   *)
Moves(s, t, n, m, k, end, id) ==
    \E u : /\ Movable(s, n, m, k, end, id) /\ Replaced(u, s, m + 1, id)
           /\ IsWritten(t, u, n + 1, id, id.size)
HasMoved(s, t, n, m, k, id) ==
    /\ Row(t, Around(n + 1, m + 1, k), k)
    /\ SameIds(s, t, Around(n, m, k) \ {m + 1})
    /\ n + 1 \in 1 .. Len(t) /\ t[n + 1] = id
    /\ k <= id.offset /\ id.offset + n + 1 <= Capacity
    /\ id.offset \in Nat
    /\ \A i \in m + 1 + 1 .. k : End(t, i) <= id.offset

LEMMA RowHasMoved ==
    ASSUME NEW s \in IdList, NEW n \in Nat, NEW m \in Nat, NEW k \in Nat,
           NEW end \in Int, NEW id \in ItemId, NEW t, Moves(s, t, n, m, k, end, id)
    PROVE  HasMoved(s, t, n, m, k, id)
<1>1. PICK u : /\ Movable(s, n, m, k, end, id) /\ Replaced(u, s, m + 1, id)
               /\ IsWritten(t, u, n + 1, id, id.size)
  BY DEF Moves
<1> SUFFICES /\ Row(t, Around(n + 1, m + 1, k), k)
             /\ SameIds(s, t, Around(n, m, k) \ {m + 1})
             /\ n + 1 \in 1 .. Len(t) /\ t[n + 1] = id
             /\ k <= id.offset /\ id.offset + n + 1 <= Capacity
             /\ id.offset \in Nat
             /\ \A i \in m + 1 + 1 .. k : End(t, i) <= id.offset
  BY DEF HasMoved
<1> QED BY <1>1, RowMoved

IsMovedWithin(u, e, v, d, n, m, k, end, id) ==
    /\ n \in Nat /\ m \in Nat /\ k \in Nat /\ end \in Int /\ id \in ItemId
    /\ Movable(d.ids, n, m, k, end, id) /\ 2 * k <= Capacity
    /\ d.item_amount = n + k - m /\ NoneDeletedIn(d, n) /\ ~id.deleted
    /\ \E x, t : /\ Replaced(x, d.ids, m + 1, id) /\ IsWritten(t, x, n + 1, id, id.size)
                 /\ e = [d EXCEPT !.ids = t]
    /\ v.ids = k /\ IsAt(u, v, TRUE, m + 1, n + 1, id.offset)

LEMMA MovedWithin ==
    ASSUME NEW d \in Page, NEW n, NEW m, NEW k, NEW end, NEW id, NEW e, NEW v, NEW u,
           IsMovedWithin(u, e, v, d, n, m, k, end, id)
    PROVE  e \in Page /\ OnePage(u, e) /\ e.item_amount = d.item_amount
           /\ 2 * e.item_amount <= Capacity
<1>1. PICK x, t : /\ Replaced(x, d.ids, m + 1, id) /\ IsWritten(t, x, n + 1, id, id.size)
                  /\ e = [d EXCEPT !.ids = t]
  BY Zenon DEF IsMovedWithin
<1>2. n \in Nat /\ m \in Nat /\ k \in Nat /\ end \in Int /\ id \in ItemId
  BY Zenon DEF IsMovedWithin
<1>3. /\ Movable(d.ids, n, m, k, end, id) /\ 2 * k <= Capacity
      /\ d.item_amount = n + k - m /\ NoneDeletedIn(d, n) /\ ~id.deleted
      /\ v.ids = k /\ IsAt(u, v, TRUE, m + 1, n + 1, id.offset)
  BY Zenon DEF IsMovedWithin
<1>4. d.ids \in IdList /\ n < m /\ m < k /\ Row(d.ids, Around(n, m, k), k) /\ Capacity \in Nat
  BY <1>3, DataAssumption DEF Page, Movable
<1>5. /\ Row(t, Around(n + 1, m + 1, k), k)
      /\ SameIds(d.ids, t, Around(n, m, k) \ {m + 1})
      /\ n + 1 \in 1 .. Len(t) /\ t[n + 1] = id
      /\ k <= id.offset /\ id.offset + n + 1 <= Capacity
      /\ id.offset \in Nat
      /\ \A i \in m + 1 + 1 .. k : End(t, i) <= id.offset
  <2>1. d.ids \in IdList
    BY <1>4
  <2>2. Moves(d.ids, t, n, m, k, end, id)
    BY <1>1, <1>3, Zenon DEF Moves
  <2>3. HasMoved(d.ids, t, n, m, k, id)
    BY <1>2, <2>1, <2>2, RowHasMoved
  <2> QED BY <2>3 DEF HasMoved
<1>6. t \in IdList /\ Len(t) \in Nat
  BY <1>1, LenProperties DEF IsWritten, IdList
<1>7. e \in Page /\ e.item_amount = n + k - m /\ e.ids = t
  BY <1>6, <1>1, <1>3 DEF Page
<1>8. u.started = TRUE /\ u.index = m + 1 /\ u.ids = k /\ u.dest_id = n + 1
      /\ u.dest_data = id.offset
  BY <1>3 DEF IsAt
<1>9. NoneDeletedIn(e, n + 1)
  <2> SUFFICES ASSUME NEW i \in 1 .. n + 1 PROVE ~t[i].deleted
    BY <1>7, <1>2 DEF NoneDeletedIn
  <2>1. CASE i = n + 1
    BY <1>5, <1>3, <2>1
  <2>2. CASE i # n + 1
    <3>1. i \in 1 .. n /\ i \in Around(n, m, k) \ {m + 1}
      BY <1>4, <1>2, <2>2 DEF Around
    <3> QED BY <1>5, <1>3, <3>1 DEF SameIds, NoneDeletedIn
  <2> QED BY <2>1, <2>2
<1>10. Filling(u, e)
  <2>1. u.started
    BY <1>8
  <2>2. /\ u.index <= u.ids /\ 2 * u.ids <= Capacity /\ u.dest_data <= Capacity
        /\ u.dest_id + u.dest_data <= Capacity /\ u.dest_id <= u.dest_data
    BY <1>4, <1>5, <1>8, <1>2, <1>3
  <2>3. u.dest_id # 0 /\ u.dest_data = e.ids[u.dest_id].offset
    BY <1>5, <1>7, <1>8, <1>2
  <2>4. NoneDeletedIn(e, u.dest_id) /\ Len(e.ids) >= 1
    BY <1>5, <1>6, <1>7, <1>8, <1>9, <1>2
  <2> QED BY <2>1, <2>2, <2>3, <2>4 DEF Filling
<1>11. 2 * e.item_amount <= Capacity
  BY <1>4, <1>7, <1>2, <1>3
<1>12. n + 1 < m + 1 /\ e.item_amount = n + 1 + k - (m + 1)
  BY <1>4, <1>7, <1>2, <1>3
<1> QED BY <1>3, <1>5, <1>7, <1>8, <1>10, <1>11, <1>12 DEF OnePage

(* The item at place m + 1 moves to another page, behind its n.            *)
MovableOver(from, to, n, m, k, end, id) ==
    /\ m < k /\ Row(from.ids, m + 1 .. k, k) /\ 2 * k <= Capacity /\ from.item_amount = k - m
    /\ Row(to.ids, 1 .. n, n) /\ to.item_amount = n /\ NoneDeletedIn(to, n)
    /\ n # 0 => end = to.ids[n].offset
    /\ end + n <= Capacity /\ end <= Capacity
    /\ id.size = from.ids[m + 1].size /\ id.offset = end - id.size /\ id.offset >= n + 1
    /\ ~id.deleted

IsMovedOver(u, x, e, v, from, to, n, m, k, end, id) ==
    /\ n \in Nat /\ m \in Nat /\ k \in Nat /\ end \in Int /\ id \in ItemId
    /\ MovableOver(from, to, n, m, k, end, id)
    /\ \E w : /\ Replaced(w, from.ids, m + 1, id)
              /\ x = [from EXCEPT !.ids = w, !.item_amount = @ - 1]
    /\ \E t : /\ IsWritten(t, to.ids, n + 1, id, id.size)
              /\ e = [to EXCEPT !.ids = t, !.item_amount = @ + 1]
    /\ v.ids = k /\ IsAt(u, v, TRUE, m + 1, n + 1, id.offset)

LEMMA MovedOver ==
    ASSUME NEW from \in Page, NEW to \in Page, NEW n, NEW m, NEW k, NEW end, NEW id,
           NEW x, NEW e, NEW v, NEW u, IsMovedOver(u, x, e, v, from, to, n, m, k, end, id), NEW b
    PROVE  /\ x \in Page /\ e \in Page /\ TwoPages(u, x, b, e)
           /\ 2 * e.item_amount <= Capacity /\ 2 * x.item_amount <= Capacity
<1>1. PICK w : /\ Replaced(w, from.ids, m + 1, id)
               /\ x = [from EXCEPT !.ids = w, !.item_amount = @ - 1]
  BY Zenon DEF IsMovedOver
<1>2. PICK t : /\ IsWritten(t, to.ids, n + 1, id, id.size)
               /\ e = [to EXCEPT !.ids = t, !.item_amount = @ + 1]
  BY Zenon DEF IsMovedOver
<1>3. n \in Nat /\ m \in Nat /\ k \in Nat /\ end \in Int /\ id \in ItemId
  BY Zenon DEF IsMovedOver
<1>4. v.ids = k /\ IsAt(u, v, TRUE, m + 1, n + 1, id.offset)
  BY Zenon DEF IsMovedOver
<1>5. MovableOver(from, to, n, m, k, end, id)
  BY Zenon DEF IsMovedOver
<1>6. /\ m < k /\ Row(from.ids, m + 1 .. k, k) /\ 2 * k <= Capacity /\ from.item_amount = k - m
      /\ Row(to.ids, 1 .. n, n) /\ to.item_amount = n /\ NoneDeletedIn(to, n)
      /\ id.size = from.ids[m + 1].size /\ ~id.deleted
  BY <1>5, Zenon DEF MovableOver
<1>7. /\ n # 0 => end = to.ids[n].offset
      /\ end + n <= Capacity /\ end <= Capacity
      /\ id.offset = end - id.size /\ id.offset >= n + 1
  BY <1>5, Zenon DEF MovableOver
<1>8. from.ids \in IdList /\ to.ids \in IdList /\ Capacity \in Nat
  BY DataAssumption DEF Page
<1>9. /\ m + 1 \in 1 .. Len(from.ids) /\ id.size \in Nat /\ id.size >= 1 /\ id.offset \in Int
  <2>1. m + 1 \in m + 1 .. k
    BY <1>6, <1>3
  <2>2. /\ m + 1 \in 1 .. Len(from.ids) /\ id.size >= 1
    BY <1>8, <1>6, <2>1, RowFacts
  <2> QED BY <1>3, <2>2 DEF ItemId
<1>10. w \in IdList /\ Row(w, m + 1 + 1 .. k, k)
  <2>1. m + 1 + 1 .. k \in SUBSET (m + 1 .. k) /\ w \in IdList /\ k \in Int /\ k <= k
    BY <1>1, <1>3 DEF Replaced
  <2>2. SameSpace(from.ids, w, m + 1 + 1 .. k)
    <3> SUFFICES ASSUME NEW i \in m + 1 + 1 .. k
                 PROVE  i \in 1 .. Len(w) /\ w[i] = from.ids[i]
      BY DEF SameSpace
    <3>1. i \in m + 1 .. k /\ i # m + 1
      BY <1>3
    <3>2. i \in 1 .. Len(from.ids)
      BY <1>8, <1>6, <3>1, RowFacts
    <3> QED BY <1>1, <3>1, <3>2 DEF Replaced
  <2>3. PICK P, Q : P = m + 1 .. k /\ Q = m + 1 + 1 .. k
    OBVIOUS
  <2>4. Q \in SUBSET P /\ Row(from.ids, P, k) /\ SameSpace(from.ids, w, Q)
    BY <1>6, <2>1, <2>2, <2>3
  <2>5. Row(w, Q, k)
    BY <1>8, <2>1, <2>4, RowKept
  <2> QED BY <2>1, <2>3, <2>5
<1>11. /\ x \in Page /\ x.item_amount = k - (m + 1) /\ x.ids = w
  <2>1. k - m - 1 \in 0 .. Capacity /\ k - m - 1 = k - (m + 1)
    BY <1>8, <1>6, <1>3
  <2> QED BY <1>10, <1>6, <1>1, <2>1 DEF Page
<1>12. n + 1 <= Capacity
  BY <1>8, <1>9, <1>7, <1>3
<1>13. Row(t, 1 .. n + 1, n + 1) /\ SameIds(to.ids, t, 1 .. n)
  BY <1>8, <1>9, <1>12, <1>6, <1>7, <1>2, <1>3, RowExtended
<1>14. t \in IdList /\ t[n + 1] = id /\ n + 1 \in 1 .. Len(t) /\ Len(t) \in Nat
  BY <1>2, LenProperties DEF IsWritten, IdList
<1>15. e \in Page /\ e.item_amount = n + 1 /\ e.ids = t
  <2>1. n + 1 \in 0 .. Capacity /\ to.item_amount + 1 = n + 1
    BY <1>8, <1>12, <1>6, <1>3
  <2> QED BY <1>14, <1>2, <2>1 DEF Page
<1>16. u.started = TRUE /\ u.index = m + 1 /\ u.ids = k /\ u.dest_id = n + 1
       /\ u.dest_data = id.offset
  BY <1>4 DEF IsAt
<1>17. NoneDeletedIn(e, n + 1)
  <2> SUFFICES ASSUME NEW i \in 1 .. n + 1 PROVE ~t[i].deleted
    BY <1>15, <1>3 DEF NoneDeletedIn
  <2>1. CASE i = n + 1
    BY <1>14, <1>6, <2>1
  <2>2. CASE i # n + 1
    <3>1. i \in 1 .. n
      BY <1>3, <2>2
    <3> QED BY <1>13, <1>6, <3>1 DEF SameIds, NoneDeletedIn
  <2> QED BY <2>1, <2>2
<1>18. /\ m + 1 <= k /\ id.offset <= Capacity /\ n + 1 + id.offset <= Capacity
       /\ n + 1 <= id.offset
  <2>1. PICK o \in Int, z \in Nat : id.offset = o /\ id.size = z
    BY <1>9
  <2>2. o = end - z /\ z >= 1 /\ o >= n + 1 /\ end + n <= Capacity /\ end <= Capacity
    BY <1>9, <1>7, <1>3, <2>1
  <2>3. o <= Capacity /\ n + 1 + o <= Capacity /\ n + 1 <= o
    BY <1>8, <1>3, <2>2
  <2>4. m + 1 <= k
    BY <1>6, <1>3
  <2> QED BY <2>1, <2>3, <2>4
<1>19. Filling(u, e)
  <2>1. u.started
    BY <1>16
  <2>2. /\ u.index <= u.ids /\ 2 * u.ids <= Capacity /\ u.dest_data <= Capacity
        /\ u.dest_id + u.dest_data <= Capacity /\ u.dest_id <= u.dest_data
    BY <1>16, <1>18, <1>6, <1>3
  <2>3. u.dest_id # 0 /\ u.dest_data = e.ids[u.dest_id].offset
    BY <1>14, <1>15, <1>16, <1>3
  <2>4. NoneDeletedIn(e, u.dest_id) /\ Len(e.ids) >= 1
    BY <1>14, <1>15, <1>16, <1>17, <1>3
  <2> QED BY <2>1, <2>2, <2>3, <2>4 DEF Filling
<1>20. 2 * e.item_amount <= Capacity /\ 2 * x.item_amount <= Capacity
  <2>1. PICK o \in Int : id.offset = o
    BY <1>9
  <2>2. 2 * (n + 1) <= Capacity /\ 2 * (k - (m + 1)) <= Capacity
    BY <1>8, <1>18, <1>6, <1>3, <2>1
  <2> QED BY <1>11, <1>15, <2>2
<1>21. m + 1 # 0
  BY <1>3
<1> QED BY <1>10, <1>11, <1>13, <1>15, <1>16, <1>19, <1>20, <1>21 DEF TwoPages

(* A page vacuum fills behind its own reading always has room.             *)
LEMMA OnePageHasRoom ==
    ASSUME NEW v \in VacuumLocals, NEW d \in Page, OnePage(v, d), v.index # v.ids
    PROVE  EntrySize(d.ids[v.index + 1].size) <= v.dest_data - v.dest_id
<1> DEFINE n == v.dest_id
           m == v.index
           k == v.ids
           end == v.dest_data
<1>1. m \in Nat /\ k \in Nat /\ n \in Nat /\ end \in Nat
  BY LocalsNat
<1>2. /\ n < m /\ k <= end /\ Row(d.ids, Around(n, m, k), k) /\ m <= k
      /\ \A i \in m + 1 .. k : End(d.ids, i) <= end
  BY Zenon DEF OnePage, Filling
<1>3. m # k /\ d.ids \in IdList
  BY DEF Page
<1> HIDE DEF n, m, k, end
<1>4. m + 1 \in m + 1 .. k /\ m + 1 \in Around(n, m, k)
  BY <1>1, <1>2, <1>3 DEF Around
<1>5. PICK o \in Int, z \in Nat :
         d.ids[m + 1].offset = o /\ d.ids[m + 1].size = z /\ o >= k /\ End(d.ids, m + 1) = o + z
  BY <1>2, <1>3, <1>4, RowFacts
<1>6. o + z <= end
  BY <1>2, <1>4, <1>5
<1>7. z + 1 <= end - n
  BY <1>1, <1>2, <1>3, <1>5, <1>6
<1> QED BY <1>5, <1>7 DEF EntrySize, m, n, end

(* What closing the destination does to its page.                          *)
IsClosed(e, d, n, end) ==
    /\ e \in Page /\ e.start = n /\ e.end = end /\ e.item_amount = d.item_amount
    /\ Len(d.ids) >= 1 => Len(e.ids) >= 1
    /\ \A i \in 1 .. Len(d.ids) :
          i = 1 \/ i <= n \/ i <= d.item_amount => i \in 1 .. Len(e.ids) /\ e.ids[i] = d.ids[i]

ClosedPage(d, n, end) ==
    [d EXCEPT !.start = n, !.end = end, !.ids = FirstN(@, Max({1, n, d.item_amount}))]

LEMMA ClosedFacts ==
    ASSUME NEW d \in Page, NEW n \in 0 .. Capacity, NEW end \in 0 .. Capacity
    PROVE  IsClosed(ClosedPage(d, n, end), d, n, end)
<1> DEFINE e == ClosedPage(d, n, end)
<1>1. /\ Capacity \in Nat /\ HeaderSize \in Nat /\ n \in Nat /\ end \in Nat
      /\ d.item_amount \in Nat /\ d.ids \in IdList
  BY DataAssumption DEF Page
<1>2. PICK x \in Nat : /\ x = Max({1, n, d.item_amount})
                       /\ x >= 1 /\ x >= n /\ x >= d.item_amount
  <2>1. 1 \in Nat
    OBVIOUS
  <2>2. Max({1, n, d.item_amount}) \in {1, n, d.item_amount}
        /\ Max({1, n, d.item_amount}) >= 1 /\ Max({1, n, d.item_amount}) >= n
        /\ Max({1, n, d.item_amount}) >= d.item_amount
    BY <1>1, <2>1, MaxOfThree
  <2>3. Max({1, n, d.item_amount}) \in Nat
    BY <1>1, <2>2
  <2> QED BY <2>2, <2>3
<1> DEFINE w == FirstN(d.ids, x)
<1>3. e = [d EXCEPT !.start = n, !.end = end, !.ids = w]
  BY <1>2 DEF ClosedPage
<1>4. /\ w \in IdList /\ Len(w) = (IF x <= Len(d.ids) THEN x ELSE Len(d.ids))
      /\ \A i \in 1 .. Len(w) : w[i] = d.ids[i]
  BY <1>1, FirstNFacts
<1> HIDE DEF w, e
<1>5. /\ e \in Page /\ e.start = n /\ e.end = end /\ e.item_amount = d.item_amount /\ e.ids = w
  <2>1. end \in -HeaderSize .. Capacity
    BY <1>1
  <2> QED BY <1>3, <1>4, <2>1 DEF Page
<1>6. Len(d.ids) \in Nat
  BY <1>1, LenProperties DEF IdList
<1>7. Len(d.ids) >= 1 => Len(w) >= 1
  BY <1>2, <1>4, <1>6
<1>8. ASSUME NEW i \in 1 .. Len(d.ids), i = 1 \/ i <= n \/ i <= d.item_amount
      PROVE  i \in 1 .. Len(w) /\ w[i] = d.ids[i]
  <2>1. i <= x
    BY <1>1, <1>2, <1>8
  <2>2. i \in 1 .. Len(w)
    BY <1>2, <1>4, <1>6, <2>1
  <2> QED BY <1>4, <2>2
<1> QED BY <1>5, <1>7, <1>8 DEF IsClosed, e

(* A destination that was filled is in order, and has no deleted item, ... *)
Filled(v, d) ==
    /\ Filling(v, d) /\ Row(d.ids, 1 .. v.dest_id, v.dest_id) /\ d.item_amount = v.dest_id

LEMMA ClosedFilled ==
    ASSUME NEW v \in VacuumLocals, NEW d \in Page, Filled(v, d),
           NEW e, IsClosed(e, d, v.dest_id, v.dest_data), NEW first
    PROVE  Tidy(e, FALSE, first) /\ NoneDeletedIn(e, e.item_amount)
<1> DEFINE n == v.dest_id
           end == v.dest_data
<1>1. n \in Nat /\ end \in Nat /\ d.ids \in IdList
  BY LocalsNat DEF Page
<1>2. /\ Row(d.ids, 1 .. n, n) /\ d.item_amount = n
      /\ Len(d.ids) >= 1 /\ NoneDeletedIn(d, n)
      /\ n = 0 => d.ids[1].deleted
      /\ n # 0 => end = d.ids[n].offset
  BY Zenon DEF Filled, Filling
<1>3. /\ e \in Page /\ e.start = n /\ e.end = end /\ e.item_amount = n
      /\ Len(e.ids) >= 1
      /\ \A i \in 1 .. Len(d.ids) :
            i = 1 \/ i <= n => i \in 1 .. Len(e.ids) /\ e.ids[i] = d.ids[i]
  BY <1>2 DEF IsClosed
<1> HIDE DEF n, end
<1>4. \A i \in 1 .. n : i \in 1 .. Len(d.ids) /\ i <= n
  BY <1>1, <1>2, RowFacts
<1>5. \A i \in 1 .. n : i \in 1 .. Len(e.ids) /\ e.ids[i] = d.ids[i]
  BY <1>3, <1>4
<1>6. Row(e.ids, 1 .. n, n)
  <2>1. SameSpace(d.ids, e.ids, 1 .. n)
    BY <1>5 DEF SameSpace
  <2>2. n \in Int /\ n <= n /\ e.ids \in IdList
    BY <1>1, <1>3 DEF Page
  <2> QED BY <1>1, <1>2, <2>1, <2>2, RowKept
<1>7. NoneDeletedIn(e, n)
  BY <1>2, <1>5 DEF NoneDeletedIn
<1>8. n # 0 => end = e.ids[n].offset
  <2>1. n # 0 => n \in 1 .. n
    BY <1>1
  <2> QED BY <1>2, <1>5, <2>1
<1>9. n = 0 => e.ids[1].deleted
  <2>1. Len(d.ids) \in Nat
    BY <1>1, LenProperties DEF IdList
  <2>2. 1 \in 1 .. Len(d.ids)
    BY <1>2, <2>1
  <2>3. e.ids[1] = d.ids[1]
    BY <1>3, <2>2
  <2> QED BY <1>2, <2>3
<1> QED BY <1>3, <1>6, <1>7, <1>8, <1>9 DEF Tidy

(* ... and one that vacuum went over without finding anything to do is     *)
(* sealed when it has an item.                                             *)
LEMMA ClosedSearched ==
    ASSUME NEW v \in VacuumLocals, NEW d \in Page, NEW b, NEW first,
           Searching(v, d, b, first), v.index = v.ids,
           NEW e, IsClosed(e, d, v.dest_id, v.dest_data)
    PROVE  /\ Tidy(e, d.item_amount # 0, first)
           /\ Reclaimed(e, d.item_amount # 0) /\ Reclaimed(e, b)
<1> DEFINE n == d.item_amount
<1>1. d.ids \in IdList /\ n \in Nat
  BY DataAssumption DEF Page
<1>2. /\ Tidy(d, b, first) /\ NoneDeletedIn(d, v.index) /\ v.dest_id = 0 /\ v.ids = d.start
  BY DEF Searching
<1>3. /\ Row(d.ids, 1 .. n, n)
      /\ ~b => d.start = n
      /\ ~first => /\ Len(d.ids) >= 1
                   /\ n = 0 => d.ids[1].deleted
  BY <1>2 DEF Tidy
<1>4. /\ e \in Page /\ e.start = 0 /\ e.item_amount = n
      /\ Len(d.ids) >= 1 => Len(e.ids) >= 1
      /\ \A i \in 1 .. Len(d.ids) :
            i = 1 \/ i <= n => i \in 1 .. Len(e.ids) /\ e.ids[i] = d.ids[i]
  BY <1>2 DEF IsClosed
<1>5. ~b => NoneDeletedIn(d, n)
  BY <1>2, <1>3
<1> HIDE DEF n
<1>6. \A i \in 1 .. n : i \in 1 .. Len(d.ids) /\ i <= n
  BY <1>1, <1>3, RowFacts
<1>7. \A i \in 1 .. n : i \in 1 .. Len(e.ids) /\ e.ids[i] = d.ids[i]
  BY <1>4, <1>6
<1>8. Row(e.ids, 1 .. n, n)
  <2>1. SameSpace(d.ids, e.ids, 1 .. n)
    BY <1>7 DEF SameSpace
  <2>2. n \in Int /\ n <= n /\ e.ids \in IdList
    BY <1>1, <1>4 DEF Page
  <2> QED BY <1>1, <1>3, <2>1, <2>2, RowKept
<1>9. ~b => NoneDeletedIn(e, n)
  BY <1>5, <1>7 DEF NoneDeletedIn
<1>10. ~first => /\ Len(e.ids) >= 1
                 /\ n = 0 => e.ids[1].deleted
  <2> SUFFICES ASSUME ~first PROVE Len(e.ids) >= 1 /\ (n = 0 => e.ids[1].deleted)
    OBVIOUS
  <2>1. Len(d.ids) \in Nat
    BY <1>1, LenProperties DEF IdList
  <2>2. 1 \in 1 .. Len(d.ids)
    BY <1>3, <2>1
  <2>3. e.ids[1] = d.ids[1]
    BY <1>4, <2>2
  <2> QED BY <1>3, <1>4, <2>3
<1>11. n = 0 => NoneDeletedIn(e, n)
  BY DEF NoneDeletedIn
<1>12. Tidy(e, n # 0, first)
  BY <1>4, <1>8, <1>10 DEF Tidy
<1>13. Reclaimed(e, n # 0) /\ Reclaimed(e, b)
  BY <1>4, <1>9, <1>11 DEF Reclaimed
<1> QED BY <1>12, <1>13 DEF n
-----------------------------------------------------------------------------
(* The source page is read to its end.                                     *)
LEMMA OnePageDone ==
    ASSUME NEW v \in VacuumLocals, NEW d \in Page, OnePage(v, d), v.index = v.ids
    PROVE  Filled(v, d)
<1> DEFINE n == v.dest_id
           k == v.ids
<1>1. k \in Nat /\ n \in Nat /\ d.ids \in IdList
  BY LocalsNat DEF Page
<1>2. /\ Filling(v, d) /\ n < k /\ Row(d.ids, Around(n, k, k), k) /\ d.item_amount = n + k - k
  BY DEF OnePage
<1> HIDE DEF n, k
<1>3. Row(d.ids, 1 .. n, n)
  <2>1. 1 .. n \in SUBSET Around(n, k, k)
    BY DEF Around
  <2>2. n \in Int /\ k \in Int /\ n <= k
    BY <1>1, <1>2
  <2> QED BY <1>1, <1>2, <2>1, <2>2, RowPart
<1>4. d.item_amount = n
  BY <1>1, <1>2
<1> QED BY <1>2, <1>3, <1>4 DEF Filled, n

LEMMA TwoPagesDone ==
    ASSUME NEW v \in VacuumLocals, NEW from, NEW b, NEW to, TwoPages(v, from, b, to)
    PROVE  Filled(v, to) /\ (v.index = v.ids => from.item_amount = 0)
<1>1. /\ Filling(v, to) /\ Row(to.ids, 1 .. v.dest_id, v.dest_id)
      /\ to.item_amount = v.dest_id /\ from.item_amount = v.ids - v.index
  BY Zenon DEF TwoPages
<1>2. v.index = v.ids => from.item_amount = 0
  BY <1>1, LocalsNat
<1> QED BY <1>1, <1>2 DEF Filled

(* vacuum goes on with the next page.                                      *)
LEMMA TwoPagesBegin ==
    ASSUME NEW v, NEW to, Filled(v, to), NEW from \in Page, NEW b, ~b,
           Tidy(from, b, FALSE), 2 * from.item_amount <= Capacity,
           NEW u \in VacuumLocals, u.started, u.index = 0, u.ids = from.start,
           u.dest_id = v.dest_id, u.dest_data = v.dest_data
    PROVE  TwoPages(u, from, b, to)
<1> DEFINE k == from.item_amount
<1>1. k \in Nat /\ from.ids \in IdList /\ Capacity \in Nat
  BY DataAssumption DEF Page
<1>2. Row(from.ids, 1 .. k, k) /\ u.ids = k
  BY DEF Tidy
<1>3. /\ Filling(v, to) /\ Row(to.ids, 1 .. v.dest_id, v.dest_id) /\ to.item_amount = v.dest_id
  BY Zenon DEF Filled
<1>4. Filling(u, to)
  <2>1. u.index <= u.ids /\ 2 * u.ids <= Capacity
    BY <1>1, <1>2
  <2> QED BY <1>3, <2>1 DEF Filling
<1>5. k = u.ids - u.index /\ Row(from.ids, u.index + 1 .. u.ids, u.ids)
  <2>1. u.index + 1 = 1 /\ u.ids - u.index = k
    BY <1>1, <1>2
  <2> QED BY <1>2, <2>1
<1>6. Tidy(from, b, FALSE) /\ u.ids = from.start
  OBVIOUS
<1> QED BY <1>3, <1>4, <1>5, <1>6 DEF TwoPages

(* Vacuum leaves a page without deleted items alone, with its first one.   *)
LEMMA SearchingAgain ==
    ASSUME NEW v \in VacuumLocals, NEW from, NEW b, NEW to, TwoPages(v, from, b, to),
           v.index = 0, v.index # v.ids, ~from.ids[1].deleted,
           NEW u, IsAt(u, v, FALSE, 1, 0, v.dest_data), NEW first, ~first
    PROVE  Searching(u, from, b, first)
<1>1. /\ Tidy(from, b, FALSE) /\ v.ids = from.start /\ v.dest_data <= Capacity
  BY DEF TwoPages, Filling
<1>2. Tidy(from, b, first)
  BY <1>1 DEF Tidy
<1>3. ~u.started /\ u.index = 1 /\ u.ids = v.ids /\ u.dest_id = 0 /\ u.dest_data = v.dest_data
  BY DEF IsAt
<1>4. 1 <= v.ids
  BY LocalsNat
<1>5. NoneDeletedIn(from, 1)
  BY DEF NoneDeletedIn
<1> QED BY <1>1, <1>2, <1>3, <1>4, <1>5 DEF Searching

(* What a running vacuum knows.                                            *)
LEMMA VacuumFacts ==
    ASSUME IInv, Vacuuming
    PROVE  /\ PGP!Inv /\ Kinds /\ Phases /\ Half /\ ~harmed /\ ~damaged
           /\ operation = "vacuum" /\ phase = "idle" /\ vacuums \in 1 .. 2
           /\ DOMAIN rows = PG!Groups /\ group \in DOMAIN rows
           /\ \A g \in DOMAIN rows : g # group => GroupTidy(g)
           /\ Listed(chain[group], group, header) /\ PagesOf(group) \subseteq PG!Pages
           /\ \A g \in DOMAIN rows : g # group =>
                 PagesOf(g) \subseteq PG!Pages /\ PagesOf(g) \cap PagesOf(group) = {}
           /\ data \in [PG!Pages -> Page] /\ vac \in VacuumLocals
           /\ header \in [PG!Pages -> PG!PageHeader]
           /\ \/ vac = FreshVacuum(group) /\ GroupTidy(group)
              \/ \E kd, ks \in Nat : VacuumAt(vac, chain[group], data, sealed, header, kd, ks)
<1>1. /\ PGP!Inv /\ Kinds /\ Phases /\ Sound /\ ~harmed /\ operation = "vacuum"
  BY DEF IInv, Vacuuming
<1>2. phase \in {"idle", "delete", "vacuum"} /\ header \in [PG!Pages -> PG!PageHeader]
  BY <1>1, SameActions DEF PGP!Inv, PG!TypeOK
<1>3. /\ phase = "idle" /\ vacuums \in 1 .. 2 /\ DOMAIN rows = PG!Groups
      /\ group \in DOMAIN rows /\ ~damaged
  BY <1>1, <1>2 DEF Phases, Clearing
<1>4. Half /\ Vacuum /\ \A g \in DOMAIN rows : g # group => GroupTidy(g)
  BY <1>1 DEF Sound, Tidiness
<1>5. Listed(chain[group], group, header) /\ PagesOf(group) \subseteq PG!Pages
  BY <1>1, <1>3, ListsOf
<1>6. ASSUME NEW g \in DOMAIN rows, g # group
      PROVE  PagesOf(g) \subseteq PG!Pages /\ PagesOf(g) \cap PagesOf(group) = {}
  <2>1. group \in PG!Groups \ {g}
    BY <1>3, <1>6
  <2> QED BY <1>1, <2>1, ListsOf DEF PagesOf
<1>7. data \in [PG!Pages -> Page] /\ vac \in VacuumLocals
  BY <1>1 DEF Kinds
<1>8. \/ vac = FreshVacuum(group) /\ GroupTidy(group)
      \/ \E kd, ks \in Nat : VacuumAt(vac, chain[group], data, sealed, header, kd, ks)
  BY <1>1, <1>4 DEF Vacuum
<1> QED BY <1>1, <1>2, <1>3, <1>4, <1>5, <1>6, <1>7, <1>8

(* The pages vacuum works on.                                              *)
LEMMA PlacesOf ==
    ASSUME NEW s, NEW g, NEW h, Listed(s, g, h), NEW d \in [PG!Pages -> Page],
           h \in [PG!Pages -> PG!PageHeader],
           NEW v, NEW sl, NEW kd, NEW ks, VacuumAt(v, s, d, sl, h, kd, ks)
    PROVE  /\ kd \in 1 .. Len(s) /\ ks \in 1 .. Len(s) /\ kd <= ks /\ Len(s) \in Nat
           /\ kd \in Nat /\ ks \in Nat
           /\ v.src = s[ks] /\ v.dest = s[kd]
           /\ v.src_next = h[s[ks]].next /\ v.dest_next = h[s[kd]].next
           /\ v.src \in PG!Pages /\ v.dest \in PG!Pages
           /\ v.src \in Range(s) /\ v.dest \in Range(s)
           /\ d[v.src] \in Page /\ d[v.dest] \in Page
           /\ kd # ks => v.src # v.dest
           /\ v.dest_next = IF kd = Len(s) THEN NULL ELSE s[kd + 1]
           /\ v.src_next = IF ks = Len(s) THEN NULL ELSE s[ks + 1]
<1>1. /\ kd \in 1 .. Len(s) /\ ks \in kd .. Len(s) /\ v.src = s[ks] /\ v.dest = s[kd]
      /\ v.src_next = h[s[ks]].next /\ v.dest_next = h[s[kd]].next
  BY DEF VacuumAt, Position
<1>2. Len(s) \in Nat /\ DOMAIN s = 1 .. Len(s) /\ IsInjective(s)
  BY DEF Listed
<1>3. kd \in Nat /\ ks \in Nat /\ kd <= ks /\ ks \in 1 .. Len(s)
  BY <1>1, <1>2
<1>4. s[ks] \in PG!Pages /\ s[kd] \in PG!Pages
  BY <1>1, <1>3 DEF Listed
<1>5. s[ks] \in Range(s) /\ s[kd] \in Range(s)
  BY <1>1, <1>2, <1>3 DEF Range
<1>6. kd # ks => s[ks] # s[kd]
  BY <1>1, <1>2, <1>3 DEF IsInjective
<1>7. /\ v.dest_next = IF kd = Len(s) THEN NULL ELSE s[kd + 1]
      /\ v.src_next = IF ks = Len(s) THEN NULL ELSE s[ks + 1]
  BY <1>1, <1>3 DEF Listed
<1> QED BY <1>1, <1>2, <1>3, <1>4, <1>5, <1>6, <1>7

(* A step of vacuum that only works on pages of its group.                 *)
LEMMA VacuumGoesOn ==
    ASSUME IInv, Vacuuming, UNCHANGED <<groupVars, control, scanning, rows>>,
           data' \in [PG!Pages -> Page], vac' \in VacuumLocals,
           sealed' \subseteq PG!Pages, harmed' \in BOOLEAN,
           ~harmed' => /\ Half'
                       /\ \A p \in PG!Pages \ PagesOf(group) :
                             data'[p] = data[p] /\ (p \in sealed' <=> p \in sealed)
                       /\ \E kd, ks \in Nat :
                             VacuumAt(vac', chain[group], data', sealed', header, kd, ks)
    PROVE  IInv'
<1>1. /\ PGP!Inv /\ Kinds /\ Phases /\ ~damaged /\ ~harmed
      /\ operation = "vacuum" /\ phase = "idle" /\ vacuums \in 1 .. 2
      /\ DOMAIN rows = PG!Groups /\ group \in DOMAIN rows
      /\ \A g \in DOMAIN rows : g # group => GroupTidy(g)
      /\ \A g \in DOMAIN rows : g # group =>
            PagesOf(g) \subseteq PG!Pages /\ PagesOf(g) \cap PagesOf(group) = {}
  BY VacuumFacts
<1>2. /\ phase' = phase /\ chain' = chain /\ damaged' = damaged /\ header' = header
      /\ loop_group' = loop_group
      /\ operation' = operation /\ vacuums' = vacuums /\ group' = group /\ rows' = rows
      /\ it' = it /\ scanned' = scanned
  BY DEF groupVars, control, scanning
<1>3. PGP!Inv'
  BY <1>1, GroupsSame
<1>4. PG!Groups' = PG!Groups
  BY <1>2 DEF PG!Groups
<1>5. Kinds'
  BY <1>1, <1>2, <1>4 DEF Kinds
<1>6. Phases'
  BY <1>1, <1>2, <1>4 DEF Phases, Clearing
<1>7. ASSUME ~harmed' PROVE Sound'
  <2>1. ASSUME NEW g \in DOMAIN rows, g # group PROVE GroupTidy(g)'
    <3>1. \A p \in Range(chain[g]) : p \in PG!Pages \ PagesOf(group)
      BY <1>1, <2>1 DEF PagesOf
    <3>2. \A p \in Range(chain[g]) : data'[p] = data[p] /\ (p \in sealed' <=> p \in sealed)
      BY <1>7, <3>1
    <3> QED BY <1>1, <1>2, <2>1, <3>2, GroupTidyKept
  <2>2. Tidiness'
    BY <1>1, <1>2, <2>1 DEF Tidiness, Clearing
  <2>3. Half'
    BY <1>7
  <2>4. Vacuum'
    <3>1. \E kd, ks \in Nat : VacuumAt(vac', chain[group], data', sealed', header, kd, ks)
      BY <1>7
    <3>2. chain'[group'] = chain[group] /\ header' = header
      BY <1>2
    <3> QED BY <3>1, <3>2 DEF Vacuum
  <2>5. Freeing' /\ Scan'
    BY <1>1, <1>2 DEF Freeing, Scan, Scans
  <2> QED BY <2>2, <2>3, <2>4, <2>5 DEF Sound
<1> QED BY <1>3, <1>5, <1>6, <1>7 DEF IInv

(* Pages that did not change keep what is said of them.                    *)
LEMMA PagesKept ==
    ASSUME NEW s, NEW d, NEW e, NEW sl, NEW ml, NEW k, NEW l,
           \A j \in k .. l : e[s[j]] = d[s[j]] /\ (s[j] \in ml <=> s[j] \in sl)
    PROVE  /\ k = 1 /\ InFront(s, d, sl, l) => InFront(s, e, ml, l)
           /\ \A m : k = m + 1 /\ l = Len(s) /\ Behind(s, d, sl, m) => Behind(s, e, ml, m)
           /\ Emptied(s, d, k, l) => Emptied(s, e, k, l)
<1>1. ASSUME k = 1, InFront(s, d, sl, l) PROVE InFront(s, e, ml, l)
  BY <1>1 DEF InFront, Tidy, Reclaimed
<1>2. ASSUME NEW m, k = m + 1, l = Len(s), Behind(s, d, sl, m) PROVE Behind(s, e, ml, m)
  BY <1>2 DEF Behind, Tidy
<1>3. ASSUME Emptied(s, d, k, l) PROVE Emptied(s, e, k, l)
  BY <1>3 DEF Emptied
<1> QED BY <1>1, <1>2, <1>3

(* Vacuum goes on with its two pages, which are the only ones to change.   *)
Stays(u, v) ==
    u.src = v.src /\ u.src_next = v.src_next /\ u.dest = v.dest /\ u.dest_next = v.dest_next
Works(v, s, d, sl, kd, ks) ==
    \/ kd = ks /\ Searching(v, d[s[kd]], s[kd] \in sl, kd = 1)
    \/ kd = ks /\ OnePage(v, d[s[kd]])
    \/ kd < ks /\ TwoPages(v, d[s[ks]], s[ks] \in sl, d[s[kd]])

LEMMA LocalsStep ==
    ASSUME NEW v \in VacuumLocals, NEW w \in BOOLEAN, NEW i \in Nat, NEW n \in Nat, NEW end \in Nat
    PROVE  LET u == [v EXCEPT !.started = w, !.index = i, !.dest_id = n, !.dest_data = end]
           IN  IsAt(u, v, w, i, n, end) /\ Stays(u, v)
  BY DEF IsAt, Stays, VacuumLocals

LEMMA PlaceKept ==
    ASSUME NEW s, NEW g, NEW h, Listed(s, g, h), h \in [PG!Pages -> PG!PageHeader],
           NEW d \in [PG!Pages -> Page],
           NEW v, NEW sl, NEW kd, NEW ks, VacuumAt(v, s, d, sl, h, kd, ks),
           NEW u, Stays(u, v), NEW e,
           \A p \in PG!Pages : p # v.src /\ p # v.dest => e[p] = d[p],
           Works(u, s, e, sl, kd, ks)
    PROVE  VacuumAt(u, s, e, sl, h, kd, ks)
<1>1. /\ kd \in 1 .. Len(s) /\ ks \in 1 .. Len(s) /\ kd <= ks /\ Len(s) \in Nat
      /\ kd \in Nat /\ ks \in Nat /\ v.src = s[ks] /\ v.dest = s[kd]
  BY PlacesOf
<1>2. /\ Position(v, s, h, kd, ks) /\ InFront(s, d, sl, kd - 1) /\ Behind(s, d, sl, ks)
      /\ Emptied(s, d, kd + 1, ks - 1)
  BY DEF VacuumAt
<1>3. \A j \in 1 .. Len(s) : j # kd /\ j # ks => e[s[j]] = d[s[j]]
  <2> SUFFICES ASSUME NEW j \in 1 .. Len(s), j # kd, j # ks PROVE e[s[j]] = d[s[j]]
    OBVIOUS
  <2>1. s[j] \in PG!Pages /\ s[j] # s[kd] /\ s[j] # s[ks]
    BY <1>1 DEF Listed, IsInjective
  <2> QED BY <1>1, <2>1
<1>4. InFront(s, e, sl, kd - 1)
  <2>1. \A j \in 1 .. kd - 1 : e[s[j]] = d[s[j]]
    BY <1>1, <1>3
  <2> QED BY <1>2, <2>1, PagesKept
<1>5. Behind(s, e, sl, ks)
  <2>1. \A j \in ks + 1 .. Len(s) : e[s[j]] = d[s[j]]
    BY <1>1, <1>3
  <2> QED BY <1>2, <2>1, PagesKept
<1>6. Emptied(s, e, kd + 1, ks - 1)
  <2>1. \A j \in kd + 1 .. ks - 1 : e[s[j]] = d[s[j]]
    BY <1>1, <1>3
  <2> QED BY <1>2, <2>1, PagesKept
<1>7. Position(u, s, h, kd, ks)
  BY <1>2 DEF Position, Stays
<1> QED BY <1>4, <1>5, <1>6, <1>7 DEF VacuumAt, Works

LEMMA VacuumWorks ==
    ASSUME IInv, VacuumItem, UNCHANGED <<sealed, harmed>>,
           NEW kd, NEW ks, VacuumAt(vac, chain[group], data, sealed, header, kd, ks),
           vac' \in VacuumLocals, Stays(vac', vac),
           data' \in [PG!Pages -> Page],
           \A p \in PG!Pages : p # vac.src /\ p # vac.dest => data'[p] = data[p],
           2 * data'[vac.src].item_amount <= Capacity,
           2 * data'[vac.dest].item_amount <= Capacity,
           Works(vac', chain[group], data', sealed, kd, ks)
    PROVE  IInv'
<1>1. /\ Vacuuming /\ UNCHANGED <<groupVars, control, scanning, rows>>
  BY DEF VacuumItem
<1>2. /\ Kinds /\ Half /\ Listed(chain[group], group, header)
      /\ data \in [PG!Pages -> Page] /\ header \in [PG!Pages -> PG!PageHeader]
  BY <1>1, VacuumFacts
<1>3. /\ vac.src \in Range(chain[group]) /\ vac.dest \in Range(chain[group])
      /\ kd \in Nat /\ ks \in Nat
  BY <1>2, PlacesOf
<1>4. VacuumAt(vac', chain[group], data', sealed, header, kd, ks)
  BY <1>2, PlaceKept
<1>5. Half'
  BY <1>2 DEF Half
<1>6. \A p \in PG!Pages \ PagesOf(group) :
         data'[p] = data[p] /\ (p \in sealed' <=> p \in sealed)
  BY <1>3 DEF PagesOf
<1>7. sealed' \subseteq PG!Pages /\ harmed' \in BOOLEAN /\ sealed' = sealed
  BY <1>2 DEF Kinds
<1> QED BY <1>1, <1>3, <1>4, <1>5, <1>6, <1>7, VacuumGoesOn

(* Within a source page vacuum has begun.                                  *)
LEMMA ItemPlace ==
    ASSUME IInv, VacuumItem
    PROVE  /\ vac.index # vac.ids /\ Vacuuming /\ Kinds /\ Half
           /\ data \in [PG!Pages -> Page] /\ vac \in VacuumLocals
           /\ vac.index \in Nat /\ vac.dest_id \in Nat /\ vac.dest_data \in Nat
           /\ \E kd, ks : VacuumAt(vac, chain[group], data, sealed, header, kd, ks)
           /\ Listed(chain[group], group, header) /\ header \in [PG!Pages -> PG!PageHeader]
<1>1. Vacuuming /\ vac.index # vac.ids
  BY DEF VacuumItem, PageDone
<1>2. vac # FreshVacuum(group)
  BY <1>1 DEF FreshVacuum, NoVacuum
<1> QED BY <1>1, <1>2, VacuumFacts, LocalsNat

LEMMA CountedFacts ==
    ASSUME SourceId.deleted, data \in [PG!Pages -> Page], vac.src \in PG!Pages
    PROVE  /\ Counted[vac.src] = [data[vac.src] EXCEPT !.item_amount = @ - 1]
           /\ \A p \in PG!Pages : p # vac.src => Counted[p] = data[p]
           /\ DOMAIN Counted = PG!Pages
           /\ Counted = [data EXCEPT ![vac.src] = [data[vac.src] EXCEPT !.item_amount = @ - 1]]
<1>1. Counted = [data EXCEPT ![vac.src].item_amount = @ - 1]
  BY DEF Counted
<1> QED BY <1>1

LEMMA VacuumStartsStep == ASSUME IInv, VacuumStarts PROVE IInv'
<1>1. /\ VacuumItem /\ ~vac.started /\ SourceId.deleted /\ data' = Counted
      /\ vac' = [vac EXCEPT !.started = TRUE, !.index = @ + 1, !.dest_id = vac.index,
                            !.dest_data = SourceId.offset + SourceId.size]
      /\ UNCHANGED <<sealed, harmed>>
  BY DEF VacuumStarts
<1>2. /\ vac.index # vac.ids /\ Kinds /\ Half
      /\ data \in [PG!Pages -> Page] /\ vac \in VacuumLocals /\ vac.index \in Nat
      /\ Listed(chain[group], group, header) /\ header \in [PG!Pages -> PG!PageHeader]
  BY <1>1, ItemPlace
<1>3. PICK kd, ks : VacuumAt(vac, chain[group], data, sealed, header, kd, ks)
  BY <1>1, ItemPlace
<1>4. PICK p \in PG!Pages : p = vac.src
  BY <1>2, <1>3, PlacesOf
<1>5. /\ p = chain[group][ks] /\ vac.dest = chain[group][kd] /\ data[p] \in Page
  BY <1>2, <1>3, <1>4, PlacesOf
<1>6. kd = ks /\ Searching(vac, data[p], p \in sealed, kd = 1)
  BY <1>1, <1>3, <1>5 DEF VacuumAt, OnePage, TwoPages, Filling
<1> DEFINE d == data[p]
           id == d.ids[vac.index + 1]
           e == [d EXCEPT !.item_amount = @ - 1]
<1>7. SourceId = id /\ id.deleted
  BY <1>1, <1>4 DEF SourceId
<1>8. /\ Row(d.ids, 1 .. vac.ids, vac.ids) /\ d.ids \in IdList
      /\ vac.index + 1 \in 1 .. vac.ids /\ 2 * d.item_amount <= Capacity
  <2>1. /\ vac.ids \in Nat /\ vac.index < vac.ids /\ d.ids \in IdList
        /\ Row(d.ids, 1 .. vac.ids, vac.ids)
    BY <1>2, <1>5, <1>6, SearchingReads
  <2>2. vac.index + 1 \in 1 .. vac.ids
    BY <1>2, <2>1
  <2>3. 2 * d.item_amount <= Capacity
    BY <1>2 DEF Half
  <2> QED BY <2>1, <2>2, <2>3
<1>9. id.offset + id.size \in Nat
  <2>1. vac.ids \in Nat
    BY <1>2, LocalsNat
  <2>2. PICK o \in Int, z \in Nat : o = id.offset /\ z = id.size /\ o >= vac.ids
    <3> HIDE DEF d
    <3>1. PICK i \in 1 .. vac.ids : i = vac.index + 1
      BY <1>8
    <3>2. d.ids[i].offset \in Int /\ d.ids[i].size \in Nat /\ d.ids[i].offset >= vac.ids
      BY <1>8, RowFacts
    <3> QED BY <3>1, <3>2
  <2> QED BY <2>1, <2>2
<1>10. IsAt(vac', vac, TRUE, vac.index + 1, vac.index, id.offset + id.size) /\ Stays(vac', vac)
  <2> DEFINE end == id.offset + id.size
  <2>1. vac' = [vac EXCEPT !.started = TRUE, !.index = @ + 1, !.dest_id = vac.index,
                           !.dest_data = end]
    BY <1>1, <1>7
  <2>2. end \in Nat
    BY <1>9
  <2>3. vac.index + 1 \in Nat /\ TRUE \in BOOLEAN
    BY <1>2
  <2> HIDE DEF end
  <2>4. /\ IsAt([vac EXCEPT !.started = TRUE, !.index = vac.index + 1, !.dest_id = vac.index,
                           !.dest_data = end], vac, TRUE, vac.index + 1, vac.index, end)
        /\ Stays([vac EXCEPT !.started = TRUE, !.index = vac.index + 1, !.dest_id = vac.index,
                           !.dest_data = end], vac)
    BY <1>2, <2>2, <2>3, LocalsStep
  <2> QED BY <2>1, <2>4 DEF end
<1>11. data' = [data EXCEPT ![p] = e]
  BY <1>1, <1>2, <1>4, CountedFacts
<1>12. e \in Page /\ OnePage(vac', e) /\ 2 * e.item_amount <= Capacity
  <2>1. d.ids[vac.index + 1].deleted
    BY <1>7
  <2>2. IsAt(vac', vac, TRUE, vac.index + 1, vac.index,
             d.ids[vac.index + 1].offset + d.ids[vac.index + 1].size)
    BY <1>10
  <2> HIDE DEF d, id
  <2> QED BY <1>2, <1>5, <1>6, <1>8, <2>1, <2>2, SearchingStarts DEF d
<1> HIDE DEF e
<1>13. /\ data' \in [PG!Pages -> Page] /\ data'[p] = e
       /\ \A q \in PG!Pages : q # p => data'[q] = data[q]
  BY <1>2, <1>11, <1>12
<1>14. Works(vac', chain[group], data', sealed, kd, ks)
  BY <1>5, <1>6, <1>12, <1>13 DEF Works
<1>15. vac.dest = p /\ vac' \in VacuumLocals
  BY <1>5, <1>6, <1>10 DEF IsAt
<1> QED BY <1>1, <1>3, <1>4, <1>10, <1>12, <1>13, <1>14, <1>15, VacuumWorks

LEMMA VacuumSkipsStep == ASSUME IInv, VacuumSkips PROVE IInv'
<1>1. /\ VacuumItem /\ vac.started = SourceId.deleted /\ data' = Counted
      /\ vac' = [vac EXCEPT !.index = @ + 1] /\ UNCHANGED <<sealed, harmed>>
  BY DEF VacuumSkips
<1>2. /\ vac.index # vac.ids /\ Kinds /\ Half
      /\ data \in [PG!Pages -> Page] /\ vac \in VacuumLocals /\ vac.index \in Nat
      /\ Listed(chain[group], group, header) /\ header \in [PG!Pages -> PG!PageHeader]
  BY <1>1, ItemPlace
<1>3. PICK kd, ks : VacuumAt(vac, chain[group], data, sealed, header, kd, ks)
  BY <1>1, ItemPlace
<1>4. PICK p \in PG!Pages : p = vac.src
  BY <1>2, <1>3, PlacesOf
<1>5. /\ p = chain[group][ks] /\ vac.dest = chain[group][kd] /\ data[p] \in Page
      /\ vac.dest \in PG!Pages /\ (kd # ks => p # vac.dest)
      /\ kd \in Nat /\ ks \in Nat
  BY <1>2, <1>3, <1>4, PlacesOf
<1>6. /\ \/ kd = ks /\ Searching(vac, data[p], p \in sealed, kd = 1)
         \/ kd = ks /\ OnePage(vac, data[p])
         \/ kd < ks /\ TwoPages(vac, data[p], p \in sealed, data[vac.dest])
  BY <1>3, <1>5 DEF VacuumAt
<1>7. /\ IsAt(vac', vac, vac.started, vac.index + 1, vac.dest_id, vac.dest_data)
      /\ Stays(vac', vac) /\ vac' \in VacuumLocals
  BY <1>1, <1>2 DEF IsAt, Stays, VacuumLocals
<1>8. SourceId = data[p].ids[vac.index + 1] /\ vac.started \in BOOLEAN
  BY <1>2, <1>4 DEF SourceId, VacuumLocals
<1>9. Half /\ \A q \in PG!Pages : 2 * data[q].item_amount <= Capacity
  BY <1>2 DEF Half
<1>10. CASE ~vac.started
  <2>1. /\ kd = ks /\ Searching(vac, data[p], p \in sealed, kd = 1)
    BY <1>6, <1>10 DEF OnePage, TwoPages, Filling
  <2>2. ~data[p].ids[vac.index + 1].deleted /\ data' = data
    BY <1>1, <1>8, <1>10 DEF Counted
  <2>3. vac.started = FALSE
    BY <1>8, <1>10
  <2>4. Searching(vac', data[p], p \in sealed, kd = 1)
    BY <1>2, <1>7, <2>1, <2>2, <2>3, SearchingSkips
  <2>5. Works(vac', chain[group], data', sealed, kd, ks)
    BY <1>5, <2>1, <2>2, <2>4 DEF Works
  <2>6. 2 * data'[vac.src].item_amount <= Capacity /\ 2 * data'[vac.dest].item_amount <= Capacity
    BY <1>4, <1>5, <1>9, <2>2
  <2> QED BY <1>1, <1>2, <1>3, <1>7, <2>2, <2>5, <2>6, VacuumWorks
<1>11. CASE vac.started
  <2> DEFINE e == [data[p] EXCEPT !.item_amount = @ - 1]
  <2>1. SourceId.deleted /\ vac.started = TRUE
    BY <1>1, <1>8, <1>11
  <2>2. data' = [data EXCEPT ![p] = e]
    BY <1>1, <1>2, <1>4, <2>1, CountedFacts
  <2>3. IsAt(vac', vac, TRUE, vac.index + 1, vac.dest_id, vac.dest_data)
    BY <1>7, <2>1
  <2>4. CASE kd = ks /\ OnePage(vac, data[p])
    <3>1. e \in Page /\ OnePage(vac', e) /\ 2 * e.item_amount <= Capacity
      BY <1>2, <1>5, <2>3, <2>4, OnePageSkips
    <3> HIDE DEF e
    <3>2. /\ data' \in [PG!Pages -> Page] /\ data'[p] = e
          /\ \A q \in PG!Pages : q # p => data'[q] = data[q]
      BY <1>2, <2>2, <3>1
    <3>3. Works(vac', chain[group], data', sealed, kd, ks)
      BY <1>5, <2>4, <3>1, <3>2 DEF Works
    <3>4. vac.dest = p
      BY <1>5, <2>4
    <3> QED BY <1>1, <1>3, <1>4, <1>7, <3>1, <3>2, <3>3, <3>4, VacuumWorks
  <2>5. CASE kd < ks /\ TwoPages(vac, data[p], p \in sealed, data[vac.dest])
    <3>1. e \in Page /\ 2 * e.item_amount <= Capacity
          /\ TwoPages(vac', e, p \in sealed, data[vac.dest])
      BY <1>2, <1>5, <2>3, <2>5, TwoPagesSkips
    <3> HIDE DEF e
    <3>2. /\ data' \in [PG!Pages -> Page] /\ data'[p] = e
          /\ \A q \in PG!Pages : q # p => data'[q] = data[q]
      BY <1>2, <2>2, <3>1
    <3>3. vac.dest # p
      BY <1>5, <2>5
    <3>4. Works(vac', chain[group], data', sealed, kd, ks)
      BY <1>5, <2>5, <3>1, <3>2, <3>3 DEF Works
    <3>5. 2 * data'[vac.dest].item_amount <= Capacity
      BY <1>5, <1>9, <3>2, <3>3
    <3> QED BY <1>1, <1>3, <1>4, <1>7, <3>1, <3>2, <3>4, <3>5, VacuumWorks
  <2>6. ~Searching(vac, data[p], p \in sealed, kd = 1)
    BY <1>11 DEF Searching
  <2> QED BY <1>6, <2>4, <2>5, <2>6
<1> QED BY <1>10, <1>11
-----------------------------------------------------------------------------
(* An item that is not deleted moves.                                      *)
MovedId(id, end) == [id EXCEPT !.offset = end - id.size]

LEMMA MovedIdFacts ==
    ASSUME NEW id \in ItemId, NEW end \in Int
    PROVE  /\ MovedId(id, end) \in ItemId /\ MovedId(id, end).size = id.size
           /\ MovedId(id, end).offset = end - id.size /\ MovedId(id, end).deleted = id.deleted
           /\ id.size \in Nat /\ end - id.size \in Int
  BY DEF MovedId, ItemId

(* A page on which the item at place m + 1 moves behind the n before it,   *)
(* and the two pages when it moves to another one.                         *)
TurnedOver(d, m, n, id) ==
    [d EXCEPT !.ids = Written([d.ids EXCEPT ![m + 1] = id], n + 1, id, id.size)]
TakenFrom(d, m, id) == [d EXCEPT !.ids = [d.ids EXCEPT ![m + 1] = id], !.item_amount = @ - 1]
PutInto(d, n, id) == [d EXCEPT !.ids = Written(d.ids, n + 1, id, id.size), !.item_amount = @ + 1]

LEMMA OnePageMovesIn ==
    ASSUME NEW v \in VacuumLocals, NEW d \in Page, OnePage(v, d), v.index # v.ids,
           ~d.ids[v.index + 1].deleted,
           NEW n, n = v.dest_id, NEW end, end = v.dest_data,
           NEW id, id = MovedId(d.ids[v.index + 1], end),
           NEW u, IsAt(u, v, TRUE, v.index + 1, n + 1, id.offset)
    PROVE  IsMovedWithin(u, TurnedOver(d, v.index, n, id), v, d, n, v.index, v.ids, end, id)
<1> DEFINE e == TurnedOver(d, v.index, n, id)
           m == v.index
           k == v.ids
           w == [d.ids EXCEPT ![m + 1] = id]
           t == Written(w, n + 1, id, id.size)
<1>1. m \in Nat /\ k \in Nat /\ n \in Nat /\ end \in Nat /\ d.ids \in IdList /\ end \in Int
      /\ m # k
  BY LocalsNat DEF Page
<1>2. /\ Filling(v, d) /\ n < m /\ k <= end /\ Row(d.ids, Around(n, m, k), k)
      /\ d.item_amount = n + k - m /\ \A i \in m + 1 .. k : End(d.ids, i) <= end
  BY Zenon DEF OnePage
<1>3. /\ m <= k /\ 2 * k <= Capacity /\ end <= Capacity /\ n + end <= Capacity /\ n <= end
      /\ NoneDeletedIn(d, n)
      /\ n # 0 => end = d.ids[n].offset
  BY <1>2, Zenon DEF Filling
<1>4. /\ ~d.ids[m + 1].deleted /\ id = MovedId(d.ids[m + 1], end)
      /\ e = [d EXCEPT !.ids = t] /\ IsAt(u, v, TRUE, m + 1, n + 1, id.offset) /\ v.ids = k
  BY DEF TurnedOver
<1> HIDE DEF m, k, w, t, e
<1>5. m + 1 \in Around(n, m, k) /\ m < k
  BY <1>1, <1>2, <1>3 DEF Around
<1>6. m + 1 \in 1 .. Len(d.ids) /\ d.ids[m + 1] \in ItemId
  BY <1>1, <1>2, <1>5, RowFacts
<1>7. /\ id \in ItemId /\ id.size = d.ids[m + 1].size /\ id.size \in Nat
      /\ id.offset = end - id.size /\ ~id.deleted
  BY <1>1, <1>4, <1>6, MovedIdFacts
<1>8. Replaced(w, d.ids, m + 1, id)
  BY <1>1, <1>6, <1>7, ExceptReplaces DEF w
<1>9. IsWritten(t, w, n + 1, id, id.size)
  <2>1. Len(d.ids) \in Nat /\ Len(d.ids) <= Capacity /\ Capacity \in Nat
    BY <1>1, LenProperties, DataAssumption DEF IdList
  <2>2. n + 1 \in 1 .. Capacity
    BY <1>1, <1>2, <1>6, <2>1
  <2>3. w \in IdList
    BY <1>8 DEF Replaced
  <2> QED BY <1>7, <2>2, <2>3, WrittenFacts DEF t
<1>10. Movable(d.ids, n, m, k, end, id)
  <2>1. end + n <= Capacity
    BY <1>1, <1>3
  <2> QED BY <1>2, <1>3, <1>5, <1>7, <2>1 DEF Movable
<1>11. /\ d.item_amount = n + k - m /\ 2 * k <= Capacity /\ NoneDeletedIn(d, n) /\ ~id.deleted
       /\ e = [d EXCEPT !.ids = t] /\ IsAt(u, v, TRUE, m + 1, n + 1, id.offset) /\ v.ids = k
       /\ n \in Nat /\ m \in Nat /\ k \in Nat /\ end \in Int /\ id \in ItemId
  BY <1>1, <1>2, <1>3, <1>4, <1>7
<1>12. IsMovedWithin(u, e, v, d, n, m, k, end, id)
  BY <1>8, <1>9, <1>10, <1>11, Zenon DEF IsMovedWithin
<1> QED BY <1>12 DEF e, m, k

LEMMA OnePageMoves ==
    ASSUME NEW v \in VacuumLocals, NEW d \in Page, OnePage(v, d), v.index # v.ids,
           ~d.ids[v.index + 1].deleted,
           NEW n, n = v.dest_id, NEW end, end = v.dest_data,
           NEW id, id = MovedId(d.ids[v.index + 1], end),
           NEW u, IsAt(u, v, TRUE, v.index + 1, n + 1, id.offset)
    PROVE  LET e == TurnedOver(d, v.index, n, id)
           IN  e \in Page /\ OnePage(u, e) /\ 2 * e.item_amount <= Capacity
<1>1. IsMovedWithin(u, TurnedOver(d, v.index, n, id), v, d, n, v.index, v.ids, end, id)
  BY OnePageMovesIn
<1> QED BY <1>1, MovedWithin

(* To another page, behind its n items and below its end.                  *)
CanMoveOver(v, from, to, n, end) ==
    /\ v.index < v.ids /\ 2 * v.ids <= Capacity
    /\ Row(from.ids, v.index + 1 .. v.ids, v.ids) /\ from.item_amount = v.ids - v.index
    /\ Row(to.ids, 1 .. n, n) /\ to.item_amount = n /\ NoneDeletedIn(to, n)
    /\ n # 0 => end = to.ids[n].offset
    /\ end + n <= Capacity
    /\ ~from.ids[v.index + 1].deleted
    /\ EntrySize(from.ids[v.index + 1].size) <= end - n

LEMMA OverMovesTo ==
    ASSUME NEW v \in VacuumLocals, NEW from \in Page, NEW to \in Page,
           NEW n \in Nat, NEW end \in Nat, CanMoveOver(v, from, to, n, end),
           NEW id, id = MovedId(from.ids[v.index + 1], end),
           NEW u, IsAt(u, v, TRUE, v.index + 1, n + 1, id.offset)
    PROVE  IsMovedOver(u, TakenFrom(from, v.index, id), PutInto(to, n, id), v,
                       from, to, n, v.index, v.ids, end, id)
<1> DEFINE m == v.index
           k == v.ids
           w == [from.ids EXCEPT ![m + 1] = id]
           t == Written(to.ids, n + 1, id, id.size)
           x == TakenFrom(from, m, id)
           e == PutInto(to, n, id)
<1>1. m \in Nat /\ k \in Nat /\ from.ids \in IdList /\ to.ids \in IdList /\ end \in Int
      /\ Capacity \in Nat
  BY LocalsNat, DataAssumption DEF Page
<1>2. /\ m < k /\ 2 * k <= Capacity
      /\ Row(from.ids, m + 1 .. k, k) /\ from.item_amount = k - m
      /\ Row(to.ids, 1 .. n, n) /\ to.item_amount = n /\ NoneDeletedIn(to, n)
      /\ n # 0 => end = to.ids[n].offset
      /\ end + n <= Capacity
      /\ ~from.ids[m + 1].deleted
      /\ from.ids[m + 1].size + 1 <= end - n
  BY DEF CanMoveOver, EntrySize
<1>3. /\ id = MovedId(from.ids[m + 1], end)
      /\ x = [from EXCEPT !.ids = w, !.item_amount = @ - 1]
      /\ e = [to EXCEPT !.ids = t, !.item_amount = @ + 1]
      /\ v.ids = k /\ IsAt(u, v, TRUE, m + 1, n + 1, id.offset)
  BY DEF TakenFrom, PutInto
<1> HIDE DEF m, k, w, t, x, e
<1>4. /\ m + 1 \in 1 .. Len(from.ids) /\ from.ids[m + 1] \in ItemId
      /\ from.ids[m + 1].size >= 1
  <2>1. m + 1 \in m + 1 .. k
    BY <1>1, <1>2
  <2> QED BY <1>1, <1>2, <2>1, RowFacts
<1>5. /\ id \in ItemId /\ id.size = from.ids[m + 1].size /\ id.size \in Nat
      /\ id.offset = end - id.size /\ ~id.deleted
  <2>1. PICK old \in ItemId : old = from.ids[m + 1]
    BY <1>4
  <2>2. id = MovedId(old, end) /\ ~old.deleted
    BY <1>2, <1>3, <2>1
  <2>3. /\ id \in ItemId /\ id.size = old.size /\ id.size \in Nat
        /\ id.offset = end - old.size /\ id.deleted = old.deleted
    BY <1>1, <2>2, MovedIdFacts
  <2> QED BY <2>1, <2>2, <2>3
<1>6. Replaced(w, from.ids, m + 1, id)
  BY <1>1, <1>4, <1>5, ExceptReplaces DEF w
<1>7. end <= Capacity /\ id.offset >= n + 1 /\ n + 1 \in 1 .. Capacity
  <2>1. PICK o \in Int, z \in Nat : id.offset = o /\ id.size = z
    BY <1>5 DEF ItemId
  <2>2. o = end - z /\ z >= 1 /\ z + 1 <= end - n
    BY <1>2, <1>4, <1>5, <2>1
  <2>3. end <= Capacity /\ o >= n + 1 /\ n + 1 \in 1 .. Capacity
    BY <1>1, <1>2, <2>2
  <2> QED BY <2>1, <2>3
<1>8. IsWritten(t, to.ids, n + 1, id, id.size)
  BY <1>1, <1>5, <1>7, WrittenFacts DEF t
<1>9. MovableOver(from, to, n, m, k, end, id)
  BY <1>2, <1>5, <1>7 DEF MovableOver
<1>10. IsMovedOver(u, x, e, v, from, to, n, m, k, end, id)
  BY <1>1, <1>3, <1>5, <1>6, <1>8, <1>9 DEF IsMovedOver
<1> QED BY <1>10 DEF x, e, m, k

LEMMA OverMoves ==
    ASSUME NEW v \in VacuumLocals, NEW from \in Page, NEW to \in Page,
           NEW n \in Nat, NEW end \in Nat, CanMoveOver(v, from, to, n, end),
           NEW id, id = MovedId(from.ids[v.index + 1], end),
           NEW u, IsAt(u, v, TRUE, v.index + 1, n + 1, id.offset), NEW b
    PROVE  LET x == TakenFrom(from, v.index, id)
               e == PutInto(to, n, id)
           IN  /\ x \in Page /\ e \in Page /\ TwoPages(u, x, b, e)
               /\ 2 * e.item_amount <= Capacity /\ 2 * x.item_amount <= Capacity
<1>1. IsMovedOver(u, TakenFrom(from, v.index, id), PutInto(to, n, id), v,
                  from, to, n, v.index, v.ids, end, id)
  BY OverMovesTo
<1> QED BY <1>1, MovedOver

LEMMA TwoPagesCanMove ==
    ASSUME NEW v \in VacuumLocals, NEW from, NEW b, NEW to, TwoPages(v, from, b, to),
           v.index # v.ids, ~from.ids[v.index + 1].deleted,
           EntrySize(from.ids[v.index + 1].size) <= v.dest_data - v.dest_id
    PROVE  CanMoveOver(v, from, to, v.dest_id, v.dest_data)
<1>1. /\ Filling(v, to) /\ Row(from.ids, v.index + 1 .. v.ids, v.ids)
      /\ from.item_amount = v.ids - v.index
      /\ Row(to.ids, 1 .. v.dest_id, v.dest_id) /\ to.item_amount = v.dest_id
  BY Zenon DEF TwoPages
<1>2. /\ v.index <= v.ids /\ 2 * v.ids <= Capacity /\ v.dest_id + v.dest_data <= Capacity
      /\ NoneDeletedIn(to, v.dest_id)
      /\ v.dest_id # 0 => v.dest_data = to.ids[v.dest_id].offset
  BY <1>1, Zenon DEF Filling
<1>3. v.index < v.ids /\ v.dest_data + v.dest_id <= Capacity
  BY <1>2, LocalsNat
<1> QED BY <1>1, <1>2, <1>3 DEF CanMoveOver
-----------------------------------------------------------------------------
(* The pages behind a move.                                                *)
OneChanged(new, old, p, d) == new = [old EXCEPT ![p] = d]
TwoChanged(new, old, p, d, q, e) == new = [old EXCEPT ![p] = d, ![q] = e]

LEMMA MovedInPlace ==
    ASSUME NEW pages \in [PG!Pages -> Page], NEW p \in PG!Pages, p = vac.src,
           NEW n, NEW end
    PROVE  OneChanged(Moved(pages, p, n, end), pages, p,
                      TurnedOver(pages[p], vac.index, n, MovedId(SourceId, end)))
<1> DEFINE id == MovedId(SourceId, end)
           w == [pages[p].ids EXCEPT ![vac.index + 1] = id]
           renamed == [pages EXCEPT ![p].ids[vac.index + 1] = id]
<1>1. id = [SourceId EXCEPT !.offset = end - SourceId.size]
  BY DEF MovedId
<1>2. Moved(pages, p, n, end) =
          [renamed EXCEPT ![p].ids = Written(@, n + 1, id, id.size)]
  BY <1>1 DEF Moved
<1>3. renamed = [pages EXCEPT ![p] = [pages[p] EXCEPT !.ids = w]]
  OBVIOUS
<1>4. pages[p] \in Page
  OBVIOUS
<1> HIDE DEF id, renamed, w
<1>5. renamed[p] = [pages[p] EXCEPT !.ids = w] /\ renamed[p].ids = w
      /\ DOMAIN renamed = PG!Pages
  BY <1>3, <1>4 DEF Page
<1>6. Moved(pages, p, n, end) =
          [renamed EXCEPT ![p] = [renamed[p] EXCEPT !.ids = Written(w, n + 1, id, id.size)]]
  BY <1>2, <1>5
<1> DEFINE t == Written(w, n + 1, id, id.size)
<1> HIDE DEF t
<1>7. [renamed[p] EXCEPT !.ids = t] = [pages[p] EXCEPT !.ids = t]
  BY <1>4, <1>5 DEF Page
<1>8. [renamed EXCEPT ![p] = [pages[p] EXCEPT !.ids = t]]
         = [pages EXCEPT ![p] = [pages[p] EXCEPT !.ids = t]]
  BY <1>3
<1> QED BY <1>6, <1>7, <1>8 DEF id, t, w, TurnedOver, OneChanged

LEMMA MovedAway ==
    ASSUME NEW pages \in [PG!Pages -> Page], NEW p \in PG!Pages, p = vac.src,
           NEW q \in PG!Pages, p # q, NEW n, NEW end
    PROVE  TwoChanged(Moved(pages, q, n, end), pages,
                      p, TakenFrom(pages[p], vac.index, MovedId(SourceId, end)),
                      q, PutInto(pages[q], n, MovedId(SourceId, end)))
<1> DEFINE id == MovedId(SourceId, end)
           w == [pages[p].ids EXCEPT ![vac.index + 1] = id]
           t == Written(pages[q].ids, n + 1, id, id.size)
           renamed == [pages EXCEPT ![p].ids[vac.index + 1] = id]
           moved == [renamed EXCEPT ![q].ids = Written(@, n + 1, id, id.size)]
<1>1. id = [SourceId EXCEPT !.offset = end - SourceId.size]
  BY DEF MovedId
<1>2. Moved(pages, q, n, end) =
          [moved EXCEPT ![q].item_amount = @ + 1, ![p].item_amount = @ - 1]
  BY <1>1 DEF Moved
<1>3. renamed = [pages EXCEPT ![p] = [pages[p] EXCEPT !.ids = w]]
  OBVIOUS
<1>4. pages[p] \in Page /\ pages[q] \in Page
  OBVIOUS
<1>5. moved = [renamed EXCEPT ![q] = [renamed[q] EXCEPT
                                         !.ids = Written(renamed[q].ids, n + 1, id, id.size)]]
  OBVIOUS
<1> HIDE DEF id, renamed, w, moved
<1>6. renamed[p] = [pages[p] EXCEPT !.ids = w] /\ renamed[q] = pages[q]
      /\ DOMAIN renamed = PG!Pages
  BY <1>3
<1>7. moved = [renamed EXCEPT ![q] = [pages[q] EXCEPT !.ids = t]]
  BY <1>5, <1>6
<1> HIDE DEF t
<1>8. moved = [pages EXCEPT ![p] = [pages[p] EXCEPT !.ids = w],
                            ![q] = [pages[q] EXCEPT !.ids = t]]
  BY <1>3, <1>7
<1>9. [moved EXCEPT ![q].item_amount = @ + 1, ![p].item_amount = @ - 1]
         = [pages EXCEPT ![p] = [pages[p] EXCEPT !.ids = w, !.item_amount = @ - 1],
                         ![q] = [pages[q] EXCEPT !.ids = t, !.item_amount = @ + 1]]
  BY <1>4, <1>8 DEF Page
<1> QED BY <1>2, <1>9 DEF id, w, t, TakenFrom, PutInto, TwoChanged

LEMMA ReadsItem ==
    ASSUME NEW v \in VacuumLocals, NEW d \in Page, v.index # v.ids,
           OnePage(v, d) \/ \E b, to : TwoPages(v, d, b, to)
    PROVE  v.index + 1 \in 1 .. Len(d.ids) /\ d.ids[v.index + 1] \in ItemId
<1>1. v.index \in Nat /\ v.ids \in Nat /\ v.dest_id \in Nat /\ d.ids \in IdList
  BY LocalsNat DEF Page
<1>2. PICK P : Row(d.ids, P, v.ids) /\ v.index + 1 \in P
  <2>1. CASE OnePage(v, d)
    <3>1. Row(d.ids, Around(v.dest_id, v.index, v.ids), v.ids) /\ v.index <= v.ids
      BY <2>1, Zenon DEF OnePage, Filling
    <3>2. v.index + 1 \in Around(v.dest_id, v.index, v.ids)
      BY <1>1, <3>1 DEF Around
    <3> QED BY <3>1, <3>2
  <2>2. CASE \E b, to : TwoPages(v, d, b, to)
    <3>1. Row(d.ids, v.index + 1 .. v.ids, v.ids) /\ v.index <= v.ids
      BY <2>2, Zenon DEF TwoPages, Filling
    <3>2. v.index + 1 \in v.index + 1 .. v.ids
      BY <1>1, <3>1
    <3> QED BY <3>1, <3>2
  <2> QED BY <2>1, <2>2
<1> QED BY <1>1, <1>2, RowFacts

LocalsMoved(u, v, i, n, end) ==
    u = [v EXCEPT !.index = i, !.dest_id = n, !.dest_data = end, !.age = 0]

LEMMA LocalsMove ==
    ASSUME NEW v \in VacuumLocals, NEW i \in Nat, NEW n \in Nat, NEW end \in Nat,
           NEW u, LocalsMoved(u, v, i, n, end)
    PROVE  IsAt(u, v, v.started, i, n, end) /\ Stays(u, v)
  BY DEF LocalsMoved, IsAt, Stays, VacuumLocals

LEMMA AfterMoveFacts ==
    ASSUME vac \in VacuumLocals, vac.started, SourceId \in ItemId, NEW n \in Nat, NEW end \in Nat,
           EntrySize(SourceId.size) <= end - n, NEW id, id = MovedId(SourceId, end)
    PROVE  /\ id.offset \in Nat
           /\ IsAt(AfterMove(n, end), vac, TRUE, vac.index + 1, n + 1, id.offset)
           /\ Stays(AfterMove(n, end), vac)
<1>1. PICK z \in Nat : z = SourceId.size
  BY DEF ItemId
<1>2. id.offset = end - z
  <2>1. PICK old \in ItemId, e \in Int : old = SourceId /\ e = end
    OBVIOUS
  <2>2. id = MovedId(old, e) /\ old.size = z
    BY <1>1, <2>1
  <2>3. id.offset = e - z
    BY <2>2, MovedIdFacts
  <2> QED BY <2>1, <2>3
<1>3. id.offset \in Nat
  BY <1>1, <1>2 DEF EntrySize
<1>4. AfterMove(n, end) = [vac EXCEPT !.index = @ + 1, !.dest_id = n + 1,
                                      !.dest_data = id.offset, !.age = 0]
  BY <1>1, <1>2 DEF AfterMove
<1>5. PICK v \in VacuumLocals : v = vac
  OBVIOUS
<1>6. PICK i \in Nat : i = v.index + 1
  BY LocalsNat
<1>7. PICK m \in Nat : m = n + 1
  OBVIOUS
<1>8. PICK o \in Nat : o = id.offset
  BY <1>3
<1>9. LocalsMoved(AfterMove(n, end), v, i, m, o)
  BY <1>4, <1>5, <1>6, <1>7, <1>8 DEF LocalsMoved
<1>10. v.started = TRUE
  BY <1>5 DEF VacuumLocals
<1>11. /\ IsAt(AfterMove(n, end), v, TRUE, i, m, o) /\ Stays(AfterMove(n, end), v)
  BY <1>9, <1>10, LocalsMove
<1> QED BY <1>3, <1>5, <1>11, <1>6, <1>7, <1>8

(* An item moves to the place behind those the destination holds.          *)
LEMMA VacuumMovesStep == ASSUME IInv, VacuumMoves PROVE IInv'
<1>1. /\ VacuumItem /\ vac.started /\ ~SourceId.deleted
      /\ EntrySize(SourceId.size) <= vac.dest_data - vac.dest_id
      /\ data' = Moved(data, vac.dest, vac.dest_id, vac.dest_data)
      /\ vac' = AfterMove(vac.dest_id, vac.dest_data)
      /\ UNCHANGED <<sealed, harmed>>
  BY DEF VacuumMoves, HasRoom
<1>2. /\ vac.index # vac.ids
      /\ data \in [PG!Pages -> Page] /\ vac \in VacuumLocals
      /\ vac.index \in Nat /\ vac.dest_id \in Nat /\ vac.dest_data \in Nat
      /\ Listed(chain[group], group, header) /\ header \in [PG!Pages -> PG!PageHeader]
  BY <1>1, ItemPlace
<1>3. PICK kd, ks : VacuumAt(vac, chain[group], data, sealed, header, kd, ks)
  BY <1>1, ItemPlace
<1>4. PICK p \in PG!Pages, q \in PG!Pages : p = vac.src /\ q = vac.dest
  BY <1>2, <1>3, PlacesOf
<1>5. /\ p = chain[group][ks] /\ q = chain[group][kd] /\ data[p] \in Page /\ data[q] \in Page
      /\ (kd # ks => p # q) /\ kd \in Nat /\ ks \in Nat
  BY <1>2, <1>3, <1>4, PlacesOf
<1>6. \/ kd = ks /\ OnePage(vac, data[p])
      \/ kd < ks /\ TwoPages(vac, data[p], p \in sealed, data[q])
  BY <1>1, <1>3, <1>5 DEF VacuumAt, Searching
<1>7. SourceId = data[p].ids[vac.index + 1]
  BY <1>4 DEF SourceId
<1>8. SourceId \in ItemId
  BY <1>2, <1>5, <1>6, <1>7, ReadsItem
<1>9. PICK n \in Nat, end \in Nat : n = vac.dest_id /\ end = vac.dest_data
  BY <1>2
<1>10. PICK id : id = MovedId(SourceId, end)
  OBVIOUS
<1>11. /\ id.offset \in Nat
       /\ IsAt(vac', vac, TRUE, vac.index + 1, n + 1, id.offset) /\ Stays(vac', vac)
  <2>1. vac' = AfterMove(n, end) /\ EntrySize(SourceId.size) <= end - n
    BY <1>1, <1>9
  <2> QED BY <1>1, <1>2, <1>8, <1>10, <2>1, AfterMoveFacts
<1>12. vac' \in VacuumLocals /\ data' = Moved(data, q, n, end)
  BY <1>1, <1>4, <1>9, <1>11 DEF IsAt
<1>13. CASE kd = ks /\ OnePage(vac, data[p])
  <2> DEFINE e == TurnedOver(data[p], vac.index, n, id)
  <2>1. p = q
    BY <1>5, <1>13
  <2>2. data' = [data EXCEPT ![p] = e]
    <3>1. OneChanged(Moved(data, p, n, end), data, p,
                     TurnedOver(data[p], vac.index, n, MovedId(SourceId, end)))
      BY <1>2, <1>4, MovedInPlace
    <3> QED BY <1>10, <1>12, <2>1, <3>1 DEF OneChanged
  <2>3. e \in Page /\ OnePage(vac', e) /\ 2 * e.item_amount <= Capacity
    <3>1. /\ id = MovedId(data[p].ids[vac.index + 1], end)
          /\ ~data[p].ids[vac.index + 1].deleted
      BY <1>1, <1>7, <1>10
    <3> QED BY <1>2, <1>5, <1>9, <1>11, <1>13, <3>1, OnePageMoves
  <2> HIDE DEF e
  <2>4. /\ data' \in [PG!Pages -> Page] /\ data'[p] = e
        /\ \A o \in PG!Pages : o # p => data'[o] = data[o]
    BY <1>2, <2>2, <2>3
  <2>5. Works(vac', chain[group], data', sealed, kd, ks)
    BY <1>5, <1>13, <2>3, <2>4 DEF Works
  <2> QED BY <1>1, <1>3, <1>4, <1>11, <1>12, <2>1, <2>3, <2>4, <2>5, VacuumWorks
<1>14. CASE kd < ks /\ TwoPages(vac, data[p], p \in sealed, data[q])
  <2> DEFINE x == TakenFrom(data[p], vac.index, id)
             e == PutInto(data[q], n, id)
  <2>1. p # q
    BY <1>5, <1>14
  <2>2. data' = [data EXCEPT ![p] = x, ![q] = e]
    <3>1. TwoChanged(Moved(data, q, n, end), data,
                     p, TakenFrom(data[p], vac.index, MovedId(SourceId, end)),
                     q, PutInto(data[q], n, MovedId(SourceId, end)))
      BY <1>2, <1>4, <2>1, MovedAway
    <3> QED BY <1>10, <1>12, <3>1 DEF TwoChanged
  <2>3. CanMoveOver(vac, data[p], data[q], n, end)
    <3>1. CanMoveOver(vac, data[p], data[q], vac.dest_id, vac.dest_data)
      BY <1>1, <1>2, <1>7, <1>14, TwoPagesCanMove
    <3> QED BY <1>9, <3>1
  <2>4. /\ x \in Page /\ e \in Page /\ TwoPages(vac', x, p \in sealed, e)
        /\ 2 * e.item_amount <= Capacity /\ 2 * x.item_amount <= Capacity
    <3>1. id = MovedId(data[p].ids[vac.index + 1], end)
      BY <1>7, <1>10
    <3> QED BY <1>2, <1>5, <1>11, <2>3, <3>1, OverMoves
  <2> HIDE DEF x, e
  <2>5. /\ data' \in [PG!Pages -> Page] /\ data'[p] = x /\ data'[q] = e
        /\ \A o \in PG!Pages : o # p /\ o # q => data'[o] = data[o]
    BY <1>2, <2>1, <2>2, <2>4
  <2>6. Works(vac', chain[group], data', sealed, kd, ks)
    BY <1>5, <1>14, <2>4, <2>5 DEF Works
  <2> QED BY <1>1, <1>3, <1>4, <1>11, <1>12, <2>4, <2>5, <2>6, VacuumWorks
<1> QED BY <1>6, <1>13, <1>14

(* The destination is closed.                                              *)
LEMMA ClosedPages ==
    ASSUME data \in [PG!Pages -> Page], vac.dest \in PG!Pages,
           vac.dest_id \in 0 .. Capacity, vac.dest_data \in 0 .. Capacity
    PROVE  /\ Closed \in [PG!Pages -> Page]
           /\ IsClosed(Closed[vac.dest], data[vac.dest], vac.dest_id, vac.dest_data)
           /\ \A o \in PG!Pages : o # vac.dest => Closed[o] = data[o]
<1> DEFINE q == vac.dest
           d == data[q]
           e == ClosedPage(d, vac.dest_id, vac.dest_data)
<1>1. d \in Page
  OBVIOUS
<1>2. Closed = [data EXCEPT ![q] = e]
  BY DEF Closed, ClosedPage
<1>3. IsClosed(e, d, vac.dest_id, vac.dest_data)
  BY <1>1, ClosedFacts
<1>4. e \in Page
  BY <1>3 DEF IsClosed
<1> HIDE DEF e
<1> QED BY <1>2, <1>3, <1>4

LEMMA FilledBounds ==
    ASSUME NEW v \in VacuumLocals, NEW d, Filling(v, d)
    PROVE  v.dest_id \in 0 .. Capacity /\ v.dest_data \in 0 .. Capacity
<1>1. v.dest_data <= Capacity /\ v.dest_id + v.dest_data <= Capacity
  BY DEF Filling
<1> QED BY <1>1, LocalsNat, DataAssumption

(* Vacuum goes on behind it.                                               *)
GoesBehind(s, g, h, d, v, sl, kd, ks, c, ml, kn, e, u) ==
    /\ Listed(s, g, h) /\ h \in [PG!Pages -> PG!PageHeader] /\ d \in [PG!Pages -> Page]
    /\ VacuumAt(v, s, d, sl, h, kd, ks) /\ kd < ks /\ kd \in Nat /\ ks \in Nat
    /\ \A p \in PG!Pages : p # s[kd] => c[p] = d[p] /\ (p \in ml <=> p \in sl)
    /\ Tidy(c[s[kd]], s[kd] \in ml, kd = 1) /\ Reclaimed(c[s[kd]], s[kd] \in ml)
    /\ kn = kd + 1
    /\ \A p \in PG!Pages : p # s[ks] /\ p # s[kn] => e[p] = c[p]
    /\ u.src = s[ks] /\ u.src_next = v.src_next /\ u.dest = s[kn]
    /\ u.dest_next = h[s[kn]].next /\ Works(u, s, e, ml, kn, ks)

LEMMA PlaceBehind ==
    ASSUME NEW s, NEW g, NEW h, NEW d, NEW v, NEW sl, NEW kd, NEW ks, NEW c, NEW ml,
           NEW kn, NEW e, NEW u, GoesBehind(s, g, h, d, v, sl, kd, ks, c, ml, kn, e, u)
    PROVE  VacuumAt(u, s, e, ml, h, kn, ks)
<1> USE DEF GoesBehind
<1>1. /\ kd \in 1 .. Len(s) /\ ks \in 1 .. Len(s) /\ kd <= ks /\ Len(s) \in Nat
      /\ kd \in Nat /\ ks \in Nat /\ v.src = s[ks] /\ v.dest = s[kd]
      /\ v.src_next = h[s[ks]].next
  BY PlacesOf
<1>2. /\ InFront(s, d, sl, kd - 1) /\ Behind(s, d, sl, ks) /\ Emptied(s, d, kd + 1, ks - 1)
  BY DEF VacuumAt
<1>3. \A j \in 1 .. Len(s) : j # kd =>
         c[s[j]] = d[s[j]] /\ (s[j] \in ml <=> s[j] \in sl)
  <2> SUFFICES ASSUME NEW j \in 1 .. Len(s), j # kd
               PROVE  c[s[j]] = d[s[j]] /\ (s[j] \in ml <=> s[j] \in sl)
    OBVIOUS
  <2>1. s[j] \in PG!Pages /\ s[j] # s[kd]
    BY <1>1 DEF Listed, IsInjective
  <2> QED BY <2>1
<1>4. \A j \in 1 .. Len(s) : j # kn /\ j # ks => e[s[j]] = c[s[j]]
  <2> SUFFICES ASSUME NEW j \in 1 .. Len(s), j # kn, j # ks PROVE e[s[j]] = c[s[j]]
    OBVIOUS
  <2>1. kn \in 1 .. Len(s)
    BY <1>1
  <2>2. s[j] \in PG!Pages /\ s[j] # s[kn] /\ s[j] # s[ks]
    BY <1>1, <2>1 DEF Listed, IsInjective
  <2> QED BY <2>2
<1>5. InFront(s, e, ml, kn - 1)
  <2> SUFFICES ASSUME NEW j \in 1 .. kd
               PROVE  Tidy(e[s[j]], s[j] \in ml, j = 1) /\ Reclaimed(e[s[j]], s[j] \in ml)
    BY <1>1 DEF InFront
  <2>1. j \in 1 .. Len(s) /\ e[s[j]] = c[s[j]]
    BY <1>1, <1>4
  <2>2. CASE j = kd
    BY <2>1, <2>2
  <2>3. CASE j # kd
    <3>1. j \in 1 .. kd - 1 /\ c[s[j]] = d[s[j]] /\ (s[j] \in ml <=> s[j] \in sl)
      BY <1>1, <1>3, <2>1, <2>3
    <3> QED BY <1>2, <2>1, <3>1 DEF InFront, Tidy, Reclaimed
  <2> QED BY <2>2, <2>3
<1>6. Behind(s, e, ml, ks)
  <2> SUFFICES ASSUME NEW j \in ks + 1 .. Len(s) PROVE Tidy(e[s[j]], s[j] \in ml, FALSE)
    BY DEF Behind
  <2>1. j \in 1 .. Len(s) /\ j # kn /\ j # ks /\ j # kd
    BY <1>1
  <2>2. e[s[j]] = d[s[j]] /\ (s[j] \in ml <=> s[j] \in sl)
    BY <1>3, <1>4, <2>1
  <2> QED BY <1>2, <2>2 DEF Behind, Tidy
<1>7. Emptied(s, e, kn + 1, ks - 1)
  <2> SUFFICES ASSUME NEW j \in kn + 1 .. ks - 1 PROVE e[s[j]].item_amount = 0
    BY DEF Emptied
  <2>1. j \in 1 .. Len(s) /\ j # kn /\ j # ks /\ j # kd /\ j \in kd + 1 .. ks - 1
    BY <1>1
  <2> QED BY <1>2, <1>3, <1>4, <2>1 DEF Emptied
<1>8. Position(u, s, h, kn, ks)
  <2>1. kn \in 1 .. Len(s) /\ ks \in kn .. Len(s)
    BY <1>1
  <2> QED BY <1>1, <2>1 DEF Position
<1> QED BY <1>5, <1>6, <1>7, <1>8 DEF VacuumAt, Works
-----------------------------------------------------------------------------
(* The item turns back to the front of its own page, ...                   *)
LEMMA TurnsBackIn ==
    ASSUME NEW v \in VacuumLocals, NEW d \in Page, NEW b, NEW to, TwoPages(v, d, b, to),
           v.index # v.ids, v.index # 0, ~d.ids[v.index + 1].deleted,
           NEW n, n = 0, NEW id, id = MovedId(d.ids[v.index + 1], Capacity),
           NEW u, IsAt(u, v, TRUE, v.index + 1, n + 1, id.offset)
    PROVE  IsMovedWithin(u, TurnedOver(d, v.index, n, id), v, d, n, v.index, v.ids, Capacity, id)
<1> DEFINE e == TurnedOver(d, v.index, n, id)
           m == v.index
           k == v.ids
           w == [d.ids EXCEPT ![m + 1] = id]
           t == Written(w, n + 1, id, id.size)
<1>1. /\ m \in Nat /\ k \in Nat /\ n \in Nat /\ d.ids \in IdList /\ Capacity \in Nat \ {0}
      /\ m # k /\ m # 0 /\ Capacity \in Int
  BY LocalsNat, DataAssumption DEF Page
<1>2. /\ m <= k /\ 2 * k <= Capacity /\ Row(d.ids, m + 1 .. k, k) /\ d.item_amount = k - m
  BY Zenon DEF TwoPages, Filling
<1>3. /\ ~d.ids[m + 1].deleted /\ id = MovedId(d.ids[m + 1], Capacity)
      /\ e = [d EXCEPT !.ids = t] /\ IsAt(u, v, TRUE, m + 1, n + 1, id.offset) /\ v.ids = k
  BY DEF TurnedOver
<1> HIDE DEF m, k, w, t, e
<1>4. m + 1 \in m + 1 .. k /\ m < k /\ n < m
  BY <1>1, <1>2
<1>5. m + 1 \in 1 .. Len(d.ids) /\ d.ids[m + 1] \in ItemId
  BY <1>1, <1>2, <1>4, RowFacts
<1>6. /\ id \in ItemId /\ id.size = d.ids[m + 1].size /\ id.size \in Nat
      /\ id.offset = Capacity - id.size /\ ~id.deleted
  <2>1. PICK old \in ItemId : old = d.ids[m + 1]
    BY <1>5
  <2>2. id = MovedId(old, Capacity) /\ ~old.deleted
    BY <1>3, <2>1
  <2>3. /\ id \in ItemId /\ id.size = old.size /\ id.size \in Nat
        /\ id.offset = Capacity - old.size /\ id.deleted = old.deleted
    BY <1>1, <2>2, MovedIdFacts
  <2> QED BY <2>1, <2>2, <2>3
<1>7. Replaced(w, d.ids, m + 1, id)
  BY <1>1, <1>5, <1>6, ExceptReplaces DEF w
<1>8. IsWritten(t, w, n + 1, id, id.size)
  <2>1. n + 1 \in 1 .. Capacity /\ w \in IdList
    BY <1>1, <1>7 DEF Replaced
  <2> QED BY <1>6, <2>1, WrittenFacts DEF t
<1>9. Movable(d.ids, n, m, k, Capacity, id)
  <2>1. Around(n, m, k) = m + 1 .. k
    BY DEF Around
  <2>2. \A i \in m + 1 .. k : End(d.ids, i) <= Capacity
    BY <1>1, <1>2, RowFacts
  <2>3. Capacity + n <= Capacity /\ k <= Capacity /\ Capacity <= Capacity
    BY <1>1, <1>2
  <2> QED BY <1>2, <1>4, <1>6, <2>1, <2>2, <2>3 DEF Movable
<1>10. d.item_amount = n + k - m /\ NoneDeletedIn(d, n)
  BY <1>1, <1>2 DEF NoneDeletedIn
<1>11. IsMovedWithin(u, e, v, d, n, m, k, Capacity, id)
  BY <1>1, <1>2, <1>3, <1>6, <1>7, <1>8, <1>9, <1>10 DEF IsMovedWithin
<1> QED BY <1>11 DEF e, m, k

LEMMA TurnsBack ==
    ASSUME NEW v \in VacuumLocals, NEW d \in Page, NEW b, NEW to, TwoPages(v, d, b, to),
           v.index # v.ids, v.index # 0, ~d.ids[v.index + 1].deleted,
           NEW n, n = 0, NEW id, id = MovedId(d.ids[v.index + 1], Capacity),
           NEW u, IsAt(u, v, TRUE, v.index + 1, n + 1, id.offset)
    PROVE  LET e == TurnedOver(d, v.index, n, id)
           IN  e \in Page /\ OnePage(u, e) /\ 2 * e.item_amount <= Capacity
<1>1. IsMovedWithin(u, TurnedOver(d, v.index, n, id), v, d, n, v.index, v.ids, Capacity, id)
  BY TurnsBackIn
<1> QED BY <1>1, MovedWithin

(* ... or opens an emptied one.                                            *)
LEMMA CanMoveToEmpty ==
    ASSUME NEW v \in VacuumLocals, NEW d \in Page, NEW b, NEW to, TwoPages(v, d, b, to),
           v.index # v.ids, ~d.ids[v.index + 1].deleted,
           NEW f, f.item_amount = 0, NEW n, n = 0
    PROVE  CanMoveOver(v, d, f, n, Capacity) /\ EntrySize(d.ids[v.index + 1].size) <= Capacity - n
<1>1. v.index \in Nat /\ v.ids \in Nat /\ d.ids \in IdList /\ Capacity \in Nat
  BY LocalsNat, DataAssumption DEF Page
<1>2. /\ v.index <= v.ids /\ 2 * v.ids <= Capacity /\ Row(d.ids, v.index + 1 .. v.ids, v.ids)
      /\ d.item_amount = v.ids - v.index
  BY Zenon DEF TwoPages, Filling
<1>3. v.index < v.ids /\ v.index + 1 \in v.index + 1 .. v.ids
  BY <1>1, <1>2
<1>4. PICK o \in Int, z \in Nat : /\ d.ids[v.index + 1].size = z /\ o >= v.ids
                                  /\ o + z <= Capacity
  <2>1. PICK P, i : P = v.index + 1 .. v.ids /\ i = v.index + 1
    OBVIOUS
  <2>2. Row(d.ids, P, v.ids) /\ i \in P
    BY <1>2, <1>3, <2>1
  <2>3. /\ d.ids[i].offset \in Int /\ d.ids[i].size \in Nat /\ d.ids[i].offset >= v.ids
        /\ d.ids[i].offset + d.ids[i].size <= Capacity
    BY <1>1, <2>2, RowFacts
  <2> QED BY <2>1, <2>3
<1>5. z + 1 <= Capacity - n
  BY <1>1, <1>3, <1>4
<1>6. Row(f.ids, 1 .. n, n) /\ NoneDeletedIn(f, n)
  BY DEF Row, Placed, Ordered, Packed, NoneDeletedIn
<1>7. Capacity + n <= Capacity
  BY <1>1
<1> QED BY <1>2, <1>3, <1>4, <1>5, <1>6, <1>7 DEF CanMoveOver, EntrySize

(* What vacuum has when an item has no room: a filled destination, which   *)
(* is closed, and a page r behind it, emptied unless it is the source.     *)
NoRoomAt(kd, ks, kn, p, q, r) ==
    /\ kd \in Nat /\ ks \in Nat /\ kn \in Nat /\ kn = kd + 1 /\ kd < ks /\ kn <= ks
    /\ VacuumAt(vac, chain[group], data, sealed, header, kd, ks)
    /\ p \in PG!Pages /\ q \in PG!Pages /\ r \in PG!Pages /\ p # q /\ r # q
    /\ p \in PagesOf(group) /\ q \in PagesOf(group) /\ r \in PagesOf(group)
    /\ p = chain[group][ks] /\ q = chain[group][kd] /\ r = chain[group][kn]
    /\ vac.src = p /\ vac.dest = q /\ vac.dest_next = r
    /\ IF kn = ks THEN r = p ELSE r # p /\ data[r].item_amount = 0
    /\ TwoPages(vac, data[p], p \in sealed, data[q])
    /\ SourceId = data[p].ids[vac.index + 1] /\ SourceId \in ItemId
ClosedAt(kd, q) ==
    /\ Closed \in [PG!Pages -> Page]
    /\ \A o \in PG!Pages : o # q => Closed[o] = data[o]
    /\ sealed' = sealed \ {q} /\ harmed' \in BOOLEAN
    /\ Tidy(Closed[q], q \in sealed', kd = 1) /\ Reclaimed(Closed[q], q \in sealed')
    /\ Closed[q].item_amount = data[q].item_amount

LEMMA DestIsClosed ==
    ASSUME CloseDest, data \in [PG!Pages -> Page], vac \in VacuumLocals,
           NEW q \in PG!Pages, q = vac.dest, Filled(vac, data[q]), NEW kd
    PROVE  ClosedAt(kd, q)
<1>1. Filling(vac, data[q]) /\ data[q].item_amount = vac.dest_id
  BY Zenon DEF Filled
<1>2. /\ Closed \in [PG!Pages -> Page]
      /\ IsClosed(Closed[q], data[q], vac.dest_id, vac.dest_data)
      /\ \A o \in PG!Pages : o # q => Closed[o] = data[o]
  <2>1. vac.dest_id \in 0 .. Capacity /\ vac.dest_data \in 0 .. Capacity
    BY <1>1, FilledBounds
  <2> QED BY <2>1, ClosedPages
<1>3. sealed' = sealed \ {q} /\ harmed' \in BOOLEAN
  BY <1>1 DEF CloseDest
<1>4. Tidy(Closed[q], FALSE, kd = 1) /\ NoneDeletedIn(Closed[q], Closed[q].item_amount)
  BY <1>2, ClosedFilled
<1>5. Tidy(Closed[q], q \in sealed', kd = 1) /\ Reclaimed(Closed[q], q \in sealed')
  BY <1>3, <1>4 DEF Tidy, Reclaimed
<1>6. Closed[q].item_amount = data[q].item_amount
  BY <1>2 DEF IsClosed
<1> QED BY <1>2, <1>3, <1>5, <1>6 DEF ClosedAt

LEMMA NoRoomFacts ==
    ASSUME IInv, NoRoom
    PROVE  \E kd, ks, kn, p, q, r : NoRoomAt(kd, ks, kn, p, q, r) /\ ClosedAt(kd, q)
<1>1. /\ VacuumItem /\ vac.started /\ ~SourceId.deleted
      /\ ~(EntrySize(SourceId.size) <= vac.dest_data - vac.dest_id) /\ CloseDest
  BY DEF NoRoom, HasRoom
<1>2. /\ vac.index # vac.ids
      /\ data \in [PG!Pages -> Page] /\ vac \in VacuumLocals
      /\ Listed(chain[group], group, header) /\ header \in [PG!Pages -> PG!PageHeader]
  BY <1>1, ItemPlace
<1>3. PICK kd, ks : VacuumAt(vac, chain[group], data, sealed, header, kd, ks)
  BY <1>1, ItemPlace
<1>4. PICK p \in PG!Pages, q \in PG!Pages : p = vac.src /\ q = vac.dest
  BY <1>2, <1>3, PlacesOf
<1>5. /\ p = chain[group][ks] /\ q = chain[group][kd] /\ data[p] \in Page /\ data[q] \in Page
      /\ (kd # ks => p # q) /\ kd \in Nat /\ ks \in Nat /\ kd <= ks
      /\ p \in PagesOf(group) /\ q \in PagesOf(group)
      /\ kd \in 1 .. Len(chain[group]) /\ ks \in 1 .. Len(chain[group])
      /\ Len(chain[group]) \in Nat
      /\ vac.dest_next = IF kd = Len(chain[group]) THEN NULL ELSE chain[group][kd + 1]
  BY <1>2, <1>3, <1>4, PlacesOf DEF PagesOf
<1>6. SourceId = data[p].ids[vac.index + 1]
  BY <1>4 DEF SourceId
<1>7. kd < ks /\ TwoPages(vac, data[p], p \in sealed, data[q])
  <2>1. \/ kd = ks /\ OnePage(vac, data[p])
        \/ kd < ks /\ TwoPages(vac, data[p], p \in sealed, data[q])
    BY <1>1, <1>3, <1>5 DEF VacuumAt, Searching
  <2>2. ~OnePage(vac, data[p])
    BY <1>1, <1>2, <1>5, <1>6, OnePageHasRoom
  <2> QED BY <2>1, <2>2
<1>8. SourceId \in ItemId
  BY <1>2, <1>5, <1>6, <1>7, ReadsItem
<1>9. PICK kn \in Nat : kn = kd + 1
  BY <1>5
<1>10. kn \in 1 .. Len(chain[group]) /\ kn <= ks /\ kd # Len(chain[group]) /\ kd # kn
  BY <1>5, <1>7, <1>9
<1>11. PICK r \in PG!Pages : r = chain[group][kn]
  BY <1>2, <1>10 DEF Listed
<1>12. /\ r \in PagesOf(group) /\ r # q /\ (kn # ks => r # p)
  BY <1>2, <1>5, <1>10, <1>11 DEF Listed, IsInjective, PagesOf, Range
<1>13. kn # ks => data[r].item_amount = 0
  <2>1. kn # ks => kn \in kd + 1 .. ks - 1
    BY <1>5, <1>9, <1>10
  <2> QED BY <1>3, <1>11, <2>1 DEF VacuumAt, Emptied
<1>14. vac.dest_next = r /\ p # q
  BY <1>5, <1>7, <1>9, <1>10, <1>11
<1>15. NoRoomAt(kd, ks, kn, p, q, r)
  BY <1>3, <1>4, <1>5, <1>6, <1>7, <1>8, <1>9, <1>10, <1>11, <1>12, <1>13, <1>14 DEF NoRoomAt
<1>16. ClosedAt(kd, q)
  <2>1. Filled(vac, data[q])
    BY <1>2, <1>7, TwoPagesDone
  <2> QED BY <1>1, <1>2, <1>4, <2>1, DestIsClosed
<1> QED BY <1>15, <1>16

(* Vacuum goes on at the page behind the closed one.                       *)
LEMMA VacuumAtNext ==
    ASSUME IInv, NoRoom, NEW kd, NEW ks, NEW kn, NEW p, NEW q, NEW r,
           NoRoomAt(kd, ks, kn, p, q, r), ClosedAt(kd, q),
           vac' \in VacuumLocals, vac'.src = vac.src, vac'.src_next = vac.src_next,
           vac'.dest = r, vac'.dest_next = header[r].next,
           data' \in [PG!Pages -> Page],
           \A o \in PG!Pages : o # p /\ o # r => data'[o] = Closed[o],
           2 * data'[p].item_amount <= Capacity, 2 * data'[r].item_amount <= Capacity,
           Works(vac', chain[group], data', sealed', kn, ks)
    PROVE  IInv'
<1>1. /\ Vacuuming /\ UNCHANGED <<groupVars, control, scanning, rows>>
  BY DEF NoRoom, VacuumItem
<1>2. /\ Kinds /\ Half /\ Listed(chain[group], group, header)
      /\ data \in [PG!Pages -> Page] /\ header \in [PG!Pages -> PG!PageHeader]
  BY <1>1, VacuumFacts
<1>3. /\ VacuumAt(vac, chain[group], data, sealed, header, kd, ks)
      /\ kd \in Nat /\ kn \in Nat /\ ks \in Nat /\ kd < ks /\ kn = kd + 1
      /\ p = chain[group][ks] /\ q = chain[group][kd] /\ r = chain[group][kn]
      /\ vac.src = p
      /\ p \in PG!Pages /\ q \in PG!Pages /\ r \in PG!Pages
      /\ p \in PagesOf(group) /\ q \in PagesOf(group) /\ r \in PagesOf(group)
  BY DEF NoRoomAt
<1>4. /\ \A o \in PG!Pages : o # q => Closed[o] = data[o] /\ (o \in sealed' <=> o \in sealed)
      /\ Tidy(Closed[q], q \in sealed', kd = 1) /\ Reclaimed(Closed[q], q \in sealed')
      /\ Closed[q].item_amount = data[q].item_amount
      /\ sealed' = sealed \ {q} /\ harmed' \in BOOLEAN
  BY DEF ClosedAt
<1>5. VacuumAt(vac', chain[group], data', sealed', header, kn, ks)
  <2> DEFINE s == chain[group]
  <2>1. \A o \in PG!Pages : o # s[kd] => Closed[o] = data[o] /\ (o \in sealed' <=> o \in sealed)
    BY <1>3, <1>4
  <2>2. /\ Tidy(Closed[s[kd]], s[kd] \in sealed', kd = 1)
        /\ Reclaimed(Closed[s[kd]], s[kd] \in sealed')
    BY <1>3, <1>4
  <2>3. \A o \in PG!Pages : o # s[ks] /\ o # s[kn] => data'[o] = Closed[o]
    BY <1>3
  <2>4. /\ vac'.src = s[ks] /\ vac'.src_next = vac.src_next /\ vac'.dest = s[kn]
        /\ vac'.dest_next = header[s[kn]].next
    BY <1>3
  <2> HIDE DEF s
  <2>5. Listed(s, group, header) /\ VacuumAt(vac, s, data, sealed, header, kd, ks)
        /\ Works(vac', s, data', sealed', kn, ks)
    BY <1>2, <1>3 DEF s
  <2>6. VacuumAt(vac', s, data', sealed', header, kn, ks)
    <3>1. PICK c : c = Closed
      OBVIOUS
    <3>2. PICK ml : ml = sealed'
      OBVIOUS
    <3>3. PICK e : e = data'
      OBVIOUS
    <3>4. PICK u : u = vac'
      OBVIOUS
    <3>5. Tidy(c[s[kd]], s[kd] \in ml, kd = 1) /\ Reclaimed(c[s[kd]], s[kd] \in ml)
      BY <2>2, <3>1, <3>2 DEF Tidy, Reclaimed
    <3>6. GoesBehind(s, group, header, data, vac, sealed, kd, ks, c, ml, kn, e, u)
      <4>1. \A o \in PG!Pages : o # s[kd] => c[o] = data[o] /\ (o \in ml <=> o \in sealed)
        BY <2>1, <3>1, <3>2
      <4>2. \A o \in PG!Pages : o # s[ks] /\ o # s[kn] => e[o] = c[o]
        BY <2>3, <3>1, <3>3
      <4>3. Works(u, s, e, ml, kn, ks)
        BY <2>5, <3>2, <3>3, <3>4
      <4>4. /\ u.src = s[ks] /\ u.src_next = vac.src_next /\ u.dest = s[kn]
            /\ u.dest_next = header[s[kn]].next
        BY <2>4, <3>4
      <4> QED BY <1>2, <1>3, <2>5, <3>5, <4>1, <4>2, <4>3, <4>4 DEF GoesBehind
    <3>7. VacuumAt(u, s, e, ml, header, kn, ks)
      BY <3>6, PlaceBehind
    <3> QED BY <3>2, <3>3, <3>4, <3>7
  <2> QED BY <2>6 DEF s
<1>6. Half'
  <2> SUFFICES ASSUME NEW o \in PG!Pages PROVE 2 * data'[o].item_amount <= Capacity
    BY DEF Half
  <2>1. 2 * data[o].item_amount <= Capacity
    BY <1>2 DEF Half
  <2> QED BY <1>4, <2>1
<1>7. \A o \in PG!Pages \ PagesOf(group) : data'[o] = data[o] /\ (o \in sealed' <=> o \in sealed)
  BY <1>3, <1>4
<1>8. sealed' \subseteq PG!Pages
  BY <1>2, <1>4 DEF Kinds
<1> QED BY <1>1, <1>3, <1>4, <1>5, <1>6, <1>7, <1>8, VacuumGoesOn

(* The item opens the page behind the filled destination: its own, behind  *)
(* items that were deleted or moved, or an emptied one.                    *)
LEMMA VacuumMovesOnStep == ASSUME IInv, VacuumMovesOn PROVE IInv'
<1>1. NoRoom /\ ~StaysFirst /\ VacuumItem /\ vac.started /\ ~SourceId.deleted
  BY DEF VacuumMovesOn, NoRoom
<1>2. PICK kd, ks, kn, p, q, r : NoRoomAt(kd, ks, kn, p, q, r) /\ ClosedAt(kd, q)
  BY <1>1, NoRoomFacts
<1>3. /\ vac.index # vac.ids /\ data \in [PG!Pages -> Page] /\ vac \in VacuumLocals
      /\ vac.index \in Nat
      /\ Listed(chain[group], group, header) /\ header \in [PG!Pages -> PG!PageHeader]
  BY <1>1, ItemPlace
<1>4. /\ p \in PG!Pages /\ q \in PG!Pages /\ r \in PG!Pages /\ p # q /\ r # q
      /\ p = chain[group][ks] /\ r = chain[group][kn]
      /\ vac.src = p /\ vac.dest = q /\ vac.dest_next = r
      /\ kn \in Nat /\ ks \in Nat /\ kn <= ks
      /\ IF kn = ks THEN r = p ELSE r # p /\ data[r].item_amount = 0
      /\ TwoPages(vac, data[p], p \in sealed, data[q])
      /\ SourceId = data[p].ids[vac.index + 1] /\ SourceId \in ItemId
  BY <1>2 DEF NoRoomAt
<1>5. /\ Closed \in [PG!Pages -> Page] /\ Closed[p] = data[p] /\ Closed[r] = data[r]
      /\ data[p] \in Page /\ data[r] \in Page
  BY <1>2, <1>3, <1>4 DEF ClosedAt
<1>6. PICK n \in Nat, end \in Nat : n = 0 /\ end = Capacity
  BY DataAssumption
<1>7. PICK id : id = MovedId(SourceId, end)
  OBVIOUS
<1>8. EntrySize(SourceId.size) <= end - n
  <2>1. PICK f : f = [item_amount |-> 0]
    OBVIOUS
  <2>2. f.item_amount = 0
    BY <2>1
  <2>3. EntrySize(data[p].ids[vac.index + 1].size) <= Capacity - n
    BY <1>1, <1>3, <1>4, <1>5, <1>6, <2>2, CanMoveToEmpty
  <2> QED BY <1>4, <1>6, <2>3
<1>9. /\ id.offset \in Nat
      /\ IsAt(AfterMove(n, end), vac, TRUE, vac.index + 1, n + 1, id.offset)
      /\ Stays(AfterMove(n, end), vac)
  BY <1>1, <1>3, <1>4, <1>7, <1>8, AfterMoveFacts
<1>10. /\ IsAt(vac', vac, TRUE, vac.index + 1, n + 1, id.offset)
       /\ vac'.src = vac.src /\ vac'.src_next = vac.src_next
       /\ vac'.dest = r /\ vac'.dest_next = header[r].next
  <2>1. PICK rn : rn = header[r].next
    OBVIOUS
  <2>2. r \in PG!PageIds /\ rn \in PG!PageIds
    BY <1>3, <1>4, <2>1, PageNumbers DEF PG!PageHeader
  <2>3. PICK y : y = AfterMove(n, end)
    OBVIOUS
  <2>4. /\ OnNextDest.dest = r /\ OnNextDest.dest_next = rn
    BY <1>3, <1>4, <2>1 DEF OnNextDest, VacuumLocals
  <2>5. vac' = [y EXCEPT !.dest = r, !.dest_next = rn]
    BY <1>6, <2>3, <2>4 DEF VacuumMovesOn
  <2>6. PICK i, m, o : i = vac.index + 1 /\ m = n + 1 /\ o = id.offset
    OBVIOUS
  <2>7. IsAt(y, vac, TRUE, i, m, o) /\ Stays(y, vac)
    BY <1>9, <2>3, <2>6
  <2>8. /\ IsAt(vac', vac, TRUE, i, m, o)
        /\ vac'.src = vac.src /\ vac'.src_next = vac.src_next
        /\ vac'.dest = r /\ vac'.dest_next = rn
    BY <2>2, <2>5, <2>7 DEF IsAt, Stays, VacuumLocals
  <2> QED BY <2>1, <2>6, <2>8
<1>11. vac' \in VacuumLocals /\ data' = Moved(Closed, r, n, end)
  BY <1>4, <1>6, <1>10 DEF IsAt, VacuumMovesOn
<1>12. CASE kn = ks
  <2> DEFINE e == TurnedOver(data[p], vac.index, n, id)
  <2>1. p = r /\ vac.index # 0
    BY <1>1, <1>4, <1>12 DEF StaysFirst
  <2>2. data' = [Closed EXCEPT ![p] = e]
    <3>1. OneChanged(Moved(Closed, p, n, end), Closed, p,
                     TurnedOver(Closed[p], vac.index, n, MovedId(SourceId, end)))
      BY <1>4, <1>5, MovedInPlace
    <3> QED BY <1>5, <1>7, <1>11, <2>1, <3>1 DEF OneChanged
  <2>3. e \in Page /\ OnePage(vac', e) /\ 2 * e.item_amount <= Capacity
    <3>1. /\ id = MovedId(data[p].ids[vac.index + 1], Capacity)
          /\ ~data[p].ids[vac.index + 1].deleted
      BY <1>1, <1>4, <1>6, <1>7
    <3> QED BY <1>3, <1>4, <1>5, <1>6, <1>10, <2>1, <3>1, TurnsBack
  <2> HIDE DEF e
  <2>4. /\ data' \in [PG!Pages -> Page] /\ data'[p] = e
        /\ \A o \in PG!Pages : o # p /\ o # r => data'[o] = Closed[o]
    BY <1>4, <1>5, <2>2, <2>3
  <2>5. Works(vac', chain[group], data', sealed', kn, ks)
    BY <1>4, <1>12, <2>1, <2>3, <2>4 DEF Works
  <2> QED BY <1>1, <1>2, <1>10, <1>11, <2>1, <2>3, <2>4, <2>5, VacuumAtNext
<1>13. CASE kn # ks
  <2> DEFINE x == TakenFrom(data[p], vac.index, id)
             e == PutInto(data[r], n, id)
  <2>1. p # r /\ kn < ks /\ data[r].item_amount = 0
    BY <1>4, <1>13
  <2>2. data' = [Closed EXCEPT ![p] = x, ![r] = e]
    <3>1. TwoChanged(Moved(Closed, r, n, end), Closed,
                     p, TakenFrom(Closed[p], vac.index, MovedId(SourceId, end)),
                     r, PutInto(Closed[r], n, MovedId(SourceId, end)))
      BY <1>4, <1>5, <2>1, MovedAway
    <3> QED BY <1>5, <1>7, <1>11, <3>1 DEF TwoChanged
  <2>3. CanMoveOver(vac, data[p], data[r], n, end)
    <3>1. CanMoveOver(vac, data[p], data[r], n, Capacity)
      BY <1>1, <1>3, <1>4, <1>5, <1>6, <2>1, CanMoveToEmpty
    <3> QED BY <1>6, <3>1
  <2>4. /\ x \in Page /\ e \in Page /\ TwoPages(vac', x, p \in sealed', e)
        /\ 2 * e.item_amount <= Capacity /\ 2 * x.item_amount <= Capacity
    <3>1. id = MovedId(data[p].ids[vac.index + 1], end)
      BY <1>4, <1>7
    <3> QED BY <1>3, <1>5, <1>10, <2>3, <3>1, OverMoves
  <2> HIDE DEF x, e
  <2>5. /\ data' \in [PG!Pages -> Page] /\ data'[p] = x /\ data'[r] = e
        /\ \A o \in PG!Pages : o # p /\ o # r => data'[o] = Closed[o]
    BY <1>4, <1>5, <2>1, <2>2, <2>4
  <2>6. Works(vac', chain[group], data', sealed', kn, ks)
    BY <1>4, <2>1, <2>4, <2>5 DEF Works
  <2> QED BY <1>1, <1>2, <1>10, <1>11, <2>4, <2>5, <2>6, VacuumAtNext
<1> QED BY <1>12, <1>13

(* It stays where it is, first on the page behind, and vacuum searches on. *)
LEMMA VacuumGivesUpStep == ASSUME IInv, VacuumGivesUp PROVE IInv'
<1>1. NoRoom /\ StaysFirst /\ VacuumItem /\ vac.started /\ ~SourceId.deleted
  BY DEF VacuumGivesUp, NoRoom
<1>2. PICK kd, ks, kn, p, q, r : NoRoomAt(kd, ks, kn, p, q, r) /\ ClosedAt(kd, q)
  BY <1>1, NoRoomFacts
<1>3. /\ vac.index # vac.ids /\ data \in [PG!Pages -> Page] /\ vac \in VacuumLocals
      /\ Half
      /\ Listed(chain[group], group, header) /\ header \in [PG!Pages -> PG!PageHeader]
  BY <1>1, ItemPlace
<1>4. /\ p \in PG!Pages /\ q \in PG!Pages /\ r \in PG!Pages /\ p # q /\ r # q
      /\ p = chain[group][ks] /\ r = chain[group][kn]
      /\ vac.src = p /\ vac.dest = q /\ vac.dest_next = r
      /\ kd \in Nat /\ kn \in Nat /\ ks \in Nat /\ kn <= ks /\ kn = kd + 1
      /\ IF kn = ks THEN r = p ELSE r # p /\ data[r].item_amount = 0
      /\ TwoPages(vac, data[p], p \in sealed, data[q])
      /\ SourceId = data[p].ids[vac.index + 1] /\ SourceId \in ItemId
      /\ VacuumAt(vac, chain[group], data, sealed, header, kd, ks)
  BY <1>2 DEF NoRoomAt
<1>5. /\ Closed \in [PG!Pages -> Page] /\ Closed[p] = data[p]
      /\ data[p] \in Page /\ (p \in sealed' <=> p \in sealed)
  BY <1>2, <1>3, <1>4 DEF ClosedAt
<1>6. kn = ks /\ r = p /\ vac.index = 0
  BY <1>1, <1>4 DEF StaysFirst
<1>7. data' = Closed
  BY DEF VacuumGivesUp
<1>8. /\ IsAt(vac', vac, FALSE, 1, 0, vac.dest_data)
      /\ vac'.src = vac.src /\ vac'.src_next = vac.src_next
      /\ vac'.dest = r /\ vac'.dest_next = header[r].next
  <2>1. PICK v \in VacuumLocals : v = vac
    BY <1>3
  <2>2. PICK rn : rn = header[r].next
    OBVIOUS
  <2>3. r \in PG!PageIds /\ rn \in PG!PageIds
    BY <1>3, <1>4, <2>2, PageNumbers DEF PG!PageHeader
  <2>4. OnNextDest = [v EXCEPT !.dest = r, !.dest_next = rn, !.dest_id = 0, !.age = 0]
    BY <1>4, <2>1, <2>2 DEF OnNextDest
  <2>5. PICK w \in VacuumLocals :
            /\ w = OnNextDest /\ w.index = 0 /\ w.ids = v.ids /\ w.dest_id = 0
            /\ w.dest_data = v.dest_data /\ w.src = v.src /\ w.src_next = v.src_next
            /\ w.dest = r /\ w.dest_next = rn
    <3>1. OnNextDest \in VacuumLocals
      BY <2>1, <2>3, <2>4 DEF VacuumLocals
    <3>2. /\ OnNextDest.index = 0 /\ OnNextDest.ids = v.ids /\ OnNextDest.dest_id = 0
          /\ OnNextDest.dest_data = v.dest_data /\ OnNextDest.src = v.src
          /\ OnNextDest.src_next = v.src_next
          /\ OnNextDest.dest = r /\ OnNextDest.dest_next = rn
      BY <1>6, <2>1, <2>3, <2>4 DEF VacuumLocals
    <3> QED BY <3>1, <3>2
  <2>6. vac' = [w EXCEPT !.started = FALSE, !.index = 1]
    BY <2>5 DEF VacuumGivesUp
  <2>7. /\ IsAt(vac', v, FALSE, 1, 0, v.dest_data)
        /\ vac'.src = v.src /\ vac'.src_next = v.src_next
        /\ vac'.dest = r /\ vac'.dest_next = rn
    BY <2>6, <2>5 DEF IsAt, VacuumLocals
  <2> QED BY <2>1, <2>2, <2>7
<1>9. Searching(vac', data[p], p \in sealed, kn = 1)
  <2>1. PICK first : first <=> FALSE
    OBVIOUS
  <2>2. ~data[p].ids[1].deleted
    BY <1>1, <1>4, <1>6
  <2>3. Searching(vac', data[p], p \in sealed, first)
    BY <1>3, <1>4, <1>6, <1>8, <2>1, <2>2, SearchingAgain
  <2>4. kn # 1
    <3>1. kd \in 1 .. Len(chain[group])
      BY <1>3, <1>4, PlacesOf
    <3> QED BY <1>3, <1>4, <3>1 DEF Listed
  <2> QED BY <2>1, <2>3, <2>4 DEF Searching, Tidy
<1>10. Works(vac', chain[group], data', sealed', kn, ks)
  <2>1. data'[chain[group][kn]] = data[p]
    BY <1>4, <1>5, <1>6, <1>7
  <2>2. chain[group][kn] \in sealed' <=> p \in sealed
    BY <1>4, <1>5, <1>6
  <2>3. Searching(vac', data'[chain[group][kn]], chain[group][kn] \in sealed', kn = 1)
    BY <1>9, <2>1, <2>2 DEF Searching, Tidy
  <2> QED BY <1>6, <2>3 DEF Works
<1>11. 2 * data'[p].item_amount <= Capacity
  BY <1>3, <1>4, <1>5, <1>7 DEF Half
<1>12. vac' \in VacuumLocals
  BY <1>8 DEF IsAt
<1> QED BY <1>1, <1>2, <1>5, <1>6, <1>7, <1>8, <1>10, <1>11, <1>12, VacuumAtNext

(* Vacuum reads the page at place kn: where it begins, ...                 *)
ReadsPage(u, s, h, d, kn) ==
    /\ u \in VacuumLocals /\ u.src = s[kn] /\ u.src_next = h[s[kn]].next
    /\ u.index = 0 /\ u.ids = d[s[kn]].start
FillsSame(u, v, s, h, d, kn) ==
    /\ ReadsPage(u, s, h, d, kn)
    /\ u.dest = v.dest /\ u.dest_next = v.dest_next
    /\ u.started /\ u.dest_id = v.dest_id /\ u.dest_data = v.dest_data
SearchesOn(u, s, h, d, kn) ==
    /\ ReadsPage(u, s, h, d, kn)
    /\ u.dest = s[kn] /\ u.dest_next = h[s[kn]].next
    /\ ~u.started /\ u.dest_id = 0 /\ u.dest_data <= Capacity

TidyPages(s, g, d, sl) == \A p \in Range(s) : Tidy(d[p], p \in sl, p = g)

LEMMA PlaceFirst ==
    ASSUME NEW s, NEW g, NEW h, Listed(s, g, h), h \in [PG!Pages -> PG!PageHeader],
           NEW d \in [PG!Pages -> Page], NEW sl,
           TidyPages(s, g, d, sl),
           NEW u, SearchesOn(u, s, h, d, 1)
    PROVE  VacuumAt(u, s, d, sl, h, 1, 1)
<1>1. Len(s) \in Nat \ {0} /\ s[1] = g
  BY Zenon DEF Listed
<1>2. Len(s) \in Nat \ {0} /\ 1 \in 1 .. Len(s) /\ s[1] = g
  BY <1>1
<1>3. \A j \in 1 .. Len(s) : s[j] \in Range(s) /\ (s[j] = g <=> j = 1)
  BY <1>2 DEF Listed, IsInjective, Range
<1>4. Position(u, s, h, 1, 1)
  BY <1>2 DEF Position, SearchesOn, ReadsPage
<1>5. InFront(s, d, sl, 1 - 1)
  BY DEF InFront
<1>6. Behind(s, d, sl, 1)
  <2> SUFFICES ASSUME NEW j \in 1 + 1 .. Len(s) PROVE Tidy(d[s[j]], s[j] \in sl, FALSE)
    BY DEF Behind
  <2>1. j \in 1 .. Len(s) /\ s[j] # g
    BY <1>2, <1>3
  <2>2. Tidy(d[s[j]], s[j] \in sl, s[j] = g)
    BY <1>3, <2>1 DEF TidyPages
  <2> QED BY <2>1, <2>2 DEF Tidy
<1>7. Emptied(s, d, 1 + 1, 1 - 1)
  BY DEF Emptied
<1>8. Searching(u, d[s[1]], s[1] \in sl, 1 = 1)
  <2>1. Tidy(d[s[1]], s[1] \in sl, s[1] = g)
    BY <1>2, <1>3 DEF TidyPages
  <2>2. Tidy(d[s[1]], s[1] \in sl, 1 = 1)
    BY <1>2, <2>1 DEF Tidy
  <2>3. d[s[1]] \in Page
    BY <1>2 DEF Listed
  <2>4. 0 <= d[s[1]].start /\ NoneDeletedIn(d[s[1]], 0)
    BY <2>3, DataAssumption DEF Page, NoneDeletedIn
  <2>5. /\ ~u.started /\ u.ids = d[s[1]].start /\ u.index = 0 /\ u.dest_id = 0
        /\ u.dest_data <= Capacity
    BY DEF SearchesOn, ReadsPage
  <2> QED BY <2>2, <2>4, <2>5 DEF Searching
<1> QED BY <1>4, <1>5, <1>6, <1>7, <1>8 DEF VacuumAt

(* ... behind a page it has searched, ...                                  *)
LEMMA PlaceSearched ==
    ASSUME NEW s, NEW g, NEW h, Listed(s, g, h), h \in [PG!Pages -> PG!PageHeader],
           NEW d \in [PG!Pages -> Page], NEW sl, NEW v \in VacuumLocals, NEW k,
           VacuumAt(v, s, d, sl, h, k, k), ~v.started, v.index = v.ids,
           NEW kn, kn = k + 1, kn \in 1 .. Len(s),
           NEW u, SearchesOn(u, s, h, d, kn)
    PROVE  VacuumAt(u, s, d, sl, h, kn, kn)
<1>1. Len(s) \in Nat /\ k \in 1 .. Len(s) /\ k \in Nat
  BY PlacesOf
<1>2. Len(s) \in Nat /\ k \in 1 .. Len(s) /\ k \in Nat /\ kn \in Nat /\ kn # 1
  BY <1>1
<1>3. InFront(s, d, sl, k - 1) /\ Behind(s, d, sl, k)
  BY DEF VacuumAt
<1>4. Searching(v, d[s[k]], s[k] \in sl, k = 1)
  BY <1>2 DEF VacuumAt, OnePage, Filling
<1>5. /\ Tidy(d[s[k]], s[k] \in sl, k = 1) /\ NoneDeletedIn(d[s[k]], d[s[k]].start)
  BY <1>4 DEF Searching
<1>6. Reclaimed(d[s[k]], s[k] \in sl)
  BY <1>5 DEF Reclaimed, Tidy
<1>7. Position(u, s, h, kn, kn)
  BY <1>2 DEF Position, SearchesOn, ReadsPage
<1>8. InFront(s, d, sl, kn - 1)
  <2> SUFFICES ASSUME NEW j \in 1 .. k
               PROVE  Tidy(d[s[j]], s[j] \in sl, j = 1) /\ Reclaimed(d[s[j]], s[j] \in sl)
    BY <1>2 DEF InFront
  <2>1. CASE j = k
    BY <1>5, <1>6, <2>1
  <2>2. CASE j # k
    <3>1. j \in 1 .. k - 1
      BY <1>2, <2>2
    <3> QED BY <1>3, <3>1 DEF InFront
  <2> QED BY <2>1, <2>2
<1>9. Behind(s, d, sl, kn)
  <2> SUFFICES ASSUME NEW j \in kn + 1 .. Len(s) PROVE Tidy(d[s[j]], s[j] \in sl, FALSE)
    BY DEF Behind
  <2>1. j \in k + 1 .. Len(s)
    BY <1>2
  <2> QED BY <1>3, <2>1 DEF Behind
<1>10. Emptied(s, d, kn + 1, kn - 1)
  BY <1>2 DEF Emptied
<1>11. Searching(u, d[s[kn]], s[kn] \in sl, kn = 1)
  <2>1. kn \in k + 1 .. Len(s)
    BY <1>2
  <2>2. Tidy(d[s[kn]], s[kn] \in sl, FALSE)
    BY <1>3, <2>1 DEF Behind
  <2>3. Tidy(d[s[kn]], s[kn] \in sl, kn = 1)
    BY <1>2, <2>2 DEF Tidy
  <2>4. d[s[kn]] \in Page
    BY <1>2 DEF Listed
  <2>5. 0 <= d[s[kn]].start /\ NoneDeletedIn(d[s[kn]], 0)
    BY <2>4, DataAssumption DEF Page, NoneDeletedIn
  <2>6. /\ ~u.started /\ u.ids = d[s[kn]].start /\ u.index = 0 /\ u.dest_id = 0
        /\ u.dest_data <= Capacity
    BY DEF SearchesOn, ReadsPage
  <2> QED BY <2>3, <2>5, <2>6 DEF Searching
<1> QED BY <1>7, <1>8, <1>9, <1>10, <1>11 DEF VacuumAt

(* ... or with the destination it already fills.                           *)
LEMMA PlaceFilling ==
    ASSUME NEW s, NEW g, NEW h, Listed(s, g, h), h \in [PG!Pages -> PG!PageHeader],
           NEW d \in [PG!Pages -> Page], NEW sl, NEW v \in VacuumLocals, NEW kd, NEW ks,
           VacuumAt(v, s, d, sl, h, kd, ks), v.started, v.index = v.ids,
           NEW kn, kn = ks + 1, kn \in 1 .. Len(s), s[kn] \notin sl,
           2 * d[s[kn]].item_amount <= Capacity,
           NEW u, FillsSame(u, v, s, h, d, kn)
    PROVE  VacuumAt(u, s, d, sl, h, kd, kn)
<1>1. /\ Len(s) \in Nat /\ kd \in 1 .. Len(s) /\ ks \in 1 .. Len(s) /\ kd <= ks
      /\ kd \in Nat /\ ks \in Nat /\ v.dest = s[kd] /\ v.dest_next = h[s[kd]].next
  BY PlacesOf
<1>2. /\ Len(s) \in Nat /\ kd \in 1 .. Len(s) /\ ks \in 1 .. Len(s) /\ kd <= ks
      /\ s[kd] \in PG!Pages /\ s[ks] \in PG!Pages /\ s[kn] \in PG!Pages
      /\ kd \in Nat /\ ks \in Nat /\ kn \in Nat
      /\ v.dest = s[kd] /\ v.dest_next = h[s[kd]].next
  <2>1. \A j \in 1 .. Len(s) : s[j] \in PG!Pages
    BY Zenon DEF Listed
  <2>2. kn \in Nat
    BY <1>1
  <2> QED BY Zenon, <1>1, <2>1, <2>2
<1>3. InFront(s, d, sl, kd - 1) /\ Behind(s, d, sl, ks) /\ Emptied(s, d, kd + 1, ks - 1)
  BY DEF VacuumAt
<1>4. \/ kd = ks /\ OnePage(v, d[s[kd]])
      \/ kd < ks /\ TwoPages(v, d[s[ks]], s[ks] \in sl, d[s[kd]])
  BY DEF VacuumAt, Searching
<1>5. Filled(v, d[s[kd]]) /\ (kd < ks => d[s[ks]].item_amount = 0)
  <2>1. CASE kd = ks /\ OnePage(v, d[s[kd]])
    BY <1>2, <2>1, OnePageDone
  <2>2. CASE kd < ks /\ TwoPages(v, d[s[ks]], s[ks] \in sl, d[s[kd]])
    BY <2>2, TwoPagesDone
  <2> QED BY <1>4, <2>1, <2>2
<1>6. Position(u, s, h, kd, kn)
  BY <1>2 DEF Position, FillsSame, ReadsPage
<1>7. Behind(s, d, sl, kn)
  <2> SUFFICES ASSUME NEW j \in kn + 1 .. Len(s) PROVE Tidy(d[s[j]], s[j] \in sl, FALSE)
    BY DEF Behind
  <2>1. j \in ks + 1 .. Len(s)
    BY <1>2
  <2> QED BY <1>3, <2>1 DEF Behind
<1>8. Emptied(s, d, kd + 1, kn - 1)
  <2> SUFFICES ASSUME NEW j \in kd + 1 .. kn - 1 PROVE d[s[j]].item_amount = 0
    BY DEF Emptied
  <2>1. CASE j = ks
    BY <1>2, <1>5, <2>1
  <2>2. CASE j # ks
    <3>1. j \in kd + 1 .. ks - 1
      BY <1>2, <2>2
    <3> QED BY <1>3, <3>1 DEF Emptied
  <2> QED BY <2>1, <2>2
<1>9. TwoPages(u, d[s[kn]], s[kn] \in sl, d[s[kd]])
  <2>1. kn \in ks + 1 .. Len(s)
    BY <1>2
  <2>2. Tidy(d[s[kn]], s[kn] \in sl, FALSE)
    BY <1>3, <2>1 DEF Behind
  <2>3. PICK from \in Page, to \in Page : from = d[s[kn]] /\ to = d[s[kd]]
    BY <1>2
  <2>4. /\ u \in VacuumLocals /\ u.started /\ u.index = 0 /\ u.ids = from.start
        /\ u.dest_id = v.dest_id /\ u.dest_data = v.dest_data
    BY <2>3 DEF FillsSame, ReadsPage
  <2>5. Tidy(from, FALSE, FALSE) /\ Filled(v, to) /\ 2 * from.item_amount <= Capacity
    BY <1>5, <2>2, <2>3 DEF Tidy
  <2>6. TwoPages(u, from, FALSE, to)
    BY <2>4, <2>5, TwoPagesBegin
  <2> QED BY <2>3, <2>6 DEF TwoPages, Tidy
<1>10. kd < kn
  BY <1>2
<1> QED BY <1>3, <1>6, <1>7, <1>8, <1>9, <1>10 DEF VacuumAt

(* The locals of vacuum at the start of its next source page.              *)
LEMMA NextPageLocals ==
    ASSUME vac \in VacuumLocals, data \in [PG!Pages -> Page],
           header \in [PG!Pages -> PG!PageHeader], VacuumPage,
           NEW p \in PG!Pages, p = vac.src_next, ~vac.started => vac.dest_next = p
    PROVE  /\ vac' \in VacuumLocals
           /\ vac'.src = p /\ vac'.src_next = header[p].next
           /\ vac'.index = 0 /\ vac'.ids = data[p].start
           /\ vac'.started = vac.started
           /\ vac'.dest_id = vac.dest_id /\ vac'.dest_data = vac.dest_data
           /\ ~vac.started => vac'.dest = p /\ vac'.dest_next = header[p].next
           /\ vac.started => vac'.dest = vac.dest /\ vac'.dest_next = vac.dest_next
<1>1. PICK v \in VacuumLocals : v = vac
  OBVIOUS
<1>2. PICK n \in PG!PageIds, k \in Nat : n = header[p].next /\ k = data[p].start
  <2>1. header[p].next \in PG!PageIds
    BY DEF PG!PageHeader
  <2>2. data[p].start \in Nat
    BY DataAssumption DEF Page
  <2> QED BY <2>1, <2>2
<1>3. p \in PG!PageIds
  BY PageNumbers
<1>4. PICK next : next = [v EXCEPT !.src = p, !.src_next = n, !.index = 0, !.ids = k,
                                   !.age = v.age + 1]
  OBVIOUS
<1>5. /\ next \in VacuumLocals /\ next.src = p /\ next.src_next = n /\ next.index = 0
      /\ next.ids = k /\ next.started = v.started /\ next.dest_id = v.dest_id
      /\ next.dest_data = v.dest_data /\ next.dest = v.dest /\ next.dest_next = v.dest_next
  <2>1. PICK a \in Nat : a = v.age + 1
    BY DEF VacuumLocals
  <2>2. PICK w : w = [v EXCEPT !.src = p, !.src_next = n, !.index = 0]
    OBVIOUS
  <2>3. /\ w \in VacuumLocals /\ w.src = p /\ w.src_next = n /\ w.index = 0
        /\ w.started = v.started /\ w.dest_id = v.dest_id /\ w.dest_data = v.dest_data
        /\ w.dest = v.dest /\ w.dest_next = v.dest_next
    BY <1>3, <2>2 DEF VacuumLocals
  <2>4. next = [w EXCEPT !.ids = k, !.age = a]
    BY <1>4, <2>1, <2>2
  <2> QED BY <2>3, <2>4 DEF VacuumLocals
<1>6. vac' = IF v.started THEN next
             ELSE [next EXCEPT !.dest = p, !.dest_next = n, !.age = 0]
  <2>1. vac' = IF v.started THEN next
               ELSE [next EXCEPT !.dest = v.dest_next, !.dest_next = header[v.dest_next].next,
                                 !.age = 0]
    BY Zenon, <1>1, <1>2, <1>4 DEF VacuumPage
  <2>2. ~v.started => v.dest_next = p /\ header[v.dest_next].next = n
    BY <1>1, <1>2
  <2> QED BY <2>1, <2>2
<1>7. CASE v.started
  BY <1>1, <1>2, <1>5, <1>6, <1>7
<1>8. CASE ~v.started
  <2>1. vac' = [next EXCEPT !.dest = p, !.dest_next = n, !.age = 0]
    BY <1>6, <1>8
  <2>2. /\ vac' \in VacuumLocals /\ vac'.src = p /\ vac'.src_next = n /\ vac'.index = 0
        /\ vac'.ids = k /\ vac'.started = v.started /\ vac'.dest_id = v.dest_id
        /\ vac'.dest_data = v.dest_data /\ vac'.dest = p /\ vac'.dest_next = n
    BY <1>3, <1>5, <2>1 DEF VacuumLocals
  <2> QED BY <1>1, <1>2, <1>8, <2>2
<1> QED BY <1>7, <1>8

(* Vacuum turns to the next page, the first one included.                  *)
LEMMA VacuumPageStep == ASSUME IInv, VacuumPage PROVE IInv'
<1>1. /\ Vacuuming /\ vac.index = vac.ids /\ vac.src_next # NULL
      /\ harmed' = (vac.started /\ vac.src_next \in sealed)
      /\ UNCHANGED <<groupVars, data, control, scanning, rows, sealed>>
  BY DEF VacuumPage, PageDone
<1>2. /\ Kinds /\ Half /\ group \in DOMAIN rows
      /\ Listed(chain[group], group, header) /\ PagesOf(group) \subseteq PG!Pages
      /\ data \in [PG!Pages -> Page] /\ vac \in VacuumLocals
      /\ header \in [PG!Pages -> PG!PageHeader]
      /\ \/ vac = FreshVacuum(group) /\ GroupTidy(group)
         \/ \E kd, ks \in Nat : VacuumAt(vac, chain[group], data, sealed, header, kd, ks)
  BY <1>1, VacuumFacts
<1>3. PICK s : s = chain[group]
  OBVIOUS
<1>4. Listed(s, group, header)
  BY <1>2, <1>3
<1>5. /\ Len(s) \in Nat \ {0} /\ s[1] = group
      /\ \A j \in 1 .. Len(s) : s[j] \in PG!Pages
  BY Zenon, <1>4 DEF Listed
<1>6. ASSUME vac' \in VacuumLocals,
             ~harmed' => \E kd, ks \in Nat : VacuumAt(vac', s, data, sealed, header, kd, ks)
      PROVE  IInv'
  <2>1. harmed' \in BOOLEAN /\ sealed' \subseteq PG!Pages /\ data' \in [PG!Pages -> Page]
    BY <1>1, <1>2 DEF Kinds
  <2>2. Half'
    BY <1>1, <1>2 DEF Half
  <2>3. \A p \in PG!Pages \ PagesOf(group) : data'[p] = data[p] /\ (p \in sealed' <=> p \in sealed)
    BY <1>1
  <2>4. ~harmed' =>
           \E kd, ks \in Nat : VacuumAt(vac', chain[group], data', sealed', header, kd, ks)
    BY <1>1, <1>3, <1>6
  <2> QED BY <1>1, <1>6, <2>1, <2>2, <2>3, <2>4, VacuumGoesOn
<1>7. CASE vac = FreshVacuum(group) /\ GroupTidy(group)
  <2>1. PICK p \in PG!Pages : p = s[1]
    BY <1>5
  <2>2. /\ vac.src_next = p /\ vac.dest_next = p /\ vac.started = FALSE
        /\ vac.dest_id = 0 /\ vac.dest_data = 0
    BY <1>5, <1>7, <2>1 DEF FreshVacuum, NoVacuum
  <2>3. /\ vac' \in VacuumLocals
        /\ vac'.src = p /\ vac'.src_next = header[p].next
        /\ vac'.index = 0 /\ vac'.ids = data[p].start
        /\ vac'.started = FALSE
        /\ vac'.dest_id = 0 /\ vac'.dest_data = 0
        /\ vac'.dest = p /\ vac'.dest_next = header[p].next
    BY <1>2, <2>2, NextPageLocals
  <2>4. SearchesOn(vac', s, header, data, 1)
    BY <2>1, <2>3, DataAssumption DEF SearchesOn, ReadsPage
  <2>5. TidyPages(s, group, data, sealed)
    BY <1>3, <1>7 DEF TidyPages, GroupTidy, PagesOf
  <2>6. VacuumAt(vac', s, data, sealed, header, 1, 1)
    BY <1>2, <1>4, <2>4, <2>5, PlaceFirst
  <2> QED BY <1>6, <2>3, <2>6
<1>8. ASSUME NEW kd \in Nat, NEW ks \in Nat,
             VacuumAt(vac, s, data, sealed, header, kd, ks)
      PROVE  IInv'
  <2>1. /\ kd \in 1 .. Len(s) /\ ks \in 1 .. Len(s)
        /\ vac.dest_next = IF kd = Len(s) THEN NULL ELSE s[kd + 1]
        /\ vac.src_next = IF ks = Len(s) THEN NULL ELSE s[ks + 1]
    BY <1>2, <1>4, <1>8, PlacesOf
  <2>2. PICK kn \in Nat : kn = ks + 1
    OBVIOUS
  <2>3. kn \in 1 .. Len(s) /\ vac.src_next = s[kn]
    BY <1>1, <1>5, <2>1, <2>2
  <2>4. PICK p \in PG!Pages : p = s[kn]
    BY <1>5, <2>3
  <2>5. ~vac.started => kd = ks /\ vac.dest_next = p
    <3>1. ~vac.started => kd = ks
      BY <1>8 DEF VacuumAt, TwoPages, Filling
    <3> QED BY <1>1, <2>1, <2>2, <2>4, <3>1
  <2>6. /\ vac' \in VacuumLocals
        /\ vac'.src = p /\ vac'.src_next = header[p].next
        /\ vac'.index = 0 /\ vac'.ids = data[p].start
        /\ vac'.started = vac.started
        /\ vac'.dest_id = vac.dest_id /\ vac'.dest_data = vac.dest_data
        /\ ~vac.started => vac'.dest = p /\ vac'.dest_next = header[p].next
        /\ vac.started => vac'.dest = vac.dest /\ vac'.dest_next = vac.dest_next
    BY <1>2, <2>3, <2>4, <2>5, NextPageLocals
  <2>7. CASE ~vac.started
    <3>1. VacuumAt(vac, s, data, sealed, header, ks, ks)
      BY <1>8, <2>5, <2>7
    <3>2. vac.dest_id = 0 /\ vac.dest_data <= Capacity
      BY <2>7, <3>1 DEF VacuumAt, Searching, OnePage, TwoPages, Filling
    <3>3. SearchesOn(vac', s, header, data, kn)
      BY <2>4, <2>6, <2>7, <3>2 DEF SearchesOn, ReadsPage
    <3>4. VacuumAt(vac', s, data, sealed, header, kn, kn)
      BY <1>1, <1>2, <1>4, <2>2, <2>3, <2>7, <3>1, <3>3, PlaceSearched
    <3> QED BY <1>6, <2>6, <3>4
  <2>8. CASE vac.started
    <3>1. FillsSame(vac', vac, s, header, data, kn)
      BY <2>4, <2>6, <2>8 DEF FillsSame, ReadsPage
    <3>2. ~harmed' => s[kn] \notin sealed
      BY <1>1, <2>3, <2>8
    <3>3. 2 * data[s[kn]].item_amount <= Capacity
      BY <1>2, <2>4 DEF Half
    <3>4. ~harmed' => VacuumAt(vac', s, data, sealed, header, kd, kn)
      BY <1>1, <1>2, <1>4, <1>8, <2>2, <2>3, <2>8, <3>1, <3>2, <3>3, PlaceFilling
    <3> QED BY <1>6, <2>6, <3>4
  <2> QED BY <2>7, <2>8
<1> QED BY <1>2, <1>3, <1>7, <1>8

(* What the end of vacuum does to its last destination q, ...              *)
ClosesPage(d, c, sl, ml, q, first) ==
    /\ c \in [PG!Pages -> Page]
    /\ \A o \in PG!Pages : o # q => c[o] = d[o] /\ (o \in ml <=> o \in sl)
    /\ Tidy(c[q], q \in ml, first)
    /\ Reclaimed(c[q], q \in ml) /\ Reclaimed(c[q], q \in sl)
    /\ c[q].item_amount = d[q].item_amount

(* ... and the pages s of its group then.                                  *)
AllVacuumed(s, c, sl, ml, kd) ==
    /\ InFront(s, c, ml, kd) /\ Emptied(s, c, kd + 1, Len(s))
    /\ \A j \in 1 .. kd : Reclaimed(c[s[j]], s[j] \in sl)

LEMMA EndVacuums ==
    ASSUME NEW s, NEW g, NEW h, Listed(s, g, h), h \in [PG!Pages -> PG!PageHeader],
           NEW d \in [PG!Pages -> Page], NEW sl, NEW v \in VacuumLocals, NEW kd, NEW ks,
           VacuumAt(v, s, d, sl, h, kd, ks), ks = Len(s), v.index = v.ids,
           NEW c, NEW ml, NEW q, q = s[kd], ClosesPage(d, c, sl, ml, q, kd = 1)
    PROVE  AllVacuumed(s, c, sl, ml, kd)
<1>1. /\ Len(s) \in Nat /\ kd \in 1 .. Len(s) /\ ks \in 1 .. Len(s) /\ kd <= ks
      /\ kd \in Nat /\ ks \in Nat
  BY PlacesOf
<1>2. InFront(s, d, sl, kd - 1) /\ Emptied(s, d, kd + 1, ks - 1)
  BY DEF VacuumAt
<1>3. kd < ks => d[s[ks]].item_amount = 0
  <2>1. kd < ks => TwoPages(v, d[s[ks]], s[ks] \in sl, d[s[kd]])
    BY <1>1 DEF VacuumAt
  <2> QED BY <2>1, TwoPagesDone
<1>4. ASSUME NEW j \in 1 .. Len(s), j # kd
      PROVE  c[s[j]] = d[s[j]] /\ (s[j] \in ml <=> s[j] \in sl)
  <2>1. s[j] \in PG!Pages /\ s[j] # s[kd]
    BY <1>1, <1>4 DEF Listed, IsInjective
  <2> QED BY <2>1 DEF ClosesPage
<1>5. ASSUME NEW j \in 1 .. kd
      PROVE  /\ Tidy(c[s[j]], s[j] \in ml, j = 1) /\ Reclaimed(c[s[j]], s[j] \in ml)
             /\ Reclaimed(c[s[j]], s[j] \in sl)
  <2>1. CASE j = kd
    BY <2>1 DEF ClosesPage, Tidy
  <2>2. CASE j # kd
    <3>1. j \in 1 .. kd - 1 /\ j \in 1 .. Len(s)
      BY <1>1, <2>2
    <3>2. c[s[j]] = d[s[j]] /\ (s[j] \in ml <=> s[j] \in sl)
      BY <1>4, <2>2, <3>1
    <3>3. Tidy(d[s[j]], s[j] \in sl, j = 1) /\ Reclaimed(d[s[j]], s[j] \in sl)
      BY <1>2, <3>1 DEF InFront
    <3> QED BY <3>2, <3>3 DEF Tidy, Reclaimed
  <2> QED BY <2>1, <2>2
<1>6. ASSUME NEW j \in kd + 1 .. Len(s) PROVE c[s[j]].item_amount = 0
  <2>1. j \in 1 .. Len(s) /\ j # kd /\ (j # ks => j \in kd + 1 .. ks - 1) /\ kd < ks
    BY <1>1
  <2>2. d[s[j]].item_amount = 0
    BY <1>2, <1>3, <2>1 DEF Emptied
  <2> QED BY <1>4, <2>1, <2>2
<1> QED BY <1>5, <1>6 DEF AllVacuumed, InFront, Emptied

(* Vacuum comes to the end of the group.                                   *)
LEMMA EndCloses ==
    ASSUME IInv, VacuumEnd
    PROVE  /\ sealed' \subseteq PG!Pages /\ harmed' \in BOOLEAN /\ data' \in [PG!Pages -> Page]
           /\ \E kd \in Nat, q \in PG!Pages, k \in Nat :
                 /\ VacuumAt(vac, chain[group], data, sealed, header, kd, k)
                 /\ k = Len(chain[group]) /\ vac.index = vac.ids
                 /\ q = chain[group][kd] /\ q = vac.dest
                 /\ ClosesPage(data, data', sealed, sealed', q, kd = 1)
<1>1. /\ Vacuuming /\ vac.index = vac.ids /\ vac.src_next = NULL
      /\ data' = Closed /\ CloseDest
  BY DEF VacuumEnd, PageDone
<1>2. /\ Kinds /\ group \in DOMAIN rows
      /\ Listed(chain[group], group, header)
      /\ data \in [PG!Pages -> Page] /\ vac \in VacuumLocals
      /\ header \in [PG!Pages -> PG!PageHeader]
      /\ \/ vac = FreshVacuum(group) /\ GroupTidy(group)
         \/ \E kd, ks \in Nat : VacuumAt(vac, chain[group], data, sealed, header, kd, ks)
  BY <1>1, VacuumFacts
<1>3. PICK kd \in Nat, k \in Nat : VacuumAt(vac, chain[group], data, sealed, header, kd, k)
  <2>1. 1 \in 1 .. Len(chain[group]) /\ group = chain[group][1]
    BY <1>2 DEF Listed
  <2>2. group \in PG!Pages
    BY <1>2, <2>1 DEF Listed
  <2>3. vac # FreshVacuum(group)
    BY <1>1, <2>2, PageNumbers DEF FreshVacuum, NoVacuum
  <2> QED BY <1>2, <2>3
<1>4. /\ kd \in 1 .. Len(chain[group]) /\ k \in 1 .. Len(chain[group])
      /\ vac.dest = chain[group][kd] /\ vac.src = chain[group][k] /\ vac.dest \in PG!Pages
      /\ vac.src_next = IF k = Len(chain[group]) THEN NULL ELSE chain[group][k + 1]
      /\ Len(chain[group]) \in Nat
  BY <1>2, <1>3, PlacesOf
<1>5. k = Len(chain[group])
  <2>1. ASSUME k # Len(chain[group]) PROVE FALSE
    <3>1. k + 1 \in 1 .. Len(chain[group])
      BY <1>4, <2>1
    <3>2. chain[group][k + 1] \in PG!Pages
      BY <1>2, <3>1 DEF Listed
    <3> QED BY <1>1, <1>4, <2>1, <3>2, PageNumbers
  <2> QED BY <2>1
<1>6. PICK q \in PG!Pages : q = vac.dest
  BY <1>4
<1>7. sealed' \subseteq PG!Pages /\ harmed' \in BOOLEAN
  BY <1>1, <1>2, <1>6 DEF CloseDest, Kinds
<1>8. CASE vac.started
  <2>1. Filled(vac, data[q])
    <3>1. PICK from, to : from = data[vac.src] /\ to = data[q]
      OBVIOUS
    <3>2. \/ OnePage(vac, to)
          \/ TwoPages(vac, from, vac.src \in sealed, to)
      BY <1>3, <1>4, <1>6, <1>8, <3>1 DEF VacuumAt, Searching
    <3>3. to \in Page
      BY <1>2, <3>1
    <3>4. OnePage(vac, to) => Filled(vac, to)
      BY <1>1, <1>2, <3>3, OnePageDone
    <3>5. TwoPages(vac, from, vac.src \in sealed, to) => Filled(vac, to)
      BY <1>2, TwoPagesDone
    <3> QED BY <3>1, <3>2, <3>4, <3>5
  <2>2. ClosedAt(kd, q)
    BY <1>1, <1>2, <1>6, <2>1, DestIsClosed
  <2>3. ClosesPage(data, data', sealed, sealed', q, kd = 1)
    BY <1>1, <2>2 DEF ClosedAt, ClosesPage, Reclaimed
  <2> QED BY <1>1, <1>3, <1>4, <1>5, <1>6, <1>7, <2>3 DEF ClosesPage
<1>9. CASE ~vac.started
  <2>1. kd = k /\ Searching(vac, data[q], q \in sealed, kd = 1)
    BY <1>3, <1>4, <1>6, <1>9 DEF VacuumAt, OnePage, TwoPages, Filling
  <2>2. vac.dest_id = 0 /\ vac.dest_id \in 0 .. Capacity /\ vac.dest_data \in 0 .. Capacity
    <3>1. vac.dest_id = 0 /\ vac.dest_data <= Capacity /\ vac.dest_data \in Nat
      BY <1>2, <2>1, LocalsNat DEF Searching
    <3> QED BY <3>1, DataAssumption
  <2>3. /\ Closed \in [PG!Pages -> Page]
        /\ IsClosed(Closed[q], data[q], vac.dest_id, vac.dest_data)
        /\ \A o \in PG!Pages : o # q => Closed[o] = data[o]
    BY <1>2, <1>6, <2>2, ClosedPages
  <2>4. PICK d \in Page, e \in Page : d = data[q] /\ e = Closed[q]
    BY <1>2, <2>3
  <2>5. /\ Tidy(e, d.item_amount # 0, kd = 1)
        /\ Reclaimed(e, d.item_amount # 0) /\ Reclaimed(e, q \in sealed)
    BY <1>1, <1>2, <2>1, <2>3, <2>4, ClosedSearched
  <2>6. q \in sealed' <=> d.item_amount # 0
    BY <1>1, <1>6, <2>2, <2>4 DEF CloseDest
  <2>7. \A o \in PG!Pages : o # q => (o \in sealed' <=> o \in sealed)
    BY <1>1, <1>6 DEF CloseDest
  <2>8. e.item_amount = d.item_amount
    BY <2>3, <2>4 DEF IsClosed
  <2>9. Tidy(e, q \in sealed', kd = 1) /\ Reclaimed(e, q \in sealed')
    BY <2>5, <2>6 DEF Tidy, Reclaimed
  <2>10. ClosesPage(data, data', sealed, sealed', q, kd = 1)
    BY <1>1, <2>3, <2>4, <2>5, <2>7, <2>8, <2>9 DEF ClosesPage, Tidy, Reclaimed
  <2> QED BY <1>1, <1>3, <1>4, <1>5, <1>6, <1>7, <2>3, <2>10
<1> QED BY <1>8, <1>9

(* What is left when no page is behind the destination any more.           *)
LEMMA AllTidy ==
    ASSUME NEW s, NEW g, NEW h, Listed(s, g, h), NEW c, NEW ml, InFront(s, c, ml, Len(s))
    PROVE  TidyPages(s, g, c, ml)
<1>1. Len(s) \in Nat /\ DOMAIN s = 1 .. Len(s) /\ s[1] = g /\ IsInjective(s) /\ Len(s) # 0
  BY Zenon DEF Listed
<1>2. ASSUME NEW p \in Range(s) PROVE Tidy(c[p], p \in ml, p = g)
  <2>1. PICK j \in 1 .. Len(s) : p = s[j]
    BY <1>1, <1>2 DEF Range
  <2>2. 1 \in DOMAIN s /\ j \in DOMAIN s
    BY <1>1
  <2>3. p = g <=> j = 1
    BY <1>1, <2>1, <2>2 DEF IsInjective
  <2>4. Tidy(c[s[j]], s[j] \in ml, j = 1)
    BY Zenon DEF InFront
  <2> QED BY <2>1, <2>3, <2>4 DEF Tidy
<1> QED BY <1>2 DEF TidyPages

(* The end of vacuum: it returns, or goes on to free what it emptied.      *)
LEMMA VacuumEndFacts ==
    ASSUME IInv, VacuumEnd
    PROVE  /\ sealed' \subseteq PG!Pages /\ harmed' \in BOOLEAN /\ data' \in [PG!Pages -> Page]
           /\ Half' /\ \A g \in DOMAIN rows : g # group => GroupTidy(g)'
           /\ \E kd \in Nat :
                 /\ kd \in 1 .. Len(chain[group]) /\ vac.dest = chain[group][kd]
                 /\ vac.dest_next = IF kd = Len(chain[group]) THEN NULL ELSE chain[group][kd + 1]
                 /\ vac.dest_next = header[vac.dest].next
                 /\ AllVacuumed(chain[group], data', sealed, sealed', kd)
<1>1. Vacuuming /\ chain' = chain
  BY DEF VacuumEnd, PG!FreeRest, PG!links, PG!history, groupVars
<1>2. /\ Half /\ Listed(chain[group], group, header) /\ group \in DOMAIN rows
      /\ data \in [PG!Pages -> Page] /\ vac \in VacuumLocals
      /\ header \in [PG!Pages -> PG!PageHeader]
      /\ PagesOf(group) \subseteq PG!Pages
      /\ \A g \in DOMAIN rows : g # group =>
            PagesOf(g) \subseteq PG!Pages /\ PagesOf(g) \cap PagesOf(group) = {}
      /\ \A g \in DOMAIN rows : g # group => GroupTidy(g)
  BY <1>1, VacuumFacts
<1>3. sealed' \subseteq PG!Pages /\ harmed' \in BOOLEAN /\ data' \in [PG!Pages -> Page]
  BY EndCloses
<1>4. PICK kd \in Nat, q \in PG!Pages, k \in Nat :
         /\ VacuumAt(vac, chain[group], data, sealed, header, kd, k)
         /\ k = Len(chain[group]) /\ vac.index = vac.ids
         /\ q = chain[group][kd] /\ q = vac.dest
         /\ ClosesPage(data, data', sealed, sealed', q, kd = 1)
  BY EndCloses
<1>5. /\ kd \in 1 .. Len(chain[group]) /\ vac.dest = chain[group][kd]
      /\ vac.dest_next = IF kd = Len(chain[group]) THEN NULL ELSE chain[group][kd + 1]
      /\ vac.dest_next = header[chain[group][kd]].next
      /\ vac.dest \in Range(chain[group])
  BY <1>2, <1>4, PlacesOf
<1>6. \A o \in PG!Pages : data'[o].item_amount = data[o].item_amount
  BY <1>4 DEF ClosesPage
<1>7. Half'
  BY <1>2, <1>6 DEF Half
<1>8. ASSUME NEW g \in DOMAIN rows, g # group PROVE GroupTidy(g)'
  <2>1. \A o \in PagesOf(g) : o \in PG!Pages /\ o # q
    BY <1>2, <1>4, <1>5, <1>8 DEF PagesOf
  <2>2. \A o \in Range(chain[g]) : data'[o] = data[o] /\ (o \in sealed' <=> o \in sealed)
    BY <1>4, <2>1 DEF PagesOf, ClosesPage
  <2>3. GroupTidy(g) /\ chain'[g] = chain[g]
    BY <1>1, <1>2, <1>8
  <2> QED BY <2>2, <2>3, GroupTidyKept
<1>9. AllVacuumed(chain[group], data', sealed, sealed', kd)
  <2>1. PICK s, c, ml : s = chain[group] /\ c = data' /\ ml = sealed'
    OBVIOUS
  <2>2. ClosesPage(data, c, sealed, ml, q, kd = 1)
    BY <1>4, <2>1 DEF ClosesPage, Tidy
  <2>3. /\ Listed(s, group, header) /\ VacuumAt(vac, s, data, sealed, header, kd, k)
        /\ k = Len(s) /\ q = s[kd]
    BY <1>2, <1>4, <2>1
  <2>4. AllVacuumed(s, c, sealed, ml, kd)
    BY <1>2, <1>4, <2>2, <2>3, EndVacuums
  <2> QED BY <2>1, <2>4
<1> QED BY <1>3, <1>5, <1>7, <1>8, <1>9

LEMMA VacuumEndStep == ASSUME IInv, VacuumEnd PROVE IInv'
<1>1. Vacuuming /\ UNCHANGED <<scanning, rows>>
  BY DEF VacuumEnd
<1>2. /\ PGP!Inv /\ Kinds /\ Phases /\ ~damaged /\ operation = "vacuum"
      /\ vacuums \in 1 .. 2 /\ Listed(chain[group], group, header)
      /\ group \in DOMAIN rows /\ DOMAIN rows = PG!Groups /\ phase = "idle"
  BY <1>1, VacuumFacts
<1>3. /\ sealed' \subseteq PG!Pages /\ harmed' \in BOOLEAN /\ data' \in [PG!Pages -> Page]
      /\ Half' /\ \A g \in DOMAIN rows : g # group => GroupTidy(g)'
  BY VacuumEndFacts
<1>4. PICK kd \in Nat :
         /\ kd \in 1 .. Len(chain[group]) /\ vac.dest = chain[group][kd]
         /\ vac.dest_next = IF kd = Len(chain[group]) THEN NULL ELSE chain[group][kd + 1]
         /\ vac.dest_next = header[vac.dest].next
         /\ AllVacuumed(chain[group], data', sealed, sealed', kd)
  BY VacuumEndFacts
<1>5. /\ it' \in ItemIterator /\ scanned' \subseteq Items
      /\ \A g \in DOMAIN rows : rows[g] \subseteq Items
  BY <1>1, <1>2 DEF Kinds, scanning
<1>6. CASE vac.dest_next # NULL
  <2>1. /\ PG!FreeRest(group, vac.dest) /\ operation' = "free"
        /\ UNCHANGED <<vacuums, group, vac>>
    BY <1>6 DEF VacuumEnd
  <2>2. /\ phase' = "vacuum" /\ loop_group' = group /\ next_page_id' = header[vac.dest].next
        /\ UNCHANGED <<chain, header, damaged>>
    BY <2>1 DEF PG!FreeRest, PG!links, PG!history
  <2>3. PGP!Inv'
    <3>1. group \in PG!Groups /\ vac.dest \in Range(chain[group])
      BY <1>2, <1>4 DEF Listed, Range
    <3> QED BY <1>2, <2>1, <3>1, GroupsStep
  <2>4. Kinds'
    <3>1. DOMAIN rows' \subseteq PG!Groups' /\ \A g \in DOMAIN rows' : rows'[g] \subseteq Items
      BY <1>1, <1>2, <1>5, <2>2 DEF PG!Groups
    <3>2. vacuums' \in 0 .. 2 /\ group' \in PG!PageIds /\ vac' \in VacuumLocals
      BY <1>2, <2>1 DEF Kinds
    <3> QED BY <1>3, <1>5, <2>1, <3>1, <3>2 DEF Kinds
  <2>5. Phases'
    <3>1. DOMAIN rows' = PG!Groups' /\ group' \in DOMAIN rows' /\ group' # NULL
      <4>1. group # NULL
        BY <1>2 DEF Phases
      <4> QED BY <1>1, <1>2, <2>1, <2>2, <4>1 DEF PG!Groups
    <3> QED BY <1>2, <2>1, <2>2, <3>1 DEF Phases, Clearing
  <2>6. Sound'
    <3>1. Tidiness'
      BY <1>1, <1>3, <2>1 DEF Tidiness, Clearing
    <3>2. Freeing'
      <4>1. /\ InFront(chain[group], data', sealed', kd)
            /\ Emptied(chain[group], data', kd + 1, Len(chain[group]))
        BY <1>4 DEF AllVacuumed
      <4>2. FreeingAt(chain[group], data', sealed', vac, next_page_id', kd)
        BY <1>4, <2>2, <4>1 DEF FreeingAt
      <4>3. FreeingAt(chain'[group'], data', sealed', vac', next_page_id', kd)
        BY <2>1, <2>2, <4>2
      <4> QED BY <4>3 DEF Freeing
    <3>3. Vacuum' /\ Scan'
      BY <2>1 DEF Vacuum, Scan, Scans
    <3> QED BY <1>3, <3>1, <3>2, <3>3 DEF Sound
  <2> QED BY <2>3, <2>4, <2>5, <2>6 DEF IInv
<1>7. CASE vac.dest_next = NULL
  <2>1. RunVacuum(StillToRun) /\ UNCHANGED groupVars
    BY <1>7 DEF VacuumEnd
  <2>2. PICK times \in 0 .. 2 : times = StillToRun
    BY <1>2 DEF StillToRun
  <2>3. kd = Len(chain[group])
    <3>1. ASSUME kd # Len(chain[group]) PROVE FALSE
      <4>1. Len(chain[group]) \in Nat
        BY <1>2 DEF Listed
      <4>2. kd + 1 \in 1 .. Len(chain[group])
        BY <1>4, <3>1, <4>1
      <4>3. chain[group][kd + 1] \in PG!Pages
        BY <1>2, <4>2 DEF Listed
      <4> QED BY <1>4, <1>7, <3>1, <4>3, PageNumbers
    <3> QED BY <3>1
  <2>4. ASSUME NEW g \in DOMAIN rows, g = group PROVE GroupTidy(g)'
    <3>1. PICK s, c, ml : s = chain[g] /\ c = data' /\ ml = sealed'
      OBVIOUS
    <3>2. InFront(s, c, ml, Len(s)) /\ Listed(s, g, header)
      BY <1>2, <1>4, <2>3, <2>4, <3>1 DEF AllVacuumed
    <3>3. TidyPages(s, g, c, ml)
      BY <3>2, AllTidy
    <3>4. chain'[g] = s
      BY <2>1, <3>1 DEF groupVars
    <3> QED BY <3>1, <3>3, <3>4 DEF TidyPages, GroupTidy, PagesOf
  <2>5. \A g \in DOMAIN rows : GroupTidy(g)'
    BY <1>3, <2>4
  <2>6. PGP!Inv' /\ phase' = "idle" /\ chain' = chain /\ damaged' = FALSE
    <3>1. UNCHANGED <<phase, chain, damaged>>
      BY <2>1 DEF groupVars
    <3>2. damaged \in BOOLEAN
      BY <1>2, SameActions DEF PGP!Inv, PG!TypeOK
    <3> QED BY <1>2, <2>1, <3>1, <3>2, GroupsSame
  <2>7. DOMAIN rows' = DOMAIN rows /\ \A g \in DOMAIN rows : rows'[g] \subseteq Items
    BY <1>1, <1>5
  <2> QED BY <1>2, <1>3, <1>5, <2>1, <2>2, <2>5, <2>6, <2>7, VacuumRuns
<1> QED BY <1>6, <1>7

(* What the last loop of vacuum knows.                                     *)
LEMMA FreeFacts ==
    ASSUME IInv, operation = "free", ~harmed
    PROVE  /\ PGP!Inv /\ Kinds /\ Phases /\ Half /\ ~damaged
           /\ phase = "vacuum" /\ loop_group = group /\ vacuums \in 1 .. 2
           /\ DOMAIN rows = PG!Groups /\ group \in DOMAIN rows
           /\ \A g \in DOMAIN rows : g # group => GroupTidy(g)
           /\ Listed(chain[group], group, header)
           /\ \A g \in DOMAIN rows : g # group =>
                 PagesOf(g) \subseteq PG!Pages /\ PagesOf(g) \cap PagesOf(group) = {}
           /\ \E kd \in Nat : FreeingAt(chain[group], data, sealed, vac, next_page_id, kd)
<1>1. PGP!Inv /\ Kinds /\ Phases /\ Sound
  BY DEF IInv
<1>2. /\ phase = "vacuum" /\ loop_group = group /\ vacuums \in 1 .. 2
      /\ DOMAIN rows = PG!Groups /\ group \in DOMAIN rows /\ ~damaged
  BY <1>1 DEF Phases, Clearing
<1>3. /\ Half /\ \A g \in DOMAIN rows : g # group => GroupTidy(g)
      /\ \E kd \in Nat : FreeingAt(chain[group], data, sealed, vac, next_page_id, kd)
  BY <1>1 DEF Sound, Tidiness, Freeing
<1>4. Listed(chain[group], group, header)
  BY <1>2, ListsOf
<1>5. ASSUME NEW g \in DOMAIN rows, g # group
      PROVE  PagesOf(g) \subseteq PG!Pages /\ PagesOf(g) \cap PagesOf(group) = {}
  <2>1. group \in PG!Groups \ {g}
    BY <1>2, <1>5
  <2> QED BY <2>1, ListsOf DEF PagesOf
<1> QED BY <1>1, <1>2, <1>3, <1>4, <1>5

LEMMA TakenOut ==
    ASSUME PGP!Inv, NEW g \in PG!Groups, NEW k \in 1 .. Len(chain[g]),
           NEW p, p = chain[g][k], NEW t, t = PG!Without(chain[g], p)
    PROVE  /\ Len(t) = Len(chain[g]) - 1
           /\ \A i \in 1 .. Len(chain[g]) - 1 :
                 t[i] = IF i < k THEN chain[g][i] ELSE chain[g][i + 1]
<1>1. PGP!TypeOK /\ PGP!Distinct /\ g \in PGP!Groups
  BY SameNames DEF PGP!Inv
<1>2. PGP!IsWithout(PGP!Without(chain[g], p), chain[g], k)
  BY <1>1, PGP!WithoutFacts, DataAssumption
<1>3. t = PGP!Without(chain[g], p)
  BY SameWithout
<1> QED BY <1>2, <1>3 DEF PGP!IsWithout

(* One more emptied page goes.                                             *)
LEMMA FreeingGoesOn ==
    ASSUME NEW s, NEW g, NEW h, Listed(s, g, h),
           NEW d, NEW sl, NEW v, NEW p, p # NULL, NEW kd \in Nat,
           FreeingAt(s, d, sl, v, p, kd),
           NEW kn, kn = kd + 1,
           NEW t, Len(t) = Len(s) - 1,
           \A i \in 1 .. Len(s) - 1 : t[i] = IF i < kn THEN s[i] ELSE s[i + 1],
           NEW c, \A q \in PG!Pages : q # p => c[q] = d[q],
           \A q \in PG!Pages : c[q].item_amount = d[q].item_amount
    PROVE  FreeingAt(t, c, sl, v, h[p].next, kd)
<1>1. Len(s) \in Nat /\ DOMAIN s = 1 .. Len(s) /\ IsInjective(s)
  BY Zenon DEF Listed
<1>2. /\ kd \in 1 .. Len(s) /\ v.dest = s[kd]
      /\ p = IF kd = Len(s) THEN NULL ELSE s[kd + 1]
      /\ InFront(s, d, sl, kd) /\ Emptied(s, d, kd + 1, Len(s))
  BY Zenon DEF FreeingAt
<1>3. kd # Len(s) /\ kn \in 1 .. Len(s) /\ p = s[kn] /\ kn \in Nat
  BY <1>1, <1>2
<1>4. \A j \in 1 .. Len(s) : /\ s[j] \in PG!Pages
                              /\ h[s[j]].next = IF j = Len(s) THEN NULL ELSE s[j + 1]
  BY Zenon DEF Listed
<1>5. kd \in 1 .. Len(t) /\ Len(t) \in Nat
  BY <1>1, <1>2, <1>3
<1>6. InFront(t, c, sl, kd)
  <2> SUFFICES ASSUME NEW j \in 1 .. kd
               PROVE  Tidy(c[t[j]], t[j] \in sl, j = 1) /\ Reclaimed(c[t[j]], t[j] \in sl)
    BY DEF InFront
  <2>1. j \in 1 .. Len(s) - 1 /\ j < kn /\ j \in 1 .. Len(s) /\ j # kn
    BY <1>1, <1>2, <1>3
  <2>2. t[j] = s[j]
    BY <2>1
  <2>3. s[j] # p /\ s[j] \in PG!Pages
    BY <1>1, <1>3, <1>4, <2>1 DEF IsInjective
  <2>4. c[t[j]] = d[s[j]]
    BY <2>2, <2>3
  <2> QED BY <1>2, <2>2, <2>4 DEF InFront, Tidy, Reclaimed
<1>7. Emptied(t, c, kd + 1, Len(t))
  <2> SUFFICES ASSUME NEW j \in kd + 1 .. Len(t) PROVE c[t[j]].item_amount = 0
    BY DEF Emptied
  <2>1. PICK i \in Nat : i = j + 1
    BY <1>2
  <2>2. j \in 1 .. Len(s) - 1 /\ ~(j < kn) /\ i \in 1 .. Len(s) /\ i \in kd + 1 .. Len(s)
    BY <1>1, <1>2, <1>3, <2>1
  <2>3. t[j] = s[i] /\ s[i] \in PG!Pages
    BY <1>4, <2>1, <2>2
  <2>4. d[s[i]].item_amount = 0
    BY <1>2, <2>2 DEF Emptied
  <2> QED BY <2>3, <2>4
<1>8. v.dest = t[kd]
  <2>1. kd \in 1 .. Len(s) - 1 /\ kd < kn
    BY <1>1, <1>2, <1>3
  <2> QED BY <1>2, <2>1
<1>9. h[p].next = IF kd = Len(t) THEN NULL ELSE t[kd + 1]
  <2>1. h[p].next = IF kn = Len(s) THEN NULL ELSE s[kn + 1]
    BY <1>3, <1>4
  <2>2. kd = Len(t) <=> kn = Len(s)
    BY <1>1, <1>2, <1>3
  <2>3. kd # Len(t) => t[kd + 1] = s[kn + 1]
    <3>1. kd # Len(t) => kn \in 1 .. Len(s) - 1 /\ ~(kn < kn)
      BY <1>1, <1>3, <2>2
    <3> QED BY <3>1
  <2> QED BY <2>1, <2>2, <2>3
<1> QED BY <1>5, <1>6, <1>7, <1>8, <1>9 DEF FreeingAt

LEMMA FreePageStep == ASSUME IInv, FreePage PROVE IInv'
<1>1. /\ operation = "free" /\ ~harmed /\ PG!FreePageCurrent
      /\ data' = Forgotten(next_page_id) /\ harmed' = damaged'
      /\ UNCHANGED <<control, scanning, vac, rows, sealed>>
  BY DEF FreePage
<1>2. /\ PGP!Inv /\ Kinds /\ Phases /\ Half /\ ~damaged
      /\ phase = "vacuum" /\ loop_group = group /\ vacuums \in 1 .. 2
      /\ DOMAIN rows = PG!Groups /\ group \in DOMAIN rows
      /\ \A g \in DOMAIN rows : g # group => GroupTidy(g)
      /\ Listed(chain[group], group, header)
      /\ \A g \in DOMAIN rows : g # group =>
            PagesOf(g) \subseteq PG!Pages /\ PagesOf(g) \cap PagesOf(group) = {}
  BY <1>1, FreeFacts
<1>3. PICK p, g : p = next_page_id /\ g = group
  OBVIOUS
<1>4. PICK kd \in Nat : FreeingAt(chain[g], data, sealed, vac, p, kd)
  BY <1>1, <1>3, FreeFacts
<1>5. /\ p # NULL /\ next_page_id' = header[p].next
      /\ chain' = [chain EXCEPT ![g] = PG!Without(@, p)]
      /\ UNCHANGED <<phase, loop_group>>
  BY <1>2, <1>3, <1>1 DEF PG!FreePageCurrent, NULL
<1>6. PGP!Inv'
  BY <1>1, <1>2, GroupsStep
<1>7. PICK s : s = chain[g]
  OBVIOUS
<1>8. Listed(s, g, header) /\ g \in PG!Groups /\ g \in DOMAIN rows
  BY <1>2, <1>3, <1>7
<1>9. /\ Len(s) \in Nat /\ kd \in 1 .. Len(s)
      /\ p = IF kd = Len(s) THEN NULL ELSE s[kd + 1]
      /\ \A j \in 1 .. Len(s) : s[j] \in PG!Pages
  BY Zenon, <1>4, <1>7, <1>8 DEF Listed, FreeingAt
<1>10. PICK kn \in 1 .. Len(s) : kn = kd + 1 /\ p = s[kn]
  BY <1>5, <1>9
<1>11. p \in PG!Pages /\ p \in PagesOf(g)
  BY <1>7, <1>8, <1>9, <1>10 DEF PagesOf, Range, Listed
<1>12. /\ data' \in [PG!Pages -> Page]
       /\ \A q \in PG!Pages : q # p => data'[q] = data[q]
       /\ \A q \in PG!Pages : data'[q].item_amount = data[q].item_amount
  BY <1>1, <1>2, <1>3, <1>11, Forgets DEF Kinds
<1>13. DOMAIN chain' = PG!Groups /\ \A h \in PG!Groups : h # g => chain'[h] = chain[h]
  BY <1>5, PageNumbers
<1>14. damaged' \in BOOLEAN
  BY <1>6, SameActions DEF PGP!Inv, PGP!TypeOK
<1>15. Kinds'
  <2>1. DOMAIN rows' \subseteq PG!Groups' /\ \A h \in DOMAIN rows' : rows'[h] \subseteq Items
    BY <1>1, <1>2, <1>13 DEF PG!Groups, Kinds
  <2> QED BY <1>1, <1>2, <1>12, <1>14, <2>1 DEF Kinds, control, scanning
<1>16. Phases'
  <2>1. DOMAIN rows' = PG!Groups'
    BY <1>1, <1>2, <1>13 DEF PG!Groups
  <2>2. /\ operation' = "free" /\ group' = group /\ vacuums' = vacuums
        /\ phase' = "vacuum" /\ loop_group' = group /\ group # NULL /\ rows' = rows
    BY <1>1, <1>2, <1>5 DEF control, Phases
  <2> QED BY <1>1, <1>2, <2>1, <2>2 DEF Phases, Clearing
<1>17. ASSUME ~harmed' PROVE Sound'
  <2>1. Half'
    BY <1>2, <1>12 DEF Half
  <2>2. ASSUME NEW h \in DOMAIN rows, h # g PROVE GroupTidy(h)'
    <3>1. /\ GroupTidy(h) /\ chain'[h] = chain[h]
          /\ p \notin PagesOf(h) /\ PagesOf(h) \subseteq PG!Pages
      BY <1>2, <1>3, <1>11, <1>13, <2>2
    <3>2. \A q \in Range(chain[h]) : data'[q] = data[q] /\ (q \in sealed' <=> q \in sealed)
      BY <1>1, <1>12, <3>1 DEF PagesOf
    <3> QED BY <3>1, <3>2, GroupTidyKept
  <2>3. group' = g /\ operation' = "free" /\ rows' = rows /\ vac' = vac /\ sealed' = sealed
    BY <1>1, <1>3 DEF control
  <2>4. Tidiness'
    BY <2>2, <2>3 DEF Tidiness, Clearing
  <2>5. Freeing'
    <3>1. PICK t : t = PG!Without(s, p)
      OBVIOUS
    <3>2. /\ Len(t) = Len(s) - 1
          /\ \A i \in 1 .. Len(s) - 1 : t[i] = IF i < kn THEN s[i] ELSE s[i + 1]
      BY <1>2, <1>7, <1>8, <1>10, <3>1, TakenOut
    <3>3. PICK c, next : c = data' /\ next = header[p].next
      OBVIOUS
    <3>4. /\ \A q \in PG!Pages : q # p => c[q] = data[q]
          /\ \A q \in PG!Pages : c[q].item_amount = data[q].item_amount
      BY <1>12, <3>3
    <3>5. FreeingAt(s, data, sealed, vac, p, kd)
      BY <1>4, <1>7
    <3>6. FreeingAt(t, c, sealed, vac, header[p].next, kd)
      <4>1. PICK h, v, d, sl : h = header /\ v = vac /\ d = data /\ sl = sealed
        OBVIOUS
      <4>2. Listed(s, g, h) /\ FreeingAt(s, d, sl, v, p, kd)
        BY <1>8, <3>5, <4>1
      <4>3. /\ \A q \in PG!Pages : q # p => c[q] = d[q]
            /\ \A q \in PG!Pages : c[q].item_amount = d[q].item_amount
        BY <3>4, <4>1
      <4>4. /\ p # NULL /\ kn = kd + 1 /\ Len(t) = Len(s) - 1
            /\ \A i \in 1 .. Len(s) - 1 : t[i] = IF i < kn THEN s[i] ELSE s[i + 1]
        BY <1>5, <1>10, <3>2
      <4>5. FreeingAt(t, c, sl, v, h[p].next, kd)
        BY <4>2, <4>3, <4>4, FreeingGoesOn
      <4> QED BY <4>1, <4>5
    <3>7. chain'[g] = t
      BY <1>5, <1>7, <1>8, <3>1, PageNumbers
    <3>8. FreeingAt(chain'[group'], data', sealed', vac', next_page_id', kd)
      BY <1>5, <2>3, <3>3, <3>6, <3>7
    <3> QED BY <3>8 DEF Freeing
  <2>6. Vacuum' /\ Scan'
    BY <2>3 DEF Vacuum, Scan, Scans
  <2> QED BY <2>1, <2>4, <2>5, <2>6 DEF Sound
<1> QED BY <1>6, <1>15, <1>16, <1>17 DEF IInv

(* The last page is freed: vacuum returns, or starts again.                *)
LEMMA FreeReturnFacts ==
    ASSUME IInv, FreeReturn
    PROVE  /\ InFront(chain[group], data, sealed, Len(chain[group]))
           /\ Listed(chain[group], group, header)
<1>1. /\ operation = "free" /\ ~harmed /\ next_page_id = NULL
  BY DEF FreeReturn, PG!FreeRestReturn, NULL
<1>2. Listed(chain[group], group, header)
  BY <1>1, FreeFacts
<1>3. PICK kd \in Nat : FreeingAt(chain[group], data, sealed, vac, next_page_id, kd)
  BY <1>1, FreeFacts
<1>4. kd = Len(chain[group])
  <2>1. ASSUME kd # Len(chain[group]) PROVE FALSE
    <3>1. /\ kd \in 1 .. Len(chain[group]) /\ next_page_id = chain[group][kd + 1]
          /\ Len(chain[group]) \in Nat
          /\ \A j \in 1 .. Len(chain[group]) : chain[group][j] \in PG!Pages
      BY Zenon, <1>2, <1>3, <2>1 DEF FreeingAt, Listed
    <3>2. kd + 1 \in 1 .. Len(chain[group])
      BY <2>1, <3>1
    <3> QED BY <1>1, <3>1, <3>2, PageNumbers
  <2> QED BY <2>1
<1> QED BY <1>2, <1>3, <1>4 DEF FreeingAt

LEMMA FreeReturnStep == ASSUME IInv, FreeReturn PROVE IInv'
<1>1. /\ operation = "free" /\ ~harmed /\ PG!FreeRestReturn /\ RunVacuum(StillToRun)
      /\ UNCHANGED <<data, scanning, rows, sealed, harmed>>
  BY DEF FreeReturn
<1>2. /\ PGP!Inv /\ Kinds /\ Phases /\ Half /\ ~damaged /\ vacuums \in 1 .. 2
      /\ DOMAIN rows = PG!Groups /\ group \in DOMAIN rows
      /\ \A g \in DOMAIN rows : g # group => GroupTidy(g)
  BY <1>1, FreeFacts
<1>3. PICK times \in 0 .. 2 : times = StillToRun
  BY <1>2 DEF StillToRun
<1>4. phase' = "idle" /\ chain' = chain /\ damaged' = damaged
  BY <1>1 DEF PG!FreeRestReturn, PG!links, PG!history
<1>5. PGP!Inv'
  BY <1>1, <1>2, GroupsStep
<1>6. Half'
  BY <1>1, <1>2 DEF Half
<1>7. ASSUME NEW g \in DOMAIN rows PROVE GroupTidy(g)'
  <2>1. CASE g = group
    <3>1. PICK s : s = chain[g]
      OBVIOUS
    <3>2. InFront(s, data, sealed, Len(s)) /\ Listed(s, g, header)
      BY <2>1, <3>1, FreeReturnFacts
    <3>3. TidyPages(s, g, data, sealed)
      BY <3>2, AllTidy
    <3> QED BY <1>1, <1>4, <3>1, <3>3 DEF TidyPages, GroupTidy, PagesOf
  <2>2. CASE g # group
    <3>1. GroupTidy(g)
      BY <1>2, <2>2
    <3> QED BY <1>1, <1>4, <3>1, GroupTidyKept
  <2> QED BY <2>1, <2>2
<1>8. /\ data' \in [PG!Pages -> Page] /\ sealed' \subseteq PG!Pages /\ harmed' \in BOOLEAN
      /\ it' \in ItemIterator /\ scanned' \subseteq Items
      /\ DOMAIN rows' = DOMAIN rows /\ \A g \in DOMAIN rows : rows'[g] \subseteq Items
  BY <1>1, <1>2 DEF Kinds, scanning
<1> QED BY <1>1, <1>2, <1>3, <1>4, <1>5, <1>6, <1>7, <1>8, VacuumRuns

LEMMA ScanStepKeeps == ASSUME IInv, ScanStep PROVE IInv'
  BY PassItemStep, UpdateItemStep, DeleteItemStep, DeleteFirstStep, ScanReturnStep, ScanFailsStep
     DEF ScanStep

LEMMA VacuumStepKeeps == ASSUME IInv, VacuumStep PROVE IInv'
<1>1. \/ VacuumPage \/ VacuumStarts \/ VacuumSkips \/ VacuumMoves
      \/ VacuumMovesOn \/ VacuumGivesUp \/ VacuumEnd \/ FreePage \/ FreeReturn
  BY DEF VacuumStep
<1> QED BY <1>1, VacuumPageStep, VacuumStartsStep, VacuumSkipsStep, VacuumMovesStep,
           VacuumMovesOnStep, VacuumGivesUpStep, VacuumEndStep, FreePageStep, FreeReturnStep

LEMMA DeleteGroupStepKeeps == ASSUME IInv, DeleteGroupStep PROVE IInv'
<1>1. /\ harmed' = damaged' /\ UNCHANGED <<control, scanning, vac, rows, sealed>>
      /\ \/ PG!DeleteGroupTurn /\ data' = Forgotten(next_page_id)
         \/ PG!DeleteGroupReturn /\ UNCHANGED data
  BY DEF DeleteGroupStep
<1> QED BY <1>1, DeleteTurnStep, DeleteReturnStep

LEMMA StutterKeeps == ASSUME IInv, UNCHANGED vars PROVE IInv'
<1>1. /\ UNCHANGED groupVars /\ UNCHANGED <<data, operation, vacuums, group, it, scanned>>
      /\ UNCHANGED <<vac, rows, sealed, harmed>>
  BY DEF vars, control, scanning
<1>2. UNCHANGED <<header, chain, phase, loop_group, next_page_id, damaged>>
  BY <1>1 DEF groupVars
<1>3. PGP!Inv'
  BY <1>1, GroupsSame DEF IInv
<1>4. Kinds' /\ Phases'
  BY <1>1, <1>2 DEF IInv, Kinds, Phases, Clearing, PG!Groups
<1>5. ASSUME ~harmed' PROVE Sound'
  <2>1. Sound
    BY <1>1, <1>5 DEF IInv
  <2>2. Half' /\ Tidiness'
    BY <1>1, <1>2, <2>1 DEF Sound, Half, Tidiness, GroupTidy, PagesOf, Clearing
  <2>3. Vacuum' /\ Freeing' /\ Scan'
    BY <1>1, <1>2, <2>1 DEF Sound, Vacuum, Freeing, Scan, GroupTidy, PagesOf
  <2> QED BY <2>2, <2>3 DEF Sound
<1> QED BY <1>3, <1>4, <1>5 DEF IInv

LEMMA IInvNext == ASSUME IInv, [Next]_vars PROVE IInv'
<1>1. CASE CreateGroup
  BY <1>1, CreateGroupStep
<1>2. CASE \E g \in PG!Groups : DeleteGroup(g)
  BY <1>2, DeleteGroupBegins
<1>3. CASE \E g \in PG!Groups, t \in Items : Insert(g, t)
  BY <1>3, InsertStep
<1>4. CASE \E g \in PG!Groups, kind \in Scans : ScanBegin(g, kind)
  BY <1>4, ScanBeginStep
<1>5. CASE Running
  BY <1>5, ScanStepKeeps, VacuumStepKeeps, DeleteGroupStepKeeps DEF Running
<1>6. CASE Restart
  BY <1>6, RestartStep
<1>7. CASE UNCHANGED vars
  BY <1>7, StutterKeeps
<1> QED BY <1>1, <1>2, <1>3, <1>4, <1>5, <1>6, <1>7 DEF Next

(* The invariant holds in every state of every behaviour.                  *)
LEMMA SpecKeeps == Spec => []IInv
  BY IInvInit, IInvNext, PTL DEF Spec

(***************************************************************************)
(* Pages, iterators and the variables of a running vacuum keep their types, *)
(* whatever is inserted, scanned, deleted or vacuumed, in whatever order: in *)
(* particular items_start and items_end, which insert_item and vacuum_group *)
(* (page_data_manager.c) add to and subtract from, never leave the page by *)
(* more than the header of a page, and no table of ids outgrows its page.  *)
(***************************************************************************)
THEOREM TypeCorrect == Spec => []TypeOK
  BY SpecKeeps, TypesHold, PTL

LEMMA TidyPacked ==
    ASSUME NEW d, NEW b, NEW first, Tidy(d, b, first)
    PROVE  /\ \A i \in 1 .. d.item_amount :
                /\ d.ids[i].offset >= d.item_amount
                /\ i = 1 => End(d.ids, i) <= Capacity
           /\ \A i \in 1 .. d.item_amount :
                i + 1 \in 1 .. d.item_amount => End(d.ids, i + 1) = d.ids[i].offset
           /\ ~b => /\ d.start = d.item_amount
                    /\ d.item_amount # 0 => d.end = d.ids[d.item_amount].offset
<1>1. Row(d.ids, 1 .. d.item_amount, d.item_amount)
  BY Zenon DEF Tidy
<1>2. Placed(d.ids, 1 .. d.item_amount, d.item_amount) /\ Packed(d.ids, 1 .. d.item_amount)
  BY <1>1 DEF Row
<1>3. ~b => /\ d.start = d.item_amount
            /\ d.item_amount # 0 => d.end = d.ids[d.item_amount].offset
  BY Zenon DEF Tidy
<1> QED BY <1>2, <1>3 DEF Placed, Packed

(* What PagesPacked says of a page.                                        *)
PagePacked(d, b) ==
    /\ \A i \in 1 .. d.item_amount :
        /\ d.ids[i].offset >= d.item_amount
        /\ IF i = 1 THEN End(d.ids, i) <= Capacity ELSE End(d.ids, i) = d.ids[i - 1].offset
    /\ ~b => /\ d.start = d.item_amount
             /\ d.item_amount # 0 => d.end = d.ids[d.item_amount].offset

LEMMA TidyIsPacked ==
    ASSUME NEW d \in Page, NEW b, NEW first, Tidy(d, b, first) PROVE PagePacked(d, b)
<1>1. d.item_amount \in Nat
  BY DataAssumption DEF Page
<1>2. ASSUME NEW i \in 1 .. d.item_amount, i # 1 PROVE End(d.ids, i) = d.ids[i - 1].offset
  <2>1. PICK j \in 1 .. d.item_amount : i = j + 1 /\ j = i - 1
    BY <1>1, <1>2
  <2> QED BY <2>1, TidyPacked
<1>3. /\ \A i \in 1 .. d.item_amount :
            d.ids[i].offset >= d.item_amount /\ (i = 1 => End(d.ids, i) <= Capacity)
      /\ ~b => /\ d.start = d.item_amount
               /\ d.item_amount # 0 => d.end = d.ids[d.item_amount].offset
  BY TidyPacked
<1> QED BY <1>2, <1>3 DEF PagePacked

LEMMA AllPacked == ASSUME IInv PROVE PagesPacked
<1> SUFFICES ASSUME Settled, NEW g \in DOMAIN rows, NEW p \in PagesOf(g)
             PROVE  PagePacked(data[p], p \in sealed \/ operation = "free")
  BY DEF PagesPacked, IdsOf, IdAt, PagePacked, End
<1>1. ~harmed /\ operation # "vacuum" /\ Sound /\ Kinds
  BY DEF IInv, Settled
<1>2. Listed(chain[g], g, header) /\ p \in PG!Pages
  BY <1>1, ListsOf
<1>3. data[p] \in Page
  BY <1>1, <1>2 DEF Kinds
<1>4. CASE GroupTidy(g)
  <2>1. Tidy(data[p], p \in sealed, p = g)
    BY <1>4 DEF GroupTidy
  <2>2. PagePacked(data[p], p \in sealed)
    BY <1>3, <2>1, TidyIsPacked
  <2> QED BY <2>2 DEF PagePacked
<1>5. CASE operation = "free" /\ g = group
  <2>1. PICK kd \in Nat : FreeingAt(chain[g], data, sealed, vac, next_page_id, kd)
    BY <1>1, <1>5 DEF Sound, Freeing
  <2>2. PICK s : s = chain[g]
    OBVIOUS
  <2>3. /\ DOMAIN s = 1 .. Len(s) /\ Len(s) \in Nat /\ kd \in 1 .. Len(s)
        /\ InFront(s, data, sealed, kd) /\ Emptied(s, data, kd + 1, Len(s))
    BY Zenon, <1>2, <2>1, <2>2 DEF Listed, FreeingAt
  <2>4. PICK j \in 1 .. Len(s) : p = s[j]
    BY <2>2, <2>3 DEF PagesOf, Range
  <2>5. CASE j \in 1 .. kd
    <3>1. Tidy(data[p], p \in sealed, j = 1)
      BY <2>3, <2>4, <2>5 DEF InFront
    <3>2. PagePacked(data[p], p \in sealed)
      BY <1>3, <3>1, TidyIsPacked
    <3> QED BY <3>2 DEF PagePacked
  <2>6. CASE j \notin 1 .. kd
    <3>1. j \in kd + 1 .. Len(s)
      BY <2>3, <2>6
    <3>2. data[p].item_amount = 0
      BY <2>3, <2>4, <3>1 DEF Emptied
    <3> QED BY <1>5, <3>2 DEF PagePacked
  <2> QED BY <2>5, <2>6
<1> QED BY <1>1, <1>4, <1>5 DEF Sound, Tidiness, Clearing

(***************************************************************************)
(* Outside of a running vacuum, and as long as the model follows the code  *)
(* (harmed is FALSE), the items of every page of every table lie one behind *)
(* the other without a gap or an overlap, behind their table of ids and not *)
(* across it: the writes of insert_item and of vacuum's moves in place     *)
(* (page_data_manager.c) never run over an id or over another item.        *)
(***************************************************************************)
THEOREM PagesStayPacked == Spec => []PagesPacked
  BY SpecKeeps, AllPacked, PTL

(* The steps that return from vacuum.                                      *)
LEMMA Returns ==
    ASSUME [Next]_vars, Clearing, operation' = "idle"
    PROVE  VacuumEnd \/ FreeReturn
<1>1. operation \in {"vacuum", "free"} /\ operation \notin Scans /\ operation # "idle"
  BY DEF Clearing, Scans
<1>2. operation' # operation
  BY <1>1
<1>3. ~CreateGroup /\ ~Restart /\ ~UNCHANGED vars
  BY <1>1, <1>2 DEF CreateGroup, Restart, Idle, vars, control
<1>4. \A g \in PG!Groups : ~DeleteGroup(g) /\ \A t \in Items : ~Insert(g, t)
  BY <1>1 DEF DeleteGroup, Insert, Idle
<1>5. \A g \in PG!Groups, kind \in Scans : ~ScanBegin(g, kind)
  BY <1>1 DEF ScanBegin, Idle
<1>6. ~ScanStep
  BY <1>1 DEF ScanStep, PassItem, UpdateItem, DeleteItem, DeleteFirst, ScanReturn, ScanFails,
              NextItem, EndScan, Scanning
<1>7. ~DeleteGroupStep
  BY <1>2 DEF DeleteGroupStep, control
<1>8. ~VacuumPage /\ ~FreePage
  BY <1>2 DEF VacuumPage, FreePage, control
<1>9. ~VacuumItem
  BY <1>2 DEF VacuumItem, control
<1>10. ~VacuumStarts /\ ~VacuumSkips /\ ~VacuumMoves /\ ~VacuumMovesOn /\ ~VacuumGivesUp
  BY <1>9 DEF VacuumStarts, VacuumSkips, VacuumMoves, VacuumMovesOn, VacuumGivesUp, NoRoom
<1> QED BY <1>3, <1>4, <1>5, <1>6, <1>7, <1>8, <1>10 DEF Next, Running, VacuumStep

LEMMA ReclaimedAll ==
    ASSUME NEW s, NEW c, NEW sl, NEW g, NEW h, Listed(s, g, h),
           \A j \in 1 .. Len(s) : Reclaimed(c[s[j]], s[j] \in sl)
    PROVE  \A p \in Range(s) \ sl : \A i \in 1 .. c[p].item_amount : ~c[p].ids[i].deleted
<1>1. DOMAIN s = 1 .. Len(s)
  BY Zenon DEF Listed
<1> QED BY <1>1 DEF Range, Reclaimed, NoneDeletedIn

LEMMA Reclaims ==
    ASSUME IInv, [Next]_vars, NEW g \in DOMAIN rows, NEW skipped, skipped = sealed,
           g = group, operation \in {"vacuum", "free"}, operation' = "idle", ~harmed'
    PROVE  NoneDeleted(g, skipped)'
<1>1. VacuumEnd \/ FreeReturn
  BY Returns DEF Clearing
<1>2. PICK s, c : s = chain[g] /\ c = data'
  OBVIOUS
<1>3. ASSUME chain'[g] = s, Listed(s, g, header),
             \A j \in 1 .. Len(s) : Reclaimed(c[s[j]], s[j] \in skipped)
      PROVE  NoneDeleted(g, skipped)'
  <2>1. \A p \in Range(s) \ skipped : \A i \in 1 .. c[p].item_amount : ~c[p].ids[i].deleted
    BY <1>3, ReclaimedAll
  <2> QED BY <1>2, <1>3, <2>1 DEF NoneDeleted, PagesOf, IdsOf, IdAt
<1>4. CASE VacuumEnd
  <2>1. vac.dest_next = NULL /\ chain' = chain
    BY <1>4 DEF VacuumEnd, groupVars
  <2>2. Listed(s, g, header)
    BY <1>2, <1>4, VacuumFacts DEF VacuumEnd
  <2>3. PICK kd \in Nat :
           /\ kd \in 1 .. Len(s)
           /\ vac.dest_next = IF kd = Len(s) THEN NULL ELSE s[kd + 1]
           /\ AllVacuumed(s, c, skipped, sealed', kd)
    BY <1>2, <1>4, VacuumEndFacts
  <2>4. /\ Len(s) \in Nat /\ \A j \in 1 .. Len(s) : s[j] \in PG!Pages
    BY Zenon, <2>2 DEF Listed
  <2>5. kd = Len(s)
    <3>1. kd # Len(s) => kd + 1 \in 1 .. Len(s)
      BY <2>3, <2>4
    <3> QED BY <2>1, <2>3, <2>4, <3>1, PageNumbers
  <2>6. \A j \in 1 .. Len(s) : Reclaimed(c[s[j]], s[j] \in skipped)
    BY <2>3, <2>5 DEF AllVacuumed
  <2> QED BY <1>2, <1>3, <2>1, <2>2, <2>6
<1>5. CASE FreeReturn
  <2>1. InFront(s, data, skipped, Len(s)) /\ Listed(s, g, header)
    BY <1>2, <1>5, FreeReturnFacts
  <2>2. data' = data /\ chain' = chain
    BY <1>5 DEF FreeReturn, PG!FreeRestReturn, PG!links, PG!history
  <2>3. \A j \in 1 .. Len(s) : Reclaimed(c[s[j]], s[j] \in skipped)
    BY <1>2, <2>1, <2>2 DEF InFront
  <2> QED BY <1>2, <1>3, <2>1, <2>2, <2>3
<1> QED BY <1>1, <1>4, <1>5

(***************************************************************************)
(* When page_data_manager_vacuum returns, no page of the table holds an item *)
(* marked as deleted, but for the pages an earlier vacuum had sealed: the  *)
(* loop over the source pages, the moves in place, the emptied pages and   *)
(* page_group_free_rest leave none behind, on however many pages.          *)
(***************************************************************************)
THEOREM VacuumReclaimed == Spec => VacuumReclaims
<1>1. ASSUME IInv, [Next]_vars
      PROVE  [\A g \in DOMAIN rows, skipped \in {sealed} :
                /\ g = group /\ operation \in {"vacuum", "free"}
                /\ operation' = "idle" /\ ~harmed'
                => NoneDeleted(g, skipped)']_vars
  BY <1>1, Reclaims
<1>2. []IInv /\ [][Next]_vars => VacuumReclaims
  BY <1>1, PTL DEF VacuumReclaims
<1> QED BY <1>2, SpecKeeps, PTL DEF Spec

(* Every step takes at most one step of the page groups.                   *)
LEMMA GroupsNext == ASSUME IInv, [Next]_vars PROVE [PG!Next]_(PG!vars)
<1>1. UNCHANGED groupVars => UNCHANGED PG!vars
  BY DEF groupVars, PG!vars, PG!links, PG!loop, PG!history
<1>2. CASE CreateGroup
  BY <1>2 DEF CreateGroup, PG!Next
<1>3. ASSUME NEW g \in PG!Groups, DeleteGroup(g) PROVE [PG!Next]_(PG!vars)
  BY <1>3 DEF DeleteGroup, PG!Next
<1>4. ASSUME NEW g \in PG!Groups, NEW t \in Items, Insert(g, t) PROVE [PG!Next]_(PG!vars)
  BY <1>1, <1>4 DEF Insert, InsertIntoPage, InsertIntoNewPage, PG!Next
<1>5. ASSUME NEW g \in PG!Groups, NEW kind \in Scans, ScanBegin(g, kind)
      PROVE  [PG!Next]_(PG!vars)
  BY <1>1, <1>5 DEF ScanBegin
<1>6. CASE ScanStep
  BY <1>1, <1>6 DEF ScanStep, PassItem, UpdateItem, DeleteItem, DeleteFirst, ScanReturn,
                    ScanFails, NextItem, EndScan
<1>7. CASE VacuumEnd
  <2>1. CASE vac.dest_next = NULL
    BY <1>1, <1>7, <2>1 DEF VacuumEnd
  <2>2. CASE vac.dest_next # NULL
    <3>1. PG!FreeRest(group, vac.dest)
      BY <1>7, <2>2 DEF VacuumEnd
    <3>2. group \in PG!Groups /\ Listed(chain[group], group, header)
      BY <1>7, VacuumFacts DEF VacuumEnd
    <3>3. PICK kd \in Nat : kd \in 1 .. Len(chain[group]) /\ vac.dest = chain[group][kd]
      BY <1>7, VacuumEndFacts
    <3>4. vac.dest \in PG!Range(chain[group])
      <4>1. DOMAIN chain[group] = 1 .. Len(chain[group])
        BY Zenon, <3>2 DEF Listed
      <4> QED BY <3>3, <4>1 DEF PG!Range
    <3> QED BY <3>1, <3>2, <3>4 DEF PG!Next
  <2> QED BY <2>1, <2>2
<1>8. CASE VacuumStep
  <2>1. CASE VacuumPage
    BY <1>1, <2>1 DEF VacuumPage
  <2>2. CASE VacuumItem
    BY <1>1, <2>2 DEF VacuumItem
  <2>3. CASE FreePage
    BY <2>3 DEF FreePage, PG!Next, PG!LoopStep
  <2>4. CASE FreeReturn
    BY <2>4 DEF FreeReturn, PG!Next, PG!LoopStep
  <2>5. \/ VacuumPage \/ VacuumItem \/ VacuumEnd \/ FreePage \/ FreeReturn
    BY <1>8 DEF VacuumStep, VacuumStarts, VacuumSkips, VacuumMoves, VacuumMovesOn,
                VacuumGivesUp, NoRoom
  <2> QED BY <1>7, <2>1, <2>2, <2>3, <2>4, <2>5
<1>9. CASE DeleteGroupStep
  BY <1>9 DEF DeleteGroupStep, PG!Next, PG!LoopStep
<1>10. CASE Restart
  BY <1>10 DEF Restart, PG!Next
<1>11. CASE UNCHANGED vars
  BY <1>1, <1>11 DEF vars
<1> QED BY <1>2, <1>3, <1>4, <1>5, <1>6, <1>8, <1>9, <1>10, <1>11 DEF Next, Running

(***************************************************************************)
(* Every behaviour of page_data_manager.c, seen at the lists of its pages, *)
(* is one of page_group_manager.c alone: each operation on items calls at  *)
(* most one operation of the page groups at a time, as its contract allows; *)
(* what is proved in PageGroupManagerProofs therefore holds here.          *)
(***************************************************************************)
THEOREM GroupsImplemented == Spec => PG!Spec
<1>1. Init => PG!Init
  BY DEF Init
<1>2. []IInv /\ [][Next]_vars => [][PG!Next]_(PG!vars)
  BY GroupsNext, PTL
<1> QED BY <1>1, <1>2, SpecKeeps, PTL DEF Spec, PG!Spec
=============================================================================
