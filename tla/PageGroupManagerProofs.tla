----------------------- MODULE PageGroupManagerProofs -----------------------
(***************************************************************************)
(* What PageGroupManager promises of the page groups and the free list,    *)
(* for every number of pages.  The invariant follows both kinds of list    *)
(* through the loops of delete_group and vacuum, whose turns leave them    *)
(* half changed.                                                           *)
(*                                                                         *)
(* First the lists themselves: sequences that grow at the end, lose one    *)
(* page or everything behind one, and the page headers that link them.     *)
(***************************************************************************)
EXTENDS PageGroupManager, SequenceTheorems, TLAPS

(* A sequence with one element more.                                       *)
LEMMA AppendFacts ==
    ASSUME NEW S, NEW s \in Seq(S), NEW e \in S
    PROVE  /\ Append(s, e) \in Seq(S)
           /\ Len(Append(s, e)) = Len(s) + 1
           /\ \A i \in 1 .. Len(s) : Append(s, e)[i] = s[i]
           /\ Append(s, e)[Len(s) + 1] = e
           /\ Range(Append(s, e)) = Range(s) \cup {e}
           /\ IsInjective(s) /\ e \notin Range(s) => IsInjective(Append(s, e))
<1>1. /\ Append(s, e) \in Seq(S)
      /\ Len(Append(s, e)) = Len(s) + 1
      /\ \A i \in 1 .. Len(s) : Append(s, e)[i] = s[i]
      /\ Append(s, e)[Len(s) + 1] = e
      /\ Len(s) \in Nat
      /\ DOMAIN Append(s, e) = 1 .. Len(s) + 1
      /\ DOMAIN s = 1 .. Len(s)
  BY AppendProperties, LenProperties
<1>2. Range(Append(s, e)) = Range(s) \cup {e}
  BY <1>1 DEF Range
<1>3. IsInjective(s) /\ e \notin Range(s) => IsInjective(Append(s, e))
  BY <1>1 DEF Range, IsInjective
<1> QED  BY <1>1, <1>2, <1>3

(* The set of its elements alone, which the provers find easier by itself. *)
LEMMA AppendRange ==
    ASSUME NEW S, NEW s \in Seq(S), NEW e \in S
    PROVE  Range(Append(s, e)) = Range(s) \cup {e}
  BY AppendFacts

(* A page that is in the list once is taken from its place, and the pages  *)
(* behind it move up.                                                      *)
LEMMA WithoutIsRemoveAt ==
    ASSUME NEW S, NEW s \in Seq(S), NEW k \in 1 .. Len(s), IsInjective(s)
    PROVE  Without(s, s[k]) = RemoveAt(s, k)
  BY LenProperties DEF Without, RemoveFirst, SelectInSeq, Min, IsInjective

LEMMA RemoveFacts ==
    ASSUME NEW S, NEW s \in Seq(S), NEW k \in 1 .. Len(s)
    PROVE  /\ RemoveAt(s, k) \in Seq(S)
           /\ Len(RemoveAt(s, k)) = Len(s) - 1
           /\ \A i \in 1 .. Len(s) - 1 :
                 RemoveAt(s, k)[i] = IF i < k THEN s[i] ELSE s[i + 1]
           /\ IsInjective(s) => /\ Range(RemoveAt(s, k)) = Range(s) \ {s[k]}
                                /\ IsInjective(RemoveAt(s, k))
<1>1. Len(s) \in Nat /\ \A i \in 1 .. Len(s) : s[i] \in S
  BY LenProperties, ElementOfSeq
<1>2. /\ SubSeq(s, 1, k - 1) \in Seq(S)
      /\ Len(SubSeq(s, 1, k - 1)) = k - 1
      /\ \A i \in 1 .. k - 1 : SubSeq(s, 1, k - 1)[i] = s[i]
  BY <1>1, SubSeqProperties
<1>3. /\ SubSeq(s, k + 1, Len(s)) \in Seq(S)
      /\ Len(SubSeq(s, k + 1, Len(s))) = Len(s) - k
      /\ \A i \in 1 .. Len(s) - k : SubSeq(s, k + 1, Len(s))[i] = s[i + k]
  BY <1>1, SubSeqProperties
<1> DEFINE a == SubSeq(s, 1, k - 1)
           b == SubSeq(s, k + 1, Len(s))
           r == RemoveAt(s, k)
<1>4. /\ r \in Seq(S) /\ Len(r) = Len(s) - 1
      /\ \A i \in 1 .. Len(s) - 1 : r[i] = IF i < k THEN s[i] ELSE s[i + 1]
  <2>1. r = a \o b
    BY DEF RemoveAt
  <2> HIDE DEF a, b, r
  <2>2. /\ a \in Seq(S) /\ Len(a) = k - 1
        /\ \A i \in 1 .. k - 1 : a[i] = s[i]
    BY <1>2 DEF a
  <2>3. /\ b \in Seq(S) /\ Len(b) = Len(s) - k
        /\ \A i \in 1 .. Len(s) - k : b[i] = s[i + k]
    BY <1>3 DEF b
  <2>4. /\ r \in Seq(S) /\ Len(r) = Len(a) + Len(b)
        /\ \A i \in 1 .. Len(a) + Len(b) : r[i] = IF i <= Len(a) THEN a[i] ELSE b[i - Len(a)]
    BY <2>1, <2>2, <2>3, ConcatProperties
  <2>5. /\ Len(r) = Len(s) - 1
        /\ \A i \in 1 .. Len(s) - 1 : r[i] = IF i <= k - 1 THEN a[i] ELSE b[i - (k - 1)]
    BY <1>1, <2>2, <2>3, <2>4
  <2> SUFFICES ASSUME NEW i \in 1 .. Len(s) - 1
               PROVE  r[i] = IF i < k THEN s[i] ELSE s[i + 1]
    BY <2>4, <2>5
  <2>6. CASE i < k
    BY <1>1, <2>2, <2>5, <2>6
  <2>7. CASE i >= k
    <3>1. i - (k - 1) \in 1 .. Len(s) - k /\ ~(i <= k - 1) /\ i - (k - 1) + k = i + 1
      BY <1>1, <2>7
    <3>2. b[i - (k - 1)] = s[i - (k - 1) + k]
      BY <2>3, <3>1
    <3> QED BY <1>1, <2>5, <2>7, <3>1, <3>2
  <2> QED BY <1>1, <2>6, <2>7
<1>5. IsInjective(s) => /\ Range(RemoveAt(s, k)) = Range(s) \ {s[k]}
                        /\ IsInjective(RemoveAt(s, k))
  <2>1. /\ DOMAIN r = 1 .. Len(s) - 1 /\ DOMAIN s = 1 .. Len(s) /\ Len(s) \in Nat
        /\ \A i \in 1 .. Len(s) - 1 : r[i] = IF i < k THEN s[i] ELSE s[i + 1]
    BY <1>1, <1>4, LenProperties
  <2> HIDE DEF r
  <2> SUFFICES ASSUME IsInjective(s)
               PROVE  Range(r) = Range(s) \ {s[k]} /\ IsInjective(r)
    BY DEF r
  <2>2. ASSUME NEW x \in Range(s), x # s[k] PROVE x \in Range(r)
    <3>1. PICK i \in 1 .. Len(s) : x = s[i]
      BY <2>1 DEF Range
    <3>2. CASE i < k
      BY <2>1, <3>1, <3>2 DEF Range
    <3>3. CASE i > k
      <4>1. i - 1 \in 1 .. Len(s) - 1 /\ r[i - 1] = s[i]
        BY <2>1, <3>3
      <4> QED BY <2>1, <3>1, <4>1 DEF Range
    <3> QED BY <2>1, <2>2, <3>1, <3>2, <3>3
  <2>3. ASSUME NEW x \in Range(r) PROVE x \in Range(s) \ {s[k]}
    BY <2>1, <2>3 DEF Range, IsInjective
  <2>4. IsInjective(r)
    BY <2>1 DEF IsInjective
  <2> QED BY <2>2, <2>3, <2>4
<1> QED BY <1>4, <1>5

(* What is in front of a place, the place included.                        *)
LEMMA PrefixFacts ==
    ASSUME NEW S, NEW s \in Seq(S), NEW k \in 1 .. Len(s), IsInjective(s)
    PROVE  /\ SubSeq(s, 1, k) \in Seq(S)
           /\ Len(SubSeq(s, 1, k)) = k
           /\ \A i \in 1 .. k : SubSeq(s, 1, k)[i] = s[i]
           /\ Range(SubSeq(s, 1, k)) \subseteq Range(s)
           /\ IsInjective(SubSeq(s, 1, k))
<1>1. Len(s) \in Nat /\ DOMAIN s = 1 .. Len(s) /\ \A i \in 1 .. Len(s) : s[i] \in S
  BY LenProperties, ElementOfSeq
<1>2. /\ SubSeq(s, 1, k) \in Seq(S)
      /\ Len(SubSeq(s, 1, k)) = k
      /\ \A i \in 1 .. k : SubSeq(s, 1, k)[i] = s[i]
      /\ DOMAIN SubSeq(s, 1, k) = 1 .. k
  BY <1>1, SubSeqProperties, LenProperties
<1> QED BY <1>1, <1>2 DEF Range, IsInjective
-----------------------------------------------------------------------------
(* The invariant.  What the running loop holds, in every state.            *)
Phases ==
    /\ phase = "idle" => loop_group = PAGE_ID_NULL /\ next_page_id = PAGE_ID_NULL
    /\ phase # "idle" => loop_group \in Groups

(* No page is twice in a group.  A loop that damages the free list still   *)
(* goes on, so this is kept behind damage as well.                         *)
Distinct == \A g \in Groups : IsInjective(chain[g])

(* No page twice, nowhere, ...                                             *)
Apart ==
    /\ IsInjective(free)
    /\ Range(free) \cap leaked = {}
    /\ \A g \in Groups :
          /\ IsInjective(chain[g])
          /\ Range(chain[g]) \cap (Range(free) \cup leaked) = {}
          /\ \A h \in Groups \ {g} : Range(chain[g]) \cap Range(chain[h]) = {}

(* ... and every page somewhere.                                           *)
Whole ==
    \A p \in PageIds :
        p \in 1 .. page_amount <=>
            \/ p \in Range(free) \cup leaked
            \/ \E g \in Groups : p \in Range(chain[g])

(* delete_group has freed the pages in front of the next one; the loop of  *)
(* vacuum frees one behind the first.                                      *)
Deleting ==
    phase = "delete" =>
        /\ Linked(chain[loop_group])
        /\ next_page_id = IF chain[loop_group] = <<>> THEN PAGE_ID_NULL
                          ELSE chain[loop_group][1]
Vacuuming ==
    phase = "vacuum" =>
        \/ next_page_id = PAGE_ID_NULL
        \/ \E k \in 2 .. Len(chain[loop_group]) : next_page_id = chain[loop_group][k]

(* The free list from the application header in memory and the one in the  *)
(* file, which may be shorter, but has the same first page; the last page  *)
(* goes on as the loop left it.                                            *)
FreeEnds ==
    /\ free = <<>> <=> app.first_free_page = PAGE_ID_NULL
    /\ app.first_free_page = PAGE_ID_NULL <=> app.last_free_page = PAGE_ID_NULL
    /\ free # <<>> => app.first_free_page = free[1]
    /\ saved_app.first_free_page = PAGE_ID_NULL <=> saved_app.last_free_page = PAGE_ID_NULL
    /\ saved_app.first_free_page # PAGE_ID_NULL =>
          free # <<>> /\ saved_app.first_free_page = free[1]
Chained(s) == \A i \in 1 .. Len(s) - 1 : header[s[i]].next = s[i + 1]
FreeChained ==
    /\ Chained(free)
    /\ free # <<>> => header[free[Len(free)]].next \in {PAGE_ID_NULL, next_page_id}

Sound ==
    /\ Apart /\ Whole
    /\ GroupsLinked /\ TailKnown
    /\ Deleting /\ Vacuuming
    /\ FreeEnds /\ FreeChained
Inv == TypeOK /\ Phases /\ Distinct /\ (~damaged => Sound)

USE GroupAssumption DEF Pages, PageIds, PAGE_ID_NULL, Groups

LEMMA InvInit == Init => Inv
<1> SUFFICES ASSUME Init PROVE Inv
  OBVIOUS
<1>1. DOMAIN chain = {} /\ Range(free) = {} /\ leaked = {} /\ free = <<>> /\ Len(free) = 0
  BY DEF Init, Range
<1>2. TypeOK
  <2>1. <<>> \in Seq(Pages) /\ 0 \in 0 .. MaxPage
    BY EmptySeq
  <2> QED BY <1>1, <2>1
          DEF Init, TypeOK, PageHeader, NullHeader, ApplicationHeader, DefaultHeader
<1>3. Phases /\ Distinct /\ Deleting /\ Vacuuming /\ FreeEnds
  BY <1>1 DEF Init, Phases, Distinct, Deleting, Vacuuming, FreeEnds, DefaultHeader
<1>4. Apart /\ Whole /\ GroupsLinked /\ TailKnown /\ FreeChained
  BY <1>1 DEF Init, Apart, Whole, GroupsLinked, TailKnown, FreeChained, Chained, IsInjective, Settled
<1> QED BY <1>2, <1>3, <1>4 DEF Inv, Sound

(* Between calls nothing but a list is followed.                           *)
LEMMA IdleFacts ==
    ASSUME Inv, Idle
    PROVE  /\ TypeOK /\ Sound
           /\ loop_group = PAGE_ID_NULL /\ next_page_id = PAGE_ID_NULL
           /\ Settled = Groups
<1>1. TypeOK /\ Sound /\ loop_group = PAGE_ID_NULL /\ next_page_id = PAGE_ID_NULL
  BY DEF Inv, Idle, Phases
<1>2. loop_group \notin Groups
  BY <1>1 DEF TypeOK
<1> QED BY <1>1, <1>2 DEF Settled

(* The first page of a group that no loop deletes is its own.              *)
LEMMA FirstIsOwn ==
    ASSUME TypeOK, GroupsLinked, ~damaged, NEW g \in Settled
    PROVE  /\ g \in Range(chain[g]) /\ chain[g] \in Seq(Pages) /\ Len(chain[g]) \in Nat \ {0}
           /\ DOMAIN chain[g] = 1 .. Len(chain[g])
           /\ chain[g][1] = g
<1>1. g \in Groups /\ chain[g] \in Seq(Pages) /\ chain[g] # <<>> /\ chain[g][1] = g
  BY DEF Settled, TypeOK, GroupsLinked
<1>2. Len(chain[g]) \in Nat \ {0} /\ DOMAIN chain[g] = 1 .. Len(chain[g])
  BY <1>1, LenProperties, EmptySeq
<1> QED BY <1>1, <1>2 DEF Range

(* get_new_page takes a page that was free or is new, and leaves the links *)
(* of the others.                                                          *)
LEMMA TakePageFacts ==
    ASSUME Inv, Idle, TakePage
    PROVE  /\ NewPage \in Pages /\ NewPage \notin Groups
           /\ \A g \in Groups : NewPage \notin Range(chain[g])
           /\ page_amount' \in 0 .. MaxPage
           /\ 1 .. page_amount' = 1 .. page_amount \cup {NewPage}
           /\ app' \in ApplicationHeader /\ saved_app' \in ApplicationHeader
           /\ free' \in Seq(Pages) /\ IsInjective(free') /\ leaked' \subseteq Pages
           /\ Range(free') = Range(free) \ {NewPage}
           /\ leaked' = leaked \ {NewPage}
           /\ CreatedHeader \in [Pages -> PageHeader]
           /\ \A p \in Pages \ {NewPage} :
                 /\ CreatedHeader[p].next = header[p].next
                 /\ p \notin Range(free) => CreatedHeader[p] = header[p]
           /\ CreatedHeader[NewPage] = NullHeader
           /\ FreeEnds'
           /\ \A i \in 1 .. Len(free') : header[free'[i]].next =
                 IF i = Len(free') THEN PAGE_ID_NULL ELSE free'[i + 1]
<1>1. /\ TypeOK /\ Apart /\ Whole /\ GroupsLinked /\ FreeEnds /\ FreeChained
      /\ next_page_id = PAGE_ID_NULL /\ Settled = Groups /\ ~damaged
  BY IdleFacts DEF Sound, Idle
<1>2. \A g \in Groups : g \in Range(chain[g])
  BY <1>1, FirstIsOwn
<1>3. /\ header \in [Pages -> PageHeader] /\ free \in Seq(Pages)
      /\ app \in ApplicationHeader /\ saved_app \in ApplicationHeader
      /\ page_amount \in 0 .. MaxPage /\ leaked \subseteq Pages
  BY <1>1 DEF TypeOK
<1>4. CASE ~HasFreePage
  <2>1. free = <<>> /\ app.first_free_page = PAGE_ID_NULL /\ NewPage = page_amount + 1
    BY <1>1, <1>4 DEF FreeEnds, HasFreePage, NewPage
  <2>2. NewPage \in Pages /\ NewPage \notin 1 .. page_amount
    BY <1>3, <1>4, <2>1 DEF TakePage
  <2>3. /\ NewPage \notin Range(free) \cup leaked
        /\ \A g \in Groups : NewPage \notin Range(chain[g])
    BY <1>1, <2>2 DEF Whole
  <2>4. /\ page_amount' = page_amount + 1 /\ page_amount' \in 0 .. MaxPage
        /\ UNCHANGED <<app, saved_app, free, leaked>>
    BY <1>3, <1>4 DEF TakePage
  <2>5. CreatedHeader = [header EXCEPT ![NewPage] = NullHeader]
    BY <1>4 DEF CreatedHeader
  <2>6. 1 .. page_amount' = 1 .. page_amount \cup {NewPage}
    BY <1>3, <2>1, <2>4
  <2>7. NullHeader \in PageHeader
    BY DEF NullHeader, PageHeader
  <2>8. /\ FreeEnds' /\ IsInjective(free')
        /\ Len(free') = 0
    BY <1>1, <2>1, <2>4 DEF FreeEnds, Apart
  <2>9. NewPage \notin Groups
    BY <1>2, <2>3
  <2> QED BY <1>3, <2>1, <2>2, <2>3, <2>4, <2>5, <2>6, <2>7, <2>8, <2>9
<1>5. CASE HasFreePage
  <2> DEFINE first == app.first_free_page
             second == header[first].next
  <2>1. /\ free # <<>> /\ first = free[1] /\ NewPage = first
        /\ Len(free) \in Nat \ {0} /\ DOMAIN free = 1 .. Len(free)
    BY <1>1, <1>3, <1>5, LenProperties, EmptySeq DEF FreeEnds, HasFreePage, NewPage
  <2>2. first \in Range(free) /\ first \in Pages /\ first \in 1 .. page_amount
    BY <1>1, <1>3, <2>1, ElementOfSeq DEF Range, Whole
  <2>3. second = IF Len(free) = 1 THEN PAGE_ID_NULL ELSE free[2]
    BY <1>1, <2>1 DEF FreeChained, Chained
  <2>4. second \in PageIds
    BY <1>3, <2>2 DEF PageHeader
  <2>5. \A g \in Groups : first \notin Range(chain[g])
    BY <1>1, <2>2 DEF Apart
  <2>6. free' = RemoveAt(free, 1) /\ IsInjective(free)
    BY <1>1, <1>3, <1>5, <2>1, WithoutIsRemoveAt DEF TakePage, Apart
  <2>7. /\ free' \in Seq(Pages) /\ IsInjective(free') /\ Len(free') = Len(free) - 1
        /\ \A i \in 1 .. Len(free) - 1 : free'[i] = free[i + 1]
        /\ Range(free') = Range(free) \ {first}
    <3>1. 1 \in 1 .. Len(free)
      BY <2>1
    <3>2. /\ RemoveAt(free, 1) \in Seq(Pages)
          /\ Len(RemoveAt(free, 1)) = Len(free) - 1
          /\ \A i \in 1 .. Len(free) - 1 :
                RemoveAt(free, 1)[i] = IF i < 1 THEN free[i] ELSE free[i + 1]
          /\ Range(RemoveAt(free, 1)) = Range(free) \ {free[1]}
          /\ IsInjective(RemoveAt(free, 1))
      <4> DEFINE S == Pages
      <4> HIDE DEF S
      <4>1. free \in Seq(S) /\ IsInjective(free)
        BY <1>3, <2>6 DEF S
      <4>2. RemoveAt(free, 1) \in Seq(S)
        BY <4>1, <3>1, RemoveFacts
      <4>3. Len(RemoveAt(free, 1)) = Len(free) - 1
        BY <4>1, <3>1, RemoveFacts
      <4>4. Range(RemoveAt(free, 1)) = Range(free) \ {free[1]}
          /\ IsInjective(RemoveAt(free, 1))
        BY <4>1, <3>1, RemoveFacts
      <4>5. \A i \in 1 .. Len(free) - 1 :
                RemoveAt(free, 1)[i] = IF i < 1 THEN free[i] ELSE free[i + 1]
        BY <4>1, <3>1, RemoveFacts
      <4> QED BY <4>2, <4>3, <4>4, <4>5 DEF S
    <3>3. \A i \in 1 .. Len(free) - 1 : ~(i < 1)
      BY <2>1
    <3> QED BY <2>1, <2>6, <3>2, <3>3
  <2>8. /\ page_amount' = page_amount /\ leaked' = leaked \ {first}
        /\ app' = [app EXCEPT !.first_free_page = second,
                       !.last_free_page = IF second = PAGE_ID_NULL
                                          THEN PAGE_ID_NULL ELSE @]
        /\ saved_app' = app'
    BY <1>5 DEF TakePage
  <2>9. /\ app' \in ApplicationHeader /\ app'.first_free_page = second
        /\ app'.last_free_page = IF second = PAGE_ID_NULL THEN PAGE_ID_NULL
                                 ELSE app.last_free_page
    BY <1>3, <2>4, <2>8 DEF ApplicationHeader
  <2>10. second = PAGE_ID_NULL <=> Len(free) = 1
    BY <1>3, <2>1, <2>3, ElementOfSeq
  <2>11. FreeEnds'
    <3>1. free' = <<>> <=> Len(free) = 1
      BY <2>1, <2>7, EmptySeq
    <3>2. free' # <<>> => free'[1] = second
      BY <2>1, <2>3, <2>7, <3>1
    <3> QED BY <1>1, <1>5, <2>1, <2>8, <2>9, <2>10, <3>1, <3>2 DEF FreeEnds, HasFreePage
  <2>12. \A i \in 1 .. Len(free') : header[free'[i]].next =
             IF i = Len(free') THEN PAGE_ID_NULL ELSE free'[i + 1]
    <3> SUFFICES ASSUME NEW i \in 1 .. Len(free')
                 PROVE  header[free'[i]].next =
                           IF i = Len(free') THEN PAGE_ID_NULL ELSE free'[i + 1]
      OBVIOUS
    <3>1. free'[i] = free[i + 1] /\ i + 1 \in 1 .. Len(free)
      BY <2>1, <2>7
    <3>2. CASE i = Len(free')
      BY <1>1, <2>1, <2>7, <3>1, <3>2 DEF FreeChained
    <3>3. CASE i < Len(free')
      <4>1. i + 1 \in 1 .. Len(free) - 1 /\ free'[i + 1] = free[i + 1 + 1]
        BY <2>1, <2>7, <3>3
      <4> QED BY <1>1, <3>1, <3>3, <4>1 DEF FreeChained, Chained
    <3>4. Len(free') \in Nat
      BY <2>1, <2>7
    <3> QED BY <3>2, <3>3, <3>4
  <2>13. /\ CreatedHeader \in [Pages -> PageHeader]
         /\ CreatedHeader[first] = NullHeader
         /\ \A p \in Pages \ {first} :
               /\ CreatedHeader[p].next = header[p].next
               /\ p # second => CreatedHeader[p] = header[p]
    <3> DEFINE moved == IF second # PAGE_ID_NULL
                        THEN [header EXCEPT ![second].previous = PAGE_ID_NULL]
                        ELSE header
    <3>1. CreatedHeader = [moved EXCEPT ![first] = NullHeader]
      BY <1>5, <2>1 DEF CreatedHeader
    <3>2. /\ moved \in [Pages -> PageHeader]
          /\ \A p \in Pages : /\ moved[p].next = header[p].next
                              /\ p # second => moved[p] = header[p]
      BY <1>3, <2>4 DEF PageHeader
    <3> QED BY <2>2, <3>1, <3>2 DEF NullHeader, PageHeader
  <2>14. second # PAGE_ID_NULL => second \in Range(free)
    BY <2>1, <2>3, <2>10 DEF Range
  <2>15. first \notin Groups
    BY <1>2, <2>5
  <2>16. \A p \in Pages \ {first} : p \notin Range(free) => p # second
    BY <2>14
  <2>17. 1 .. page_amount' = 1 .. page_amount \cup {first}
    BY <2>2, <2>8
  <2> HIDE DEF first, second
  <2> QED
    BY <1>3, <2>1, <2>2, <2>5, <2>7, <2>8, <2>9, <2>11, <2>12, <2>13, <2>15, <2>16, <2>17
<1> QED BY <1>4, <1>5
-----------------------------------------------------------------------------
(* A group whose pages keep their headers stays a list.                    *)
LEMMA GroupKept ==
    ASSUME TypeOK, Sound, ~damaged, NEW g \in Settled, chain'[g] = chain[g],
           \A p \in Range(chain[g]) : header'[p] = header[p]
    PROVE  /\ (chain[g] # <<>> /\ chain[g][1] = g
               /\ Linked(chain[g]) /\ LinkedBack(chain[g]))'
           /\ g \notin shortened => (header[g].previous = Last(chain[g]))'
<1>1. /\ g \in Range(chain[g]) /\ chain[g] \in Seq(Pages) /\ Len(chain[g]) \in Nat \ {0}
      /\ DOMAIN chain[g] = 1 .. Len(chain[g])
  BY FirstIsOwn DEF Sound
<1>2. \A i \in 1 .. Len(chain[g]) : header'[chain[g][i]] = header[chain[g][i]]
  BY <1>1 DEF Range
<1>3. (chain[g] # <<>> /\ chain[g][1] = g /\ Linked(chain[g]))'
  BY <1>1, <1>2 DEF Sound, GroupsLinked, Linked
<1>4. LinkedBack(chain[g])'
  BY <1>1, <1>2 DEF Sound, GroupsLinked, LinkedBack
<1>5. g \notin shortened => (header[g].previous = Last(chain[g]))'
  BY <1>1 DEF Sound, TailKnown, Last
<1> QED BY <1>3, <1>4, <1>5

(* One link of one page is changed.                                        *)
NextSet(h, p, v) == [h EXCEPT ![p].next = v]
PreviousSet(h, p, v) == [h EXCEPT ![p].previous = v]
HeaderSet(h, p, r) == [h EXCEPT ![p] = r]

LEMMA NextSetFacts ==
    ASSUME NEW h \in [Pages -> PageHeader], NEW p \in Pages, NEW v \in PageIds
    PROVE  /\ NextSet(h, p, v) \in [Pages -> PageHeader]
           /\ NextSet(h, p, v)[p].next = v
           /\ NextSet(h, p, v)[p].previous = h[p].previous
           /\ \A q \in Pages \ {p} : NextSet(h, p, v)[q] = h[q]
  BY DEF PageHeader, NextSet

LEMMA PreviousSetFacts ==
    ASSUME NEW h \in [Pages -> PageHeader], NEW p \in Pages, NEW v \in PageIds
    PROVE  /\ PreviousSet(h, p, v) \in [Pages -> PageHeader]
           /\ PreviousSet(h, p, v)[p].previous = v
           /\ PreviousSet(h, p, v)[p].next = h[p].next
           /\ \A q \in Pages \ {p} : PreviousSet(h, p, v)[q] = h[q]
  BY DEF PageHeader, PreviousSet

LEMMA HeaderSetFacts ==
    ASSUME NEW h \in [Pages -> PageHeader], NEW p \in Pages, NEW r \in PageHeader
    PROVE  /\ HeaderSet(h, p, r) \in [Pages -> PageHeader]
           /\ HeaderSet(h, p, r)[p] = r
           /\ \A q \in Pages \ {p} : HeaderSet(h, p, r)[q] = h[q]
  BY DEF HeaderSet

(* A list is followed by "next" alone.                                     *)
ListIn(h, s) ==
    \A i \in 1 .. Len(s) : h[s[i]].next = IF i = Len(s) THEN PAGE_ID_NULL ELSE s[i + 1]
SameNext(h, k, s) == \A p \in Range(s) : k[p].next = h[p].next

LEMMA LinksKept ==
    ASSUME NEW S, NEW s \in Seq(S), NEW h, NEW k, SameNext(h, k, s), ListIn(h, s)
    PROVE  ListIn(k, s)
<1>1. DOMAIN s = 1 .. Len(s)
  BY LenProperties
<1>2. \A i \in 1 .. Len(s) : k[s[i]].next = h[s[i]].next
  BY <1>1 DEF SameNext, Range
<1> QED BY <1>2 DEF ListIn

LEMMA ListChained ==
    ASSUME NEW S, NEW s \in Seq(S), NEW h, ListIn(h, s)
    PROVE  /\ \A i \in 1 .. Len(s) - 1 : h[s[i]].next = s[i + 1]
           /\ s # <<>> => h[s[Len(s)]].next = PAGE_ID_NULL
<1>1. Len(s) \in Nat /\ (s # <<>> => Len(s) > 0)
  BY LenProperties, EmptySeq
<1>2. \A i \in 1 .. Len(s) - 1 : i \in 1 .. Len(s) /\ i # Len(s)
  BY <1>1
<1> QED BY <1>1, <1>2 DEF ListIn

BackIn(h, s) == \A i \in 2 .. Len(s) : h[s[i]].previous = s[i - 1]

LEMMA AppendLinks ==
    ASSUME NEW S, NEW s \in Seq(S), IsInjective(s), s # <<>>, NEW n \in S \ Range(s),
           NEW h, NEW k, ListIn(h, s), BackIn(h, s),
           k[n] = [previous |-> s[Len(s)], next |-> PAGE_ID_NULL],
           k[s[Len(s)]].next = n,
           \A p \in Range(s) \ {s[Len(s)]} : k[p].next = h[p].next,
           \A p \in Range(s) \ {s[1]} : k[p].previous = h[p].previous
    PROVE  ListIn(k, Append(s, n)) /\ BackIn(k, Append(s, n))
<1> PICK len : len = Len(s)
  OBVIOUS
<1> PICK t : t = Append(s, n)
  OBVIOUS
<1>1. /\ len \in Nat \ {0}
      /\ Len(t) = len + 1 /\ t[len + 1] = n
      /\ \A i \in 1 .. len : t[i] = s[i] /\ s[i] \in Range(s)
      /\ \A i, j \in 1 .. len : s[i] = s[j] => i = j
  BY AppendProperties, LenProperties, EmptySeq DEF Range, IsInjective
<1>2. /\ \A i \in 1 .. len : h[s[i]].next = IF i = len THEN PAGE_ID_NULL ELSE s[i + 1]
      /\ \A i \in 2 .. len : h[s[i]].previous = s[i - 1]
  BY DEF ListIn, BackIn
<1>3. /\ k[n].previous = s[len] /\ k[n].next = PAGE_ID_NULL
      /\ k[s[len]].next = n
      /\ \A p \in Range(s) \ {s[len]} : k[p].next = h[p].next
      /\ \A p \in Range(s) \ {s[1]} : k[p].previous = h[p].previous
  OBVIOUS
<1>4. ASSUME NEW i \in 1 .. len + 1
      PROVE  k[t[i]].next = IF i = len + 1 THEN PAGE_ID_NULL ELSE t[i + 1]
  <2>1. CASE i = len + 1
    BY <1>1, <1>3, <2>1
  <2>2. CASE i = len
    BY <1>1, <1>3, <2>2
  <2>3. CASE i # len /\ i # len + 1
    <3>1. i \in 1 .. len /\ i + 1 \in 1 .. len /\ len \in 1 .. len
      BY <1>1, <2>3
    <3>2. s[i] \in Range(s) \ {s[len]}
      BY <1>1, <2>3, <3>1
    <3> QED BY <1>1, <1>2, <1>3, <2>3, <3>1, <3>2
  <2> QED BY <2>1, <2>2, <2>3
<1>5. ASSUME NEW i \in 2 .. len + 1
      PROVE  k[t[i]].previous = t[i - 1]
  <2>1. CASE i = len + 1
    BY <1>1, <1>3, <2>1
  <2>2. CASE i # len + 1
    <3>1. i \in 1 .. len /\ i \in 2 .. len /\ i - 1 \in 1 .. len /\ 1 \in 1 .. len /\ i # 1
      BY <1>1, <2>2
    <3>2. s[i] \in Range(s) \ {s[1]}
      BY <1>1, <3>1
    <3>3. k[s[i]].previous = s[i - 1]
      BY <1>2, <1>3, <3>1, <3>2
    <3>4. t[i] = s[i] /\ t[i - 1] = s[i - 1]
      BY <1>1, <3>1
    <3> QED BY <3>3, <3>4
  <2> QED BY <2>1, <2>2
<1>6. ListIn(k, t)
  BY <1>1, <1>4 DEF ListIn
<1>7. BackIn(k, t)
  BY <1>1, <1>5 DEF BackIn
<1> QED BY <1>6, <1>7

LEMMA TailLinks ==
    ASSUME NEW S, NEW s \in Seq(S), IsInjective(s), s # <<>>, NEW h, ListIn(h, s),
           NEW t \in Seq(S), Len(t) = Len(s) - 1, \A i \in 1 .. Len(s) - 1 : t[i] = s[i + 1],
           NEW k, \A q \in Range(s) \ {s[1]} : k[q].next = h[q].next
    PROVE  /\ ListIn(k, t)
           /\ h[s[1]].next = IF t = <<>> THEN PAGE_ID_NULL ELSE t[1]
<1> PICK len : len = Len(s)
  OBVIOUS
<1>1. /\ len \in Nat \ {0}
      /\ \A i \in 1 .. len : s[i] \in Range(s)
      /\ \A i, j \in 1 .. len : s[i] = s[j] => i = j
      /\ Len(t) = len - 1 /\ (t = <<>> <=> len = 1)
      /\ \A i \in 1 .. len - 1 : t[i] = s[i + 1]
  <2>1. /\ len \in Nat \ {0} /\ DOMAIN s = 1 .. len
        /\ t = <<>> <=> Len(t) = 0
    BY LenProperties, EmptySeq
  <2>2. Len(t) = len - 1 /\ \A i \in 1 .. len - 1 : t[i] = s[i + 1]
    OBVIOUS
  <2>3. \A i \in 1 .. len : s[i] \in Range(s)
    BY <2>1 DEF Range
  <2>4. \A i, j \in 1 .. len : s[i] = s[j] => i = j
    BY <2>1 DEF IsInjective
  <2>5. t = <<>> <=> len = 1
    BY <2>1, <2>2
  <2> QED BY <2>1, <2>2, <2>3, <2>4, <2>5
<1>2. \A i \in 1 .. len : h[s[i]].next = IF i = len THEN PAGE_ID_NULL ELSE s[i + 1]
  BY DEF ListIn
<1>3. ASSUME NEW i \in 1 .. len - 1
      PROVE  k[t[i]].next = IF i = len - 1 THEN PAGE_ID_NULL ELSE t[i + 1]
  <2>1. i \in 1 .. len /\ i + 1 \in 1 .. len /\ 1 \in 1 .. len /\ i + 1 # 1
    BY <1>1
  <2>2. s[i + 1] \in Range(s) \ {s[1]}
    BY <1>1, <2>1
  <2>3. k[t[i]].next = IF i + 1 = len THEN PAGE_ID_NULL ELSE s[i + 1 + 1]
    BY <1>1, <1>2, <2>1, <2>2
  <2>4. CASE i = len - 1
    BY <1>1, <2>3, <2>4
  <2>5. CASE i # len - 1
    <3>1. i + 1 # len /\ i + 1 \in 1 .. len - 1
      BY <1>1, <2>5
    <3> QED BY <1>1, <2>3, <2>5, <3>1
  <2> QED BY <2>4, <2>5
<1>4. ListIn(k, t)
  BY <1>1, <1>3 DEF ListIn
<1>5. h[s[1]].next = IF t = <<>> THEN PAGE_ID_NULL ELSE t[1]
  <2>1. 1 \in 1 .. len /\ h[s[1]].next = IF 1 = len THEN PAGE_ID_NULL ELSE s[2]
    BY <1>1, <1>2
  <2>2. len # 1 => t[1] = s[2]
    BY <1>1
  <2> QED BY <1>1, <2>1, <2>2
<1> QED BY <1>4, <1>5

(* A page inside of a list leaves it, and those around it are linked.      *)
IsWithout(t, s, j) ==
    /\ t \in Seq(Pages) /\ IsInjective(t)
    /\ Range(t) = Range(s) \ {s[j]}
    /\ Len(t) = Len(s) - 1
    /\ \A i \in 1 .. Len(s) - 1 : t[i] = IF i < j THEN s[i] ELSE s[i + 1]

Relinked(h, k, s, j) ==
    /\ k[s[j - 1]].next = h[s[j]].next
    /\ \A q \in Range(s) \ {s[j - 1], s[j]} : k[q].next = h[q].next
    /\ j < Len(s) => k[s[j + 1]].previous = h[s[j]].previous
    /\ \A q \in Range(s) \ {s[j]} :
           (j < Len(s) => q # s[j + 1]) => k[q].previous = h[q].previous

LEMMA RemoveLinks ==
    ASSUME NEW s \in Seq(Pages), IsInjective(s), NEW j \in 2 .. Len(s),
           NEW h, ListIn(h, s), BackIn(h, s),
           NEW t, IsWithout(t, s, j), NEW k, Relinked(h, k, s, j)
    PROVE  ListIn(k, t) /\ BackIn(k, t)
<1> PICK len : len = Len(s)
  OBVIOUS
<1>1. /\ len \in Nat \ {0, 1} /\ j \in 2 .. len
      /\ \A i \in 1 .. len : s[i] \in Range(s)
      /\ \A i, l \in 1 .. len : s[i] = s[l] => i = l
  BY LenProperties DEF Range, IsInjective
<1>2. /\ Len(t) = len - 1
      /\ \A i \in 1 .. len - 1 : t[i] = IF i < j THEN s[i] ELSE s[i + 1]
  BY DEF IsWithout
<1>3. /\ \A i \in 1 .. len : h[s[i]].next = IF i = len THEN PAGE_ID_NULL ELSE s[i + 1]
      /\ \A i \in 2 .. len : h[s[i]].previous = s[i - 1]
  BY DEF ListIn, BackIn
<1>4. /\ k[s[j - 1]].next = h[s[j]].next
      /\ \A q \in Range(s) \ {s[j - 1], s[j]} : k[q].next = h[q].next
      /\ j < len => k[s[j + 1]].previous = h[s[j]].previous
      /\ \A q \in Range(s) \ {s[j]} : (j < len => q # s[j + 1]) => k[q].previous = h[q].previous
  BY DEF Relinked
<1>5. ASSUME NEW i \in 1 .. len, i # j - 1, i # j
      PROVE  k[s[i]].next = IF i = len THEN PAGE_ID_NULL ELSE s[i + 1]
  <2>1. s[i] \in Range(s) \ {s[j - 1], s[j]}
    BY <1>1, <1>5
  <2> QED BY <1>3, <1>4, <2>1
<1>6. ASSUME NEW i \in 1 .. len - 1
      PROVE  k[t[i]].next = IF i = len - 1 THEN PAGE_ID_NULL ELSE t[i + 1]
  <2>1. CASE i < j - 1
    <3>1. /\ i \in 1 .. len /\ i + 1 \in 1 .. len - 1 /\ i # len /\ i # j /\ i # j - 1
          /\ i + 1 < j /\ i # len - 1 /\ i < j
      BY <1>1, <2>1
    <3>2. k[s[i]].next = s[i + 1]
      BY <1>5, <3>1
    <3>3. t[i] = s[i] /\ t[i + 1] = s[i + 1]
      BY <1>2, <3>1
    <3> QED BY <3>1, <3>2, <3>3
  <2>2. CASE i = j - 1
    <3>1. t[i] = s[j - 1]
      BY <1>1, <1>2, <2>2
    <3>2. k[t[i]].next = IF j = len THEN PAGE_ID_NULL ELSE s[j + 1]
      <4>1. h[s[j]].next = IF j = len THEN PAGE_ID_NULL ELSE s[j + 1]
        <5>1. j \in 1 .. len
          BY <1>1
        <5> QED BY <1>3, <5>1
      <4> QED BY <1>4, <3>1, <4>1
    <3>3. i = len - 1 <=> j = len
      BY <1>1, <2>2
    <3>4. i # len - 1 => t[i + 1] = s[j + 1]
      <4>1. i # len - 1 => j \in 1 .. len - 1 /\ ~(j < j) /\ i + 1 = j
        BY <1>1, <2>2
      <4> QED BY <1>2, <4>1
    <3> QED BY <3>2, <3>3, <3>4
  <2>3. CASE i > j - 1
    <3>1. i + 1 \in 1 .. len /\ i + 1 # j - 1 /\ i + 1 # j /\ ~(i < j)
      BY <1>1, <2>3
    <3>2. k[s[i + 1]].next = IF i + 1 = len THEN PAGE_ID_NULL ELSE s[i + 1 + 1]
      BY <1>5, <3>1
    <3>3. t[i] = s[i + 1]
      BY <1>2, <3>1
    <3>4. i # len - 1 => t[i + 1] = s[i + 1 + 1]
      <4>1. i # len - 1 => i + 1 \in 1 .. len - 1 /\ ~(i + 1 < j)
        BY <1>1, <2>3
      <4> QED BY <1>2, <4>1
    <3>5. i = len - 1 <=> i + 1 = len
      BY <1>1
    <3> QED BY <3>2, <3>3, <3>4, <3>5
  <2> QED BY <1>1, <2>1, <2>2, <2>3
<1>7. ASSUME NEW i \in 2 .. len - 1
      PROVE  k[t[i]].previous = t[i - 1]
  <2>1. CASE i < j
    <3>1. i \in 1 .. len /\ i - 1 \in 1 .. len - 1 /\ i \in 1 .. len - 1 /\ i - 1 < j
      BY <1>1, <2>1
    <3>2. t[i] = s[i] /\ t[i - 1] = s[i - 1]
      BY <1>2, <2>1, <3>1
    <3>3. s[i] \in Range(s) \ {s[j]} /\ (j < len => s[i] # s[j + 1])
      BY <1>1, <2>1, <3>1
    <3>4. k[s[i]].previous = h[s[i]].previous
      BY <1>4, <3>3
    <3>5. i \in 2 .. len
      BY <3>1
    <3>6. h[s[i]].previous = s[i - 1]
      BY <1>3, <3>5
    <3> QED BY <3>2, <3>4, <3>6
  <2>2. CASE i = j
    <3>1. j < len /\ j \in 1 .. len - 1 /\ j - 1 \in 1 .. len - 1
      BY <1>1, <2>2
    <3>2. t[i] = s[j + 1] /\ t[i - 1] = s[j - 1]
      BY <1>1, <1>2, <2>2, <3>1
    <3> QED BY <1>3, <1>4, <3>1, <3>2
  <2>3. CASE i > j
    <3>1. /\ i + 1 \in 2 .. len /\ i + 1 \in 1 .. len /\ i - 1 \in 1 .. len - 1
          /\ i \in 1 .. len - 1 /\ ~(i < j) /\ ~(i - 1 < j) /\ i + 1 - 1 = i /\ i - 1 + 1 = i
      BY <1>1, <2>3
    <3>2. t[i] = s[i + 1] /\ t[i - 1] = s[i]
      BY <1>2, <3>1
    <3>3. s[i + 1] \in Range(s) \ {s[j]} /\ (j < len => s[i + 1] # s[j + 1])
      BY <1>1, <2>3, <3>1
    <3>4. k[s[i + 1]].previous = h[s[i + 1]].previous
      <4> PICK q : q = s[i + 1]
        OBVIOUS
      <4>1. q \in Range(s) \ {s[j]} /\ (j < len => q # s[j + 1])
        BY <3>3
      <4>2. k[q].previous = h[q].previous
        BY <1>4, <4>1
      <4> QED BY <4>2
    <3>5. h[s[i + 1]].previous = s[i]
      <4>1. \A l \in 2 .. len : h[s[l]].previous = s[l - 1]
        BY <1>3
      <4>2. h[s[i + 1]].previous = s[i + 1 - 1]
        BY <3>1, <4>1
      <4> QED BY <3>1, <4>2
    <3> QED BY <3>2, <3>4, <3>5
  <2> QED BY <1>1, <2>1, <2>2, <2>3
<1> QED BY <1>2, <1>6, <1>7 DEF ListIn, BackIn

(* The model's lists of pages are such lists of the headers.               *)
LEMMA LinkedAsList ==
    ASSUME NEW S, NEW s \in Seq(S)
    PROVE  Linked(s) <=> ListIn(header, s)
  BY LenProperties DEF Linked, ListIn

LEMMA FreeKept ==
    ASSUME free' \in Seq(Pages), SameNext(header, header', free'), ListIn(header, free')
    PROVE  FreeChained'
<1>1. ListIn(header', free')
  BY LinksKept
<1>2. /\ \A i \in 1 .. Len(free') - 1 : header'[free'[i]].next = free'[i + 1]
      /\ free' # <<>> => header'[free'[Len(free')]].next = PAGE_ID_NULL
  BY <1>1, ListChained
<1> QED BY <1>2 DEF FreeChained, Chained

(* What a step leaves of the pages of the groups it is not about.          *)
OthersKept ==
    ~damaged' => \A g \in Groups \cap DOMAIN chain' :
        chain'[g] = chain[g] /\ g # loop_group =>
            \A p \in Range(chain[g]) : header'[p] = header[p]

LEMMA CreateGroupStep == ASSUME Inv, CreateGroup PROVE Inv' /\ OthersKept
<1> PICK n : n = NewPage
  OBVIOUS
<1>1. /\ Idle /\ TakePage /\ ~damaged /\ damaged' = damaged /\ UNCHANGED loop
      /\ header' = [CreatedHeader EXCEPT ![n].previous = n]
      /\ chain' = [g \in DOMAIN chain \cup {n} |-> IF g = n THEN <<g>> ELSE chain[g]]
      /\ shortened' = shortened \ {n}
  BY DEF CreateGroup, Idle
<1>2. /\ TypeOK /\ Sound /\ Settled = Groups
      /\ loop_group = PAGE_ID_NULL /\ next_page_id = PAGE_ID_NULL
  BY <1>1, IdleFacts
<1>3. /\ n \in Pages /\ n \notin Groups
      /\ \A g \in Groups : n \notin Range(chain[g])
      /\ page_amount' \in 0 .. MaxPage
      /\ 1 .. page_amount' = 1 .. page_amount \cup {n}
      /\ app' \in ApplicationHeader /\ saved_app' \in ApplicationHeader
      /\ free' \in Seq(Pages) /\ IsInjective(free') /\ leaked' \subseteq Pages
      /\ Range(free') = Range(free) \ {n}
      /\ leaked' = leaked \ {n}
      /\ CreatedHeader \in [Pages -> PageHeader]
      /\ \A p \in Pages \ {n} :
            /\ CreatedHeader[p].next = header[p].next
            /\ p \notin Range(free) => CreatedHeader[p] = header[p]
      /\ CreatedHeader[n] = NullHeader
      /\ FreeEnds'
      /\ \A i \in 1 .. Len(free') : header[free'[i]].next =
            IF i = Len(free') THEN PAGE_ID_NULL ELSE free'[i + 1]
  BY <1>1, TakePageFacts
<1>4. /\ DOMAIN chain' = Groups \cup {n} /\ chain'[n] = <<n>>
      /\ \A g \in Groups : chain'[g] = chain[g]
  BY <1>1, <1>3
<1>5. /\ header' \in [Pages -> PageHeader]
      /\ header'[n] = [previous |-> n, next |-> PAGE_ID_NULL]
      /\ \A p \in Pages \ {n} : header'[p] = CreatedHeader[p]
  BY <1>1, <1>3 DEF PageHeader, NullHeader
<1>6. /\ <<n>> \in Seq(Pages) /\ Len(<<n>>) = 1 /\ <<n>>[1] = n
      /\ Range(<<n>>) = {n} /\ IsInjective(<<n>>) /\ <<n>> # <<>>
  BY <1>3 DEF Range, IsInjective
<1>7. TypeOK'
  BY <1>1, <1>2, <1>3, <1>4, <1>5, <1>6 DEF TypeOK, loop
<1>8. Phases' /\ Deleting' /\ Vacuuming'
  BY <1>1, <1>2 DEF Idle, loop, Phases, Deleting, Vacuuming
<1>9. Apart'
  <2>1. \A g \in Groups : Range(chain'[g]) = Range(chain[g]) /\ IsInjective(chain'[g])
    BY <1>2, <1>4 DEF Sound, Apart
  <2>2. Range(free') \cap leaked' = {}
    BY <1>2, <1>3 DEF Sound, Apart
  <2>3. \A g \in Groups : Range(chain[g]) \cap (Range(free') \cup leaked') = {}
    BY <1>2, <1>3 DEF Sound, Apart
  <2>4. \A g \in Groups : \A h \in Groups \ {g} : Range(chain[g]) \cap Range(chain[h]) = {}
    BY <1>2 DEF Sound, Apart
  <2>5. \A g \in Groups \cup {n} :
            /\ IsInjective(chain'[g])
            /\ Range(chain'[g]) \cap (Range(free') \cup leaked') = {}
    BY <1>3, <1>4, <1>6, <2>1, <2>3
  <2>6. \A g, h \in Groups \cup {n} : g # h => Range(chain'[g]) \cap Range(chain'[h]) = {}
    BY <1>3, <1>4, <1>6, <2>1, <2>4
  <2> QED BY <1>3, <1>4, <2>2, <2>5, <2>6 DEF Apart
<1>10. Whole'
  <2> SUFFICES ASSUME NEW p \in PageIds
               PROVE  p \in 1 .. page_amount' <=>
                         \/ p \in Range(free') \cup leaked'
                         \/ \E g \in DOMAIN chain' : p \in Range(chain'[g])
    BY DEF Whole
  <2>1. p \in 1 .. page_amount <=> \/ p \in Range(free) \cup leaked
                                   \/ \E g \in Groups : p \in Range(chain[g])
    BY <1>2 DEF Sound, Whole
  <2> QED BY <1>3, <1>4, <1>6, <2>1
<1>11. \A g \in Groups : \A p \in Range(chain[g]) : header'[p] = header[p]
  <2> SUFFICES ASSUME NEW g \in Groups, NEW p \in Range(chain[g])
               PROVE  header'[p] = header[p]
    OBVIOUS
  <2>1. p \in Pages /\ p # n /\ p \notin Range(free)
    BY <1>2, <1>3, RangeOfSeq DEF Sound, Apart, TypeOK
  <2> QED BY <1>3, <1>5, <2>1
<1>12. Settled' = Groups \cup {n}
  BY <1>1, <1>2, <1>3, <1>4 DEF loop, Settled, TypeOK
<1>13. GroupsLinked' /\ TailKnown'
  <2>1. \A g \in Groups : /\ (chain[g] # <<>> /\ chain[g][1] = g
                              /\ Linked(chain[g]) /\ LinkedBack(chain[g]))'
                          /\ g \notin shortened' => (header[g].previous = Last(chain[g]))'
    BY <1>1, <1>2, <1>3, <1>4, <1>11, GroupKept
  <2>2. (chain[n] # <<>> /\ chain[n][1] = n /\ header[n].previous = Last(chain[n]))'
    BY <1>4, <1>5, <1>6 DEF Last
  <2>3. (Linked(chain[n]) /\ LinkedBack(chain[n]))'
    BY <1>4, <1>5, <1>6 DEF Linked, LinkedBack
  <2> QED BY <1>12, <2>1, <2>2, <2>3 DEF GroupsLinked, TailKnown
<1>14. FreeChained'
  <2>1. SameNext(header, header', free') /\ ListIn(header, free')
    BY <1>3, <1>5, RangeOfSeq DEF SameNext, ListIn
  <2> QED BY <1>3, <2>1, FreeKept
<1> QED
  BY <1>3, <1>7, <1>8, <1>9, <1>10, <1>11, <1>13, <1>14 DEF Inv, Sound, Apart, Distinct, OthersKept

LEMMA AddPageStep == ASSUME Inv, NEW g \in Groups, AddPage(g) PROVE Inv' /\ OthersKept
<1> PICK n : n = NewPage
  OBVIOUS
<1> PICK old : old = CreatedHeader[g].previous
  OBVIOUS
<1>1. /\ Idle /\ TakePage /\ ~damaged /\ damaged' = (g \in shortened)
      /\ UNCHANGED loop /\ shortened' = shortened
      /\ old # PAGE_ID_NULL
      /\ header' = [[[CreatedHeader EXCEPT ![g].previous = n]
                        EXCEPT ![n] = [previous |-> old, next |-> PAGE_ID_NULL]]
                           EXCEPT ![old].next = n]
      /\ chain' = [chain EXCEPT ![g] = Append(@, n)]
  BY DEF AddPage, Idle
<1>2. /\ TypeOK /\ Sound /\ Settled = Groups
      /\ loop_group = PAGE_ID_NULL /\ next_page_id = PAGE_ID_NULL
  BY <1>1, IdleFacts
<1>3. /\ n \in Pages /\ n \notin Groups
      /\ \A h \in Groups : n \notin Range(chain[h])
      /\ page_amount' \in 0 .. MaxPage
      /\ 1 .. page_amount' = 1 .. page_amount \cup {n}
      /\ app' \in ApplicationHeader /\ saved_app' \in ApplicationHeader
      /\ free' \in Seq(Pages) /\ IsInjective(free') /\ leaked' \subseteq Pages
      /\ Range(free') = Range(free) \ {n}
      /\ leaked' = leaked \ {n}
      /\ CreatedHeader \in [Pages -> PageHeader]
      /\ \A p \in Pages \ {n} :
            /\ CreatedHeader[p].next = header[p].next
            /\ p \notin Range(free) => CreatedHeader[p] = header[p]
      /\ CreatedHeader[n] = NullHeader
      /\ FreeEnds'
      /\ \A i \in 1 .. Len(free') : header[free'[i]].next =
            IF i = Len(free') THEN PAGE_ID_NULL ELSE free'[i + 1]
  BY <1>1, TakePageFacts
<1>4. /\ g \in Range(chain[g]) /\ chain[g] \in Seq(Pages) /\ Len(chain[g]) \in Nat \ {0}
      /\ DOMAIN chain[g] = 1 .. Len(chain[g])
      /\ chain[g][1] = g /\ g \in Pages /\ g # n
      /\ \A i \in 1 .. Len(chain[g]) : chain[g][i] \in Pages /\ chain[g][i] \in Range(chain[g])
  BY <1>1, <1>2, <1>3, FirstIsOwn, RangeOfSeq DEF Sound, Range
<1>5. old \in Pages /\ old = header[g].previous
  <2>1. g \notin Range(free)
    BY <1>2, <1>4 DEF Sound, Apart
  <2> QED BY <1>1, <1>3, <1>4, <2>1 DEF PageHeader
<1>6. /\ DOMAIN chain' = Groups
      /\ chain'[g] = Append(chain[g], n)
      /\ \A h \in Groups \ {g} : chain'[h] = chain[h]
  BY <1>1
<1>7. /\ Append(chain[g], n) \in Seq(Pages)
      /\ Len(Append(chain[g], n)) = Len(chain[g]) + 1
      /\ \A i \in 1 .. Len(chain[g]) : Append(chain[g], n)[i] = chain[g][i]
      /\ Append(chain[g], n)[Len(chain[g]) + 1] = n
      /\ Range(Append(chain[g], n)) = Range(chain[g]) \cup {n}
      /\ IsInjective(Append(chain[g], n))
  <2> DEFINE S == Pages
  <2>1. chain[g] \in Seq(S) /\ n \in S /\ n \notin Range(chain[g]) /\ IsInjective(chain[g])
    BY <1>2, <1>3, <1>4 DEF Sound, Apart
  <2> HIDE DEF S
  <2>2. /\ Append(chain[g], n) \in Seq(S)
        /\ Len(Append(chain[g], n)) = Len(chain[g]) + 1
        /\ Append(chain[g], n)[Len(chain[g]) + 1] = n
    BY <2>1, AppendFacts
  <2>3. \A i \in 1 .. Len(chain[g]) : Append(chain[g], n)[i] = chain[g][i]
    BY <2>1, AppendFacts
  <2>4. /\ Range(Append(chain[g], n)) = Range(chain[g]) \cup {n}
        /\ IsInjective(Append(chain[g], n))
    BY <2>1, AppendFacts
  <2> QED BY <2>2, <2>3, <2>4 DEF S
<1>8. /\ header' \in [Pages -> PageHeader]
      /\ old # n => header'[n] = [previous |-> old, next |-> PAGE_ID_NULL]
      /\ old # n => header'[old].next = n
      /\ header'[g].previous = n
      /\ \A p \in Pages \ {n, old} : header'[p].next = header[p].next
      /\ \A p \in Pages \ {n, g, old} : header'[p] = CreatedHeader[p]
      /\ \A p \in Pages \ {n, g} : header'[p].previous = CreatedHeader[p].previous
  <2> PICK h : h = CreatedHeader
    OBVIOUS
  <2> PICK h1 : h1 = PreviousSet(h, g, n)
    OBVIOUS
  <2> PICK r : r = [previous |-> old, next |-> PAGE_ID_NULL]
    OBVIOUS
  <2> PICK h2 : h2 = HeaderSet(h1, n, r)
    OBVIOUS
  <2>1. header' = NextSet(h2, old, n) /\ h \in [Pages -> PageHeader]
    BY <1>1, <1>3 DEF NextSet, PreviousSet, HeaderSet
  <2>2. /\ g \in Pages /\ n \in Pages /\ old \in Pages /\ n \in PageIds
        /\ r \in PageHeader
    BY <1>3, <1>4, <1>5 DEF PageHeader
  <2>3. /\ h1 \in [Pages -> PageHeader] /\ h1[g].previous = n
        /\ h1[g].next = h[g].next
        /\ \A p \in Pages \ {g} : h1[p] = h[p]
    <3> HIDE DEF Pages, PageIds
    <3> QED BY <2>1, <2>2, PreviousSetFacts
  <2>4. /\ h2 \in [Pages -> PageHeader]
        /\ h2[n] = r
        /\ \A p \in Pages \ {n} : h2[p] = h1[p]
    <3> HIDE DEF Pages, PageIds
    <3>1. HeaderSet(h1, n, r) \in [Pages -> PageHeader]
      BY <2>3, <2>2, HeaderSetFacts
    <3>2. HeaderSet(h1, n, r)[n] = r
      BY <2>3, <2>2, HeaderSetFacts
    <3>3. \A p \in Pages \ {n} : HeaderSet(h1, n, r)[p] = h1[p]
      BY <2>3, <2>2, HeaderSetFacts
    <3> QED BY <3>1, <3>3, <3>2
  <2>5. /\ header' \in [Pages -> PageHeader]
        /\ header'[old].next = n /\ header'[old].previous = h2[old].previous
        /\ \A p \in Pages \ {old} : header'[p] = h2[p]
    <3> HIDE DEF Pages, PageIds
    <3> QED BY <2>1, <2>4, <2>2, NextSetFacts
  <2>6. \A p \in Pages : header'[p].previous = h2[p].previous
    BY <2>5
  <2>7. header'[g].previous = n
    BY <1>4, <2>3, <2>4, <2>6
  <2>8. \A p \in Pages \ {n, old} : header'[p].next = header[p].next
    <3> SUFFICES ASSUME NEW p \in Pages \ {n, old} PROVE header'[p].next = header[p].next
      OBVIOUS
    <3>1. header'[p] = h1[p]
      BY <2>4, <2>5
    <3>2. h1[p].next = h[p].next
      BY <2>3
    <3> QED BY <1>3, <3>1, <3>2
  <2>9. \A p \in Pages \ {n, g, old} : header'[p] = CreatedHeader[p]
    BY <2>3, <2>4, <2>5
  <2>10. \A p \in Pages \ {n, g} : header'[p].previous = CreatedHeader[p].previous
    BY <2>3, <2>4, <2>6
  <2> QED BY <1>3, <2>4, <2>5, <2>7, <2>8, <2>9, <2>10
<1>9. TypeOK'
  <2>1. \A h \in Groups : chain'[h] \in Seq(Pages)
    BY <1>2, <1>6, <1>7 DEF TypeOK
  <2>2. DOMAIN chain' \subseteq 1 .. page_amount' /\ shortened' \subseteq DOMAIN chain'
    BY <1>1, <1>2, <1>3, <1>6 DEF TypeOK
  <2>3. /\ phase' \in {"idle", "delete", "vacuum"}
        /\ loop_group' \in PageIds
        /\ next_page_id' \in PageIds
        /\ damaged' \in BOOLEAN
    BY <1>1, <1>2 DEF TypeOK, loop
  <2> QED BY <1>3, <1>6, <1>8, <2>1, <2>2, <2>3 DEF TypeOK
<1>10. Phases' /\ Deleting' /\ Vacuuming'
  BY <1>1, <1>2 DEF Idle, loop, Phases, Deleting, Vacuuming
<1>11. Distinct'
  BY <1>2, <1>6, <1>7 DEF Sound, Apart, Distinct
<1>12. CASE g \in shortened
  BY <1>1, <1>9, <1>10, <1>11, <1>12 DEF Inv, OthersKept
<1>13. CASE g \notin shortened
  <2>1. old = chain[g][Len(chain[g])] /\ old \in Range(chain[g]) /\ old # n
    BY <1>1, <1>2, <1>3, <1>4, <1>5, <1>13 DEF Sound, TailKnown, Last
  <2>2. Apart'
    <3>1. Range(free') \cap leaked' = {}
      BY <1>2, <1>3 DEF Sound, Apart
    <3>2. \A h \in Groups : Range(chain[h]) \cap (Range(free') \cup leaked') = {}
      BY <1>2, <1>3 DEF Sound, Apart
    <3>3. \A h, k \in Groups : h # k => Range(chain[h]) \cap Range(chain[k]) = {}
      BY <1>2 DEF Sound, Apart
    <3>4. \A h \in Groups : Range(chain'[h]) = IF h = g THEN Range(chain[h]) \cup {n}
                                               ELSE Range(chain[h])
      BY <1>6, <1>7
    <3>5. \A h \in Groups : IsInjective(chain'[h])
      BY <1>2, <1>6, <1>7 DEF Sound, Apart
    <3>6. \A h \in Groups : Range(chain'[h]) \cap (Range(free') \cup leaked') = {}
      BY <1>3, <3>2, <3>4
    <3>7. \A h, k \in Groups : h # k => Range(chain'[h]) \cap Range(chain'[k]) = {}
      <4> SUFFICES ASSUME NEW h \in Groups, NEW k \in Groups, h # k,
                          NEW p \in Range(chain'[h]), p \in Range(chain'[k])
                   PROVE  FALSE
        OBVIOUS
      <4>1. p \in Range(chain[h]) \/ (h = g /\ p = n)
        BY <3>4
      <4>2. p \in Range(chain[k]) \/ (k = g /\ p = n)
        BY <3>4
      <4> QED BY <1>3, <3>3, <4>1, <4>2
    <3> QED BY <1>3, <1>6, <3>1, <3>5, <3>6, <3>7 DEF Apart
  <2>3. Whole'
    <3> SUFFICES ASSUME NEW p \in PageIds
                 PROVE  p \in 1 .. page_amount' <=>
                           \/ p \in Range(free') \cup leaked'
                           \/ \E h \in DOMAIN chain' : p \in Range(chain'[h])
      BY DEF Whole
    <3>1. p \in 1 .. page_amount <=> \/ p \in Range(free) \cup leaked
                                     \/ \E h \in Groups : p \in Range(chain[h])
      BY <1>2 DEF Sound, Whole
    <3>2. \A h \in Groups : Range(chain'[h]) = IF h = g THEN Range(chain[h]) \cup {n}
                                               ELSE Range(chain[h])
      BY <1>6, <1>7
    <3> QED BY <1>3, <1>6, <3>1, <3>2
  <2>4. \A h \in Groups \ {g} : \A p \in Range(chain[h]) : header'[p] = header[p]
    <3> SUFFICES ASSUME NEW h \in Groups \ {g}, NEW p \in Range(chain[h])
                 PROVE  header'[p] = header[p]
      OBVIOUS
    <3>1. p \in Pages /\ p # n /\ p \notin Range(free)
      BY <1>2, <1>3, RangeOfSeq DEF Sound, Apart, TypeOK
    <3>2. p # g /\ p # old
      BY <1>2, <1>4, <2>1 DEF Sound, Apart
    <3> QED BY <1>3, <1>8, <3>1, <3>2
  <2>5. Settled' = Groups
    BY <1>1, <1>2, <1>6 DEF loop, Settled
  <2>6. \A h \in Groups \ {g} :
            /\ (chain[h] # <<>> /\ chain[h][1] = h /\ Linked(chain[h]) /\ LinkedBack(chain[h]))'
            /\ h \notin shortened' => (header[h].previous = Last(chain[h]))'
    BY <1>1, <1>2, <1>6, <2>4, GroupKept
  <2>7. (chain[g] # <<>> /\ chain[g][1] = g /\ header[g].previous = Last(chain[g]))'
    BY <1>4, <1>6, <1>7, <1>8 DEF Last
  <2>8. ListIn(header, chain[g]) /\ BackIn(header, chain[g]) /\ IsInjective(chain[g])
    BY <1>1, <1>2, <1>4, LinkedAsList DEF Sound, Apart, GroupsLinked, BackIn, LinkedBack
  <2>9. /\ header'[n] = [previous |-> old, next |-> PAGE_ID_NULL]
        /\ header'[old].next = n
        /\ \A p \in Range(chain[g]) \ {old} : header'[p].next = header[p].next
        /\ \A p \in Range(chain[g]) \ {g} : header'[p].previous = header[p].previous
    <3>1. \A p \in Range(chain[g]) : p \in Pages \ {n} /\ p \notin Range(free)
      BY <1>2, <1>3, <1>4, RangeOfSeq DEF Sound, Apart
    <3>2. \A p \in Range(chain[g]) \ {g} : header'[p].previous = header[p].previous
      BY <1>3, <1>8, <3>1
    <3> QED BY <1>8, <2>1, <3>1, <3>2
  <2>10. ListIn(header', Append(chain[g], n)) /\ BackIn(header', Append(chain[g], n))
    <3> DEFINE S == Pages
    <3>1. chain[g] \in Seq(S) /\ chain[g] # <<>> /\ n \in S \ Range(chain[g])
      BY <1>3, <1>4, EmptySeq
    <3> HIDE DEF S
    <3> QED BY <1>4, <2>1, <2>8, <2>9, <3>1, AppendLinks
  <2>11. Linked(chain[g])'
    <3>1. DOMAIN Append(chain[g], n) = 1 .. Len(Append(chain[g], n))
      BY <1>7, LenProperties
    <3> QED BY <1>6, <2>10, <3>1 DEF Linked, ListIn
  <2>12. LinkedBack(chain[g])'
    BY <1>6, <2>10 DEF LinkedBack, BackIn
  <2>13. GroupsLinked' /\ TailKnown'
    BY <2>5, <2>6, <2>7, <2>11, <2>12 DEF GroupsLinked, TailKnown
  <2>14. FreeChained'
    <3>1. SameNext(header, header', free') /\ ListIn(header, free')
      <4>1. \A p \in Range(free') : p \in Pages \ {n, old}
        BY <1>2, <1>3, <2>1, RangeOfSeq DEF Sound, Apart
      <4> QED BY <1>3, <1>8, <4>1 DEF SameNext, ListIn
    <3> QED BY <1>3, <3>1, FreeKept
  <2>15. OthersKept
    <3>1. chain'[g] # chain[g]
      <4>1. Len(chain'[g]) = Len(chain[g]) + 1
        BY <1>6, <1>7
      <4>2. \A l \in Nat : l + 1 # l
        OBVIOUS
      <4> QED BY <1>4, <4>1, <4>2
    <3> QED BY <1>6, <2>4, <3>1 DEF OthersKept
  <2> QED
    BY <1>3, <1>9, <1>10, <1>11, <2>2, <2>3, <2>13, <2>14, <2>15 DEF Inv, Sound
<1> QED BY <1>12, <1>13
-----------------------------------------------------------------------------
(* The steps that follow and change no page.                               *)
LEMMA OthersKeptBySame == ASSUME header' = header PROVE OthersKept
  BY DEF OthersKept

LEMMA SetMetaGroupStep ==
    ASSUME Inv, NEW g \in Groups, SetMetaGroup(g) PROVE Inv' /\ OthersKept
<1>1. /\ TypeOK /\ Sound /\ ~damaged /\ g \in PageIds
      /\ app' = [app EXCEPT !.meta_page = g] /\ saved_app' = app'
      /\ UNCHANGED <<page_amount, header, phase, loop_group, next_page_id>>
      /\ UNCHANGED <<chain, free, leaked, shortened, damaged>>
  BY IdleFacts DEF SetMetaGroup, Idle, links, loop, history, TypeOK
<1>2. /\ app' \in ApplicationHeader
      /\ app'.first_free_page = app.first_free_page
      /\ app'.last_free_page = app.last_free_page
  BY <1>1 DEF TypeOK, ApplicationHeader
<1>3. TypeOK'
  BY <1>1, <1>2 DEF TypeOK
<1>4. Phases' /\ Distinct'
  BY <1>1 DEF Inv, Phases, Distinct
<1>5. FreeEnds'
  BY <1>1, <1>2 DEF Sound, FreeEnds
<1>6. Apart' /\ Whole' /\ Deleting' /\ Vacuuming' /\ FreeChained'
  BY <1>1 DEF Sound, Apart, Whole, Deleting, Vacuuming, FreeChained, Chained, Linked
<1>7. GroupsLinked' /\ TailKnown'
  BY <1>1 DEF Sound, GroupsLinked, TailKnown, Settled, Linked, LinkedBack
<1> QED BY <1>1, <1>3, <1>4, <1>5, <1>6, <1>7, OthersKeptBySame DEF Inv, Sound

LEMMA DeleteGroupBegins ==
    ASSUME Inv, NEW g \in Groups, DeleteGroup(g) PROVE Inv' /\ OthersKept
<1>1. /\ TypeOK /\ Sound /\ ~damaged /\ g \in PageIds
      /\ Settled = Groups /\ next_page_id = PAGE_ID_NULL
      /\ phase' = "delete" /\ loop_group' = g /\ next_page_id' = g
      /\ UNCHANGED <<page_amount, header, app, saved_app>>
      /\ UNCHANGED <<chain, free, leaked, shortened, damaged>>
  BY IdleFacts DEF DeleteGroup, Idle, links, loop, history, TypeOK
<1>2. TypeOK' /\ Phases' /\ Distinct'
  BY <1>1 DEF TypeOK, Phases, Inv, Distinct
<1>3. Deleting' /\ Vacuuming'
  BY <1>1 DEF Sound, GroupsLinked, Deleting, Vacuuming, Linked
<1>4. Apart' /\ Whole' /\ FreeEnds'
  BY <1>1 DEF Sound, Apart, Whole, FreeEnds
<1>5. FreeChained'
  BY <1>1 DEF Sound, FreeChained, Chained
<1>6. Settled' \subseteq Settled
  BY <1>1 DEF Settled
<1>7. GroupsLinked'
  BY <1>1, <1>6 DEF Sound, GroupsLinked, Linked, LinkedBack
<1>8. TailKnown'
  BY <1>1, <1>6 DEF Sound, TailKnown
<1> QED BY <1>1, <1>2, <1>3, <1>4, <1>5, <1>7, <1>8, OthersKeptBySame DEF Inv, Sound

LEMMA FreeRestBegins ==
    ASSUME Inv, NEW g \in Groups, NEW p \in Range(chain[g]), FreeRest(g, p)
    PROVE  Inv' /\ OthersKept
<1>1. /\ TypeOK /\ Sound /\ ~damaged /\ g \in PageIds
      /\ Settled = Groups /\ next_page_id = PAGE_ID_NULL
      /\ header[p].next # PAGE_ID_NULL
      /\ phase' = "vacuum" /\ loop_group' = g /\ next_page_id' = header[p].next
      /\ UNCHANGED <<page_amount, header, app, saved_app>>
      /\ UNCHANGED <<chain, free, leaked, shortened, damaged>>
  BY IdleFacts DEF FreeRest, Idle, links, loop, history, TypeOK
<1>2. /\ chain[g] \in Seq(Pages) /\ Len(chain[g]) \in Nat
      /\ DOMAIN chain[g] = 1 .. Len(chain[g])
      /\ \A i \in 1 .. Len(chain[g]) : chain[g][i] \in Pages
  BY <1>1, FirstIsOwn, ElementOfSeq DEF Sound
<1>3. PICK i \in 1 .. Len(chain[g]) : p = chain[g][i]
  BY <1>2 DEF Range
<1>4. header[p].next = IF i = Len(chain[g]) THEN PAGE_ID_NULL ELSE chain[g][i + 1]
  BY <1>1, <1>2, <1>3 DEF Sound, GroupsLinked, Linked
<1>5. i + 1 \in 2 .. Len(chain[g]) /\ header[p].next = chain[g][i + 1]
  <2>1. i # Len(chain[g]) /\ header[p].next = chain[g][i + 1]
    BY <1>1, <1>4
  <2>2. \A l \in Nat : \A j \in 1 .. l : j # l => j + 1 \in 2 .. l
    OBVIOUS
  <2> QED BY <1>2, <2>1, <2>2
<1>6. header[p].next \in PageIds
  BY <1>2, <1>5
<1>7. TypeOK' /\ Phases' /\ Distinct'
  BY <1>1, <1>6 DEF TypeOK, Phases, Inv, Distinct
<1>8. Deleting' /\ Vacuuming'
  BY <1>1, <1>5 DEF Deleting, Vacuuming
<1>9. Apart' /\ Whole' /\ FreeEnds' /\ FreeChained'
  BY <1>1 DEF Sound, Apart, Whole, FreeEnds, FreeChained, Chained
<1>10. Settled' = Settled
  BY <1>1 DEF Settled
<1>11. GroupsLinked' /\ TailKnown'
  BY <1>1, <1>10 DEF Sound, GroupsLinked, TailKnown, Linked, LinkedBack
<1> QED BY <1>1, <1>7, <1>8, <1>9, <1>11, OthersKeptBySame DEF Inv, Sound

LEMMA FreeRestEnds == ASSUME Inv, FreeRestReturn PROVE Inv' /\ OthersKept
<1>1. /\ TypeOK /\ phase = "vacuum" /\ next_page_id = PAGE_ID_NULL
      /\ phase' = "idle" /\ loop_group' = PAGE_ID_NULL
      /\ UNCHANGED <<page_amount, header, app, saved_app, next_page_id>>
      /\ UNCHANGED <<chain, free, leaked, shortened, damaged>>
  BY DEF Inv, FreeRestReturn, links, history
<1>2. TypeOK' /\ Phases' /\ Distinct' /\ Deleting' /\ Vacuuming'
  BY <1>1 DEF TypeOK, Phases, Inv, Distinct, Deleting, Vacuuming
<1>3. Settled' \subseteq Settled
  BY <1>1 DEF Settled
<1>4. Sound => Apart' /\ Whole' /\ FreeEnds' /\ FreeChained'
  BY <1>1 DEF Sound, Apart, Whole, FreeEnds, FreeChained, Chained
<1>5. Sound => GroupsLinked' /\ TailKnown'
  BY <1>1, <1>3 DEF Sound, GroupsLinked, TailKnown, Linked, LinkedBack
<1> QED BY <1>1, <1>2, <1>4, <1>5, OthersKeptBySame DEF Inv, Sound

LEMMA DeleteGroupEnds == ASSUME Inv, DeleteGroupReturn PROVE Inv' /\ OthersKept
<1>1. /\ TypeOK /\ Phases /\ (~damaged => Sound)
      /\ phase = "delete" /\ next_page_id = PAGE_ID_NULL /\ loop_group \in Groups
      /\ phase' = "idle" /\ loop_group' = PAGE_ID_NULL /\ saved_app' = app
      /\ chain' = [g \in DOMAIN chain \ {loop_group} |-> chain[g]]
      /\ shortened' = shortened \ {loop_group}
      /\ leaked' = leaked \cup Range(chain[loop_group])
      /\ UNCHANGED <<page_amount, header, app, next_page_id, free, damaged>>
  BY DEF Inv, Phases, DeleteGroupReturn, links
<1>2. /\ DOMAIN chain' = Groups \ {loop_group}
      /\ \A g \in Groups \ {loop_group} : chain'[g] = chain[g]
  BY <1>1
<1>3. Range(chain[loop_group]) \subseteq Pages
  BY <1>1, RangeOfSeq DEF TypeOK
<1>4. TypeOK' /\ Phases' /\ Distinct' /\ Deleting' /\ Vacuuming'
  BY <1>1, <1>2, <1>3 DEF TypeOK, Phases, Inv, Distinct, Deleting, Vacuuming
<1>5. ASSUME ~damaged PROVE Sound'
  <2>1. Sound
    BY <1>1, <1>5
  <2>2. chain[loop_group] = <<>>
    <3>1. chain[loop_group] \in Seq(Pages)
      BY <1>1 DEF TypeOK
    <3>2. chain[loop_group] # <<>> => chain[loop_group][1] \in Pages
      <4> DEFINE s == chain[loop_group]
      <4> HIDE DEF s
      <4>1. s \in Seq(Pages) /\ s # <<>> => s[1] \in Pages
        BY LenProperties, EmptySeq, ElementOfSeq
      <4> QED BY <3>1, <4>1 DEF s
    <3> QED BY <1>1, <2>1, <3>2 DEF Sound, Deleting
  <2>3. Range(chain[loop_group]) = {} /\ leaked' = leaked
    <3>1. DOMAIN <<>> = {}
      OBVIOUS
    <3>2. Range(<<>>) = {}
      BY <3>1 DEF Range
    <3> QED BY <1>1, <2>2, <3>2
  <2>4. Settled' \subseteq Settled /\ Settled' \subseteq Groups \ {loop_group}
    BY <1>1, <1>2 DEF Settled
  <2>5. Apart'
    BY <1>1, <1>2, <2>1, <2>3 DEF Sound, Apart
  <2>6. Whole'
    BY <1>1, <1>2, <2>1, <2>3 DEF Sound, Whole
  <2>7. FreeEnds' /\ FreeChained'
    BY <1>1, <2>1 DEF Sound, FreeEnds, FreeChained, Chained
  <2>8. GroupsLinked' /\ TailKnown'
    BY <1>1, <1>2, <2>1, <2>4 DEF Sound, GroupsLinked, TailKnown, Linked, LinkedBack
  <2> QED BY <1>4, <2>5, <2>6, <2>7, <2>8 DEF Sound
<1> QED BY <1>1, <1>4, <1>5, OthersKeptBySame DEF Inv

LEMMA RestartStep == ASSUME Inv, Restart PROVE Inv' /\ OthersKept
<1>1. /\ TypeOK /\ Phases /\ Sound /\ ~damaged
      /\ app' = saved_app
      /\ UNCHANGED <<page_amount, header, saved_app, phase, loop_group, next_page_id>>
      /\ UNCHANGED <<chain, shortened, damaged>>
  BY IdleFacts DEF Restart, Idle, links, loop, Inv
<1>2. /\ free' \in Seq(Pages) /\ leaked' \subseteq Pages
      /\ Range(free') \cup leaked' = Range(free) \cup leaked
      /\ Range(free') \cap leaked' = {} /\ IsInjective(free')
      /\ FreeEnds' /\ FreeChained'
  <2>1. CASE saved_app.first_free_page = PAGE_ID_NULL
    <3>1. free' = <<>> /\ leaked' = leaked \cup Range(free)
      BY <2>1 DEF Restart
    <3>2. Len(<<>>) = 0 /\ DOMAIN <<>> = {} /\ <<>> \in Seq(Pages)
      BY EmptySeq
    <3>3. Range(<<>>) = {} /\ IsInjective(<<>>)
      BY <3>2 DEF Range, IsInjective
    <3>4. Range(free) \subseteq Pages
      BY <1>1, RangeOfSeq DEF TypeOK
    <3>5. FreeEnds'
      BY <1>1, <2>1, <3>1 DEF Sound, FreeEnds
    <3>6. FreeChained'
      BY <3>1, <3>2 DEF FreeChained, Chained
    <3> QED BY <1>1, <3>1, <3>2, <3>3, <3>4, <3>5, <3>6 DEF TypeOK
  <2>2. CASE saved_app.first_free_page # PAGE_ID_NULL
    <3>1. free' = free /\ leaked' = leaked
      BY <2>2 DEF Restart
    <3>2. FreeEnds'
      BY <1>1, <2>2, <3>1 DEF Sound, FreeEnds
    <3>3. FreeChained'
      BY <1>1, <3>1 DEF Sound, FreeChained, Chained
    <3> QED BY <1>1, <3>1, <3>2, <3>3 DEF TypeOK, Sound, Apart
  <2> QED BY <2>1, <2>2
<1>3. TypeOK' /\ Phases' /\ Distinct' /\ Deleting' /\ Vacuuming'
  BY <1>1, <1>2 DEF TypeOK, Phases, Inv, Distinct, Sound, Deleting, Vacuuming, Linked
<1>4. Apart'
  BY <1>1, <1>2 DEF Sound, Apart
<1>5. Whole'
  BY <1>1, <1>2 DEF Sound, Whole
<1>6. GroupsLinked' /\ TailKnown'
  BY <1>1 DEF Sound, GroupsLinked, TailKnown, Settled, Linked, LinkedBack
<1> QED BY <1>1, <1>2, <1>3, <1>4, <1>5, <1>6, OthersKeptBySame DEF Inv, Sound
-----------------------------------------------------------------------------
(* The two loops.  PagesTo(q) ends with q.                                 *)
LEMMA PagesToFacts ==
    ASSUME free \in Seq(Pages), NEW q \in Range(free)
    PROVE  \E k \in 1 .. Len(free) : free[k] = q /\ PagesTo(q) = SubSeq(free, 1, k)
<1>1. DOMAIN free = 1 .. Len(free)
  BY LenProperties
<1>2. \E k \in DOMAIN free : free[k] = q
  BY DEF Range
<1> PICK k : k = CHOOSE i \in DOMAIN free : free[i] = q
  OBVIOUS
<1>3. k \in 1 .. Len(free) /\ free[k] = q
  BY <1>1, <1>2
<1> QED BY <1>3 DEF PagesTo

LEMMA FreedHeaderFacts ==
    ASSUME NEW h \in [Pages -> PageHeader], NEW p \in Pages, app.last_free_page \in PageIds
    PROVE  /\ FreedHeader(h, p) \in [Pages -> PageHeader]
           /\ \A q \in Pages \ {p, app.last_free_page} : FreedHeader(h, p)[q] = h[q]
           /\ app.last_free_page = PAGE_ID_NULL => FreedHeader(h, p)[p].next = PAGE_ID_NULL
           /\ app.last_free_page \in Pages \ {p} =>
                 /\ FreedHeader(h, p)[p].next = h[p].next
                 /\ FreedHeader(h, p)[app.last_free_page].next = p
<1> PICK last : last = app.last_free_page
  OBVIOUS
<1>1. CASE last = PAGE_ID_NULL
  BY <1>1 DEF FreedHeader, NullHeader, PageHeader
<1>2. CASE last # PAGE_ID_NULL
  <2>1. last \in Pages
    BY <1>2
  <2> PICK h1 : h1 = NextSet(h, last, p)
    OBVIOUS
  <2>2. FreedHeader(h, p) = PreviousSet(h1, p, last)
    BY <1>2 DEF FreedHeader, NextSet, PreviousSet
  <2>3. p \in PageIds
    OBVIOUS
  <2>4. /\ h1 \in [Pages -> PageHeader] /\ h1[last].next = p
        /\ \A q \in Pages \ {last} : h1[q] = h[q]
    <3> HIDE DEF Pages, PageIds
    <3> QED BY <2>1, <2>3, NextSetFacts
  <2>5. /\ PreviousSet(h1, p, last) \in [Pages -> PageHeader]
        /\ PreviousSet(h1, p, last)[p].next = h1[p].next
        /\ \A q \in Pages \ {p} : PreviousSet(h1, p, last)[q] = h1[q]
    <3> HIDE DEF Pages, PageIds
    <3> QED BY <2>4, PreviousSetFacts
  <2> QED BY <1>2, <2>1, <2>2, <2>4, <2>5
<1> QED BY <1>1, <1>2

(* Whatever the lists are, the page is freed into headers and free pages.  *)
LEMMA FreePageTypes ==
    ASSUME TypeOK, NEW h \in [Pages -> PageHeader], NEW p \in Pages, FreePage(h, p)
    PROVE  /\ header' \in [Pages -> PageHeader]
           /\ app' \in ApplicationHeader
           /\ saved_app' = saved_app /\ page_amount' = page_amount
           /\ free' \in Seq(Pages) /\ leaked' \subseteq Pages
           /\ damaged' \in BOOLEAN
<1>1. /\ free \in Seq(Pages) /\ leaked \subseteq Pages /\ damaged \in BOOLEAN
      /\ app \in ApplicationHeader /\ app.last_free_page \in PageIds
  BY DEF TypeOK, ApplicationHeader
<1>2. header' \in [Pages -> PageHeader]
  BY <1>1, FreedHeaderFacts DEF FreePage
<1>3. app' \in ApplicationHeader
  BY <1>1 DEF FreePage, ApplicationHeader
<1>4. \A s \in Seq(Pages) : Append(s, p) \in Seq(Pages) /\ Range(s) \subseteq Pages
  BY AppendProperties, RangeOfSeq
<1>5. \A q \in Range(free) : PagesTo(q) \in Seq(Pages)
  <2> SUFFICES ASSUME NEW q \in Range(free) PROVE PagesTo(q) \in Seq(Pages)
    OBVIOUS
  <2>1. PICK k \in 1 .. Len(free) : free[k] = q /\ PagesTo(q) = SubSeq(free, 1, k)
    BY <1>1, PagesToFacts
  <2>2. \A i \in 1 .. k : free[i] \in Pages
    BY <1>1, <2>1, ElementOfSeq, LenProperties
  <2> QED BY <1>1, <2>1, <2>2, SubSeqProperties, LenProperties
<1>6. <<>> \in Seq(Pages)
  BY EmptySeq
<1> QED BY <1>1, <1>2, <1>3, <1>4, <1>5, <1>6 DEF FreePage

(* A page that is not free yet goes behind the last free page, and what    *)
(* was behind that one is lost.                                            *)
LEMMA FreePageFacts ==
    ASSUME TypeOK, Sound, ~damaged, ~damaged',
           NEW h \in [Pages -> PageHeader], NEW p \in Pages,
           p \notin Range(free) \cup leaked,
           SameNext(header, h, free), h[p].next = next_page_id', p = next_page_id,
           FreePage(h, p)
    PROVE  /\ \A q \in Pages \ {p} : q \notin Range(free) => header'[q] = h[q]
           /\ Range(free') \cup leaked' = Range(free) \cup leaked \cup {p}
           /\ Range(free') \cap leaked' = {} /\ IsInjective(free')
           /\ FreeEnds' /\ FreeChained'
<1> PICK last : last = app.last_free_page
  OBVIOUS
<1>1. /\ free \in Seq(Pages) /\ leaked \subseteq Pages
      /\ app \in ApplicationHeader /\ last \in PageIds
      /\ IsInjective(free) /\ Range(free) \cap leaked = {}
      /\ DOMAIN free = 1 .. Len(free) /\ Len(free) \in Nat
  BY LenProperties DEF TypeOK, ApplicationHeader, Sound, Apart
<1>2. /\ header' = FreedHeader(h, p) /\ saved_app' = saved_app
      /\ app' = [app EXCEPT !.last_free_page = p,
                    !.first_free_page = IF last = PAGE_ID_NULL THEN p ELSE @]
      /\ last = PAGE_ID_NULL \/ last \in Range(free)
  BY DEF FreePage
<1>3. /\ app'.last_free_page = p
      /\ app'.first_free_page = IF last = PAGE_ID_NULL THEN p ELSE app.first_free_page
  BY <1>1, <1>2 DEF ApplicationHeader
<1>4. CASE last = PAGE_ID_NULL
  <2>1. free = <<>> /\ app.first_free_page = PAGE_ID_NULL /\ Range(free) = {}
    <3>1. Range(<<>>) = {}
      BY DEF Range
    <3> QED BY <1>4, <3>1 DEF Sound, FreeEnds
  <2>2. free' = Append(<<>>, p) /\ leaked' = leaked
    BY <1>4, <2>1 DEF FreePage
  <2>3. free' = <<p>> /\ Range(<<p>>) = {p} /\ IsInjective(<<p>>) /\ <<p>> # <<>>
        /\ Len(<<p>>) = 1 /\ <<p>>[1] = p
    BY <2>2 DEF Range, IsInjective
  <2>4. /\ \A q \in Pages \ {p, last} : header'[q] = h[q]
        /\ header'[p].next = PAGE_ID_NULL
    <3> HIDE DEF Pages, PageIds
    <3> QED BY <1>1, <1>2, <1>4, FreedHeaderFacts
  <2>5. \A q \in Pages \ {p} : header'[q] = h[q]
    BY <1>4, <2>4
  <2>6. FreeEnds'
    BY <1>2, <1>3, <1>4, <2>1, <2>3 DEF Sound, FreeEnds
  <2>7. FreeChained'
    BY <2>3, <2>4 DEF FreeChained, Chained
  <2> QED BY <1>1, <2>1, <2>2, <2>3, <2>5, <2>6, <2>7
<1>5. CASE last # PAGE_ID_NULL
  <2>1. last \in Range(free) /\ last \in Pages \ {p}
    BY <1>1, <1>2, <1>5
  <2>2. PICK k \in 1 .. Len(free) : free[k] = last /\ PagesTo(last) = SubSeq(free, 1, k)
    BY <1>1, <2>1, PagesToFacts
  <2> PICK kept : kept = SubSeq(free, 1, k)
    OBVIOUS
  <2>3. free' = Append(kept, p) /\ leaked' = leaked \cup (Range(free) \ Range(kept))
    BY <1>5, <2>1, <2>2 DEF FreePage
  <2>4. /\ kept \in Seq(Pages) /\ Len(kept) = k
        /\ \A i \in 1 .. k : kept[i] = free[i]
        /\ Range(kept) \subseteq Range(free)
        /\ IsInjective(kept)
    <3> DEFINE S == Pages
    <3>1. free \in Seq(S)
      BY <1>1
    <3> HIDE DEF S
    <3>2. kept \in Seq(S) /\ Len(kept) = k
      BY <1>1, <3>1, PrefixFacts
    <3>3. \A i \in 1 .. k : kept[i] = free[i]
      BY <1>1, <3>1, PrefixFacts
    <3>4. Range(kept) \subseteq Range(free) /\ IsInjective(kept)
      BY <1>1, <3>1, PrefixFacts
    <3> QED BY <3>2, <3>3, <3>4 DEF S
  <2>5. /\ Len(free') = k + 1
        /\ \A i \in 1 .. k : free'[i] = free[i]
        /\ free'[k + 1] = p
        /\ Range(free') = Range(kept) \cup {p}
        /\ IsInjective(free')
    <3> DEFINE S == Pages
    <3>1. kept \in Seq(S) /\ p \in S /\ IsInjective(kept) /\ p \notin Range(kept)
      BY <2>4
    <3> HIDE DEF S
    <3>2. /\ Len(Append(kept, p)) = k + 1
          /\ Append(kept, p)[k + 1] = p
      BY <2>4, <3>1, AppendFacts
    <3>3. \A i \in 1 .. k : Append(kept, p)[i] = kept[i]
      BY <2>4, <3>1, AppendFacts
    <3>4. Range(Append(kept, p)) = Range(kept) \cup {p}
      <4>1. \A s \in Seq(S) : Range(Append(s, p)) = Range(s) \cup {p}
        BY <3>1, AppendRange
      <4> QED BY <3>1, <4>1
    <3>5. IsInjective(Append(kept, p))
      BY <3>1, AppendFacts
    <3> QED BY <2>3, <2>4, <3>2, <3>3, <3>4, <3>5
  <2>6. /\ \A q \in Pages \ {p, last} : header'[q] = h[q]
        /\ header'[p].next = h[p].next /\ header'[last].next = p
    <3> HIDE DEF Pages, PageIds
    <3> QED BY <1>1, <1>2, <2>1, FreedHeaderFacts
  <2>7. FreeEnds'
    <3>1. free # <<>> /\ app.first_free_page = free[1] /\ app.first_free_page # PAGE_ID_NULL
      BY <1>5 DEF Sound, FreeEnds
    <3>2. free'[1] = free[1] /\ free' # <<>>
      BY <1>1, <2>5
    <3> QED BY <1>2, <1>3, <1>5, <3>1, <3>2 DEF Sound, FreeEnds
  <2>8. FreeChained'
    <3>1. Len(free') - 1 = k
      BY <1>1, <2>5
    <3>2. ASSUME NEW i \in 1 .. k PROVE header'[free'[i]].next = free'[i + 1]
      <4>1. CASE i = k
        BY <2>2, <2>5, <2>6, <4>1
      <4>2. CASE i # k
        <5>1. i + 1 \in 1 .. k /\ i \in 1 .. Len(free) - 1 /\ i \in 1 .. Len(free)
          BY <1>1, <4>2
        <5>2. free[i] # last /\ free[i] \in Range(free) /\ free[i] \in Pages
          BY <1>1, <2>2, <4>2, <5>1, ElementOfSeq DEF IsInjective, Range
        <5>3. header'[free[i]] = h[free[i]]
          BY <2>6, <5>2
        <5>4. h[free[i]].next = header[free[i]].next
          BY <5>2 DEF SameNext
        <5>5. header[free[i]].next = free[i + 1]
          BY <5>1 DEF Sound, FreeChained, Chained
        <5> QED BY <2>5, <5>1, <5>3, <5>4, <5>5
      <4> QED BY <4>1, <4>2
    <3>3. header'[free'[Len(free')]].next = next_page_id'
      BY <2>5, <2>6
    <3> QED BY <3>1, <3>2, <3>3 DEF FreeChained, Chained
  <2>9. \A q \in Pages \ {p} : q \notin Range(free) => header'[q] = h[q]
    BY <2>1, <2>6
  <2>10. /\ Range(free') \cup leaked' = Range(free) \cup leaked \cup {p}
         /\ Range(free') \cap leaked' = {}
    BY <1>1, <2>3, <2>4, <2>5
  <2> QED BY <2>5, <2>7, <2>8, <2>9, <2>10
<1> QED BY <1>4, <1>5

LEMMA WithoutTyped ==
    ASSUME NEW S, NEW s \in Seq(S), IsInjective(s), NEW p
    PROVE  Without(s, p) \in Seq(S) /\ IsInjective(Without(s, p))
<1>1. CASE \E k \in 1 .. Len(s) : s[k] = p
  <2>1. PICK k \in 1 .. Len(s) : s[k] = p
    BY <1>1
  <2>2. Without(s, p) = RemoveAt(s, k)
    BY <2>1, WithoutIsRemoveAt
  <2> QED BY <2>2, RemoveFacts
<1>2. CASE ~ \E k \in 1 .. Len(s) : s[k] = p
  BY <1>2 DEF Without, RemoveFirst
<1> QED BY <1>1, <1>2

LEMMA TurnTypes ==
    ASSUME TypeOK, Phases, Distinct, phase # "idle", NEW h \in [Pages -> PageHeader],
           NEW p \in Pages, FreePage(h, p),
           chain' = [chain EXCEPT ![loop_group] = Without(@, p)],
           UNCHANGED <<phase, loop_group>>,
           next_page_id' \in PageIds, shortened' \subseteq Groups
    PROVE  TypeOK' /\ Phases' /\ Distinct'
<1>1. /\ header' \in [Pages -> PageHeader]
      /\ app' \in ApplicationHeader
      /\ saved_app' = saved_app /\ page_amount' = page_amount
      /\ free' \in Seq(Pages) /\ leaked' \subseteq Pages
      /\ damaged' \in BOOLEAN
  BY FreePageTypes
<1>2. loop_group \in Groups
  BY DEF Phases
<1>3. /\ DOMAIN chain' = Groups
      /\ \A g \in Groups : chain'[g] = IF g = loop_group THEN Without(chain[g], p) ELSE chain[g]
  BY <1>2
<1>4. \A g \in Groups : /\ chain[g] \in Seq(Pages)
                        /\ IsInjective(chain[g])
  BY DEF TypeOK, Distinct
<1>5. Without(chain[loop_group], p) \in Seq(Pages) /\ IsInjective(Without(chain[loop_group], p))
  BY <1>2, <1>4, WithoutTyped
<1>6. \A g \in Groups : chain'[g] \in Seq(Pages) /\ IsInjective(chain'[g])
  BY <1>3, <1>4, <1>5
<1>7. TypeOK'
  BY <1>1, <1>3, <1>6 DEF TypeOK
<1>8. Phases'
  BY <1>3 DEF Phases
<1>9. Distinct'
  BY <1>3, <1>6 DEF Distinct
<1> QED BY <1>7, <1>8, <1>9

(* The page goes from its group to the free list.                          *)
LEMMA TurnApart ==
    ASSUME TypeOK, Apart, Whole, NEW g \in Groups, NEW p \in Range(chain[g]), p \in Pages,
           page_amount' = page_amount,
           DOMAIN chain' = Groups, \A q \in Groups \ {g} : chain'[q] = chain[q],
           Range(chain'[g]) = Range(chain[g]) \ {p}, IsInjective(chain'[g]),
           Range(free') \cup leaked' = Range(free) \cup leaked \cup {p},
           Range(free') \cap leaked' = {}, IsInjective(free')
    PROVE  Apart' /\ Whole'
<1>1. \A q \in Groups : /\ IsInjective(chain[q])
                        /\ Range(chain[q]) \cap (Range(free) \cup leaked) = {}
  BY DEF Apart
<1>2. \A q, r \in Groups : q # r => Range(chain[q]) \cap Range(chain[r]) = {}
  BY DEF Apart
<1>3. \A q \in Groups : Range(chain'[q]) = Range(chain[q]) \ {p}
  BY <1>2
<1>4. \A q \in Groups : IsInjective(chain'[q])
  BY <1>1
<1>5. \A q \in Groups : Range(chain'[q]) \cap (Range(free') \cup leaked') = {}
  BY <1>1, <1>3
<1>6. \A q, r \in Groups : q # r => Range(chain'[q]) \cap Range(chain'[r]) = {}
  <2> SUFFICES ASSUME NEW q \in Groups, NEW r \in Groups, q # r
               PROVE  Range(chain'[q]) \cap Range(chain'[r]) = {}
    OBVIOUS
  <2> QED BY <1>2, <1>3
<1>7. Apart'
  BY <1>4, <1>5, <1>6 DEF Apart
<1>8. Whole'
  <2> SUFFICES ASSUME NEW x \in PageIds
               PROVE  x \in 1 .. page_amount' <=>
                         \/ x \in Range(free') \cup leaked'
                         \/ \E q \in DOMAIN chain' : x \in Range(chain'[q])
    BY DEF Whole
  <2>1. x \in 1 .. page_amount <=> \/ x \in Range(free) \cup leaked
                                   \/ \E q \in Groups : x \in Range(chain[q])
    BY DEF Whole
  <2> QED BY <1>3, <2>1
<1> QED BY <1>7, <1>8

(* Every page of a group is a page, in this group only and not free.       *)
LEMMA InGroup ==
    ASSUME TypeOK, Apart, NEW g \in Groups, NEW k \in 1 .. Len(chain[g]), NEW p, p = chain[g][k]
    PROVE  /\ p \in Pages /\ p \in Range(chain[g]) /\ p \notin Range(free) \cup leaked
           /\ \A h \in Groups \ {g} : p \notin Range(chain[h])
<1>1. p \in Pages /\ p \in Range(chain[g])
  BY ElementOfSeq, LenProperties DEF TypeOK, Range
<1> QED BY <1>1 DEF Apart

(* What a turn over group g finds and leaves, with the page's place k.     *)
LEMMA WithoutFacts ==
    ASSUME TypeOK, Distinct, NEW g \in Groups, NEW k \in 1 .. Len(chain[g]),
           NEW p, p = chain[g][k]
    PROVE  IsWithout(Without(chain[g], p), chain[g], k)
<1> DEFINE S == Pages
           s == chain[g]
<1>1. s \in Seq(S) /\ IsInjective(s) /\ k \in 1 .. Len(s) /\ p = s[k]
  BY DEF TypeOK, Distinct
<1> HIDE DEF S, s
<1>2. Without(s, p) = RemoveAt(s, k)
  BY <1>1, WithoutIsRemoveAt
<1>3. RemoveAt(s, k) \in Seq(S) /\ Len(RemoveAt(s, k)) = Len(s) - 1
  BY <1>1, RemoveFacts
<1>4. Range(RemoveAt(s, k)) = Range(s) \ {s[k]} /\ IsInjective(RemoveAt(s, k))
  BY <1>1, RemoveFacts
<1>5. \A i \in 1 .. Len(s) - 1 : RemoveAt(s, k)[i] = IF i < k THEN s[i] ELSE s[i + 1]
  BY <1>1, RemoveFacts
<1>6. IsWithout(RemoveAt(s, k), s, k)
  BY <1>3, <1>4, <1>5 DEF IsWithout, S
<1> QED BY <1>2, <1>6 DEF s

LEMMA DeleteGroupTurnStep == ASSUME Inv, DeleteGroupTurn PROVE Inv' /\ OthersKept
<1> PICK g : g = loop_group
  OBVIOUS
<1> PICK p : p = next_page_id
  OBVIOUS
<1>1. /\ TypeOK /\ Phases /\ Distinct /\ (~damaged => Sound)
      /\ phase = "delete" /\ p # PAGE_ID_NULL /\ g \in Groups /\ p \in Pages
      /\ next_page_id' = header[p].next
      /\ FreePage(header, p)
      /\ chain' = [chain EXCEPT ![g] = Without(@, p)]
      /\ UNCHANGED <<phase, loop_group, shortened>>
      /\ header \in [Pages -> PageHeader]
      /\ damaged => damaged'
  BY DEF Inv, TypeOK, Phases, DeleteGroupTurn, FreePage
<1>2. header[p].next \in PageIds
  BY <1>1 DEF PageHeader
<1>3. TypeOK' /\ Phases' /\ Distinct'
  <2>1. shortened' \subseteq Groups
    BY <1>1 DEF TypeOK
  <2> QED BY <1>1, <1>2, <2>1, TurnTypes
<1>4. CASE damaged'
  BY <1>3, <1>4 DEF Inv, OthersKept
<1>5. CASE ~damaged'
  <2>1. Sound /\ ~damaged
    BY <1>1, <1>5
  <2>2. chain[g] # <<>> /\ p = chain[g][1] /\ 1 \in 1 .. Len(chain[g])
        /\ Len(chain[g]) \in Nat /\ DOMAIN chain[g] = 1 .. Len(chain[g])
    <3>1. chain[g] # <<>> /\ p = chain[g][1]
      BY <1>1, <2>1 DEF Sound, Deleting
    <3>2. chain[g] \in Seq(Pages)
      BY <1>1 DEF TypeOK
    <3> QED BY <3>1, <3>2, LenProperties, EmptySeq
  <2>3. /\ p \in Range(chain[g]) /\ p \notin Range(free) \cup leaked
        /\ \A h \in Groups \ {g} : p \notin Range(chain[h])
    BY <1>1, <2>1, <2>2, InGroup DEF Sound
  <2>4. /\ \A q \in Pages \ {p} : q \notin Range(free) => header'[q] = header[q]
        /\ Range(free') \cup leaked' = Range(free) \cup leaked \cup {p}
        /\ Range(free') \cap leaked' = {} /\ IsInjective(free')
        /\ FreeEnds' /\ FreeChained'
    <3>1. SameNext(header, header, free)
      BY DEF SameNext
    <3> QED BY <1>1, <1>5, <2>1, <2>3, <3>1, FreePageFacts
  <2> PICK t : t = Without(chain[g], p)
    OBVIOUS
  <2>5. /\ t \in Seq(Pages) /\ IsInjective(t)
        /\ Range(t) = Range(chain[g]) \ {p}
        /\ Len(t) = Len(chain[g]) - 1
        /\ \A i \in 1 .. Len(chain[g]) - 1 : t[i] = chain[g][i + 1]
    <3>1. IsWithout(t, chain[g], 1)
      BY <1>1, <2>2, WithoutFacts
    <3>2. \A i \in 1 .. Len(chain[g]) - 1 : ~(i < 1)
      BY <2>2
    <3> QED BY <2>2, <3>1, <3>2 DEF IsWithout
  <2>6. /\ DOMAIN chain' = Groups /\ chain'[g] = t
        /\ \A h \in Groups \ {g} : chain'[h] = chain[h]
    BY <1>1
  <2>7. Apart' /\ Whole'
    <3>1. page_amount' = page_amount
      BY <1>1 DEF FreePage
    <3> QED BY <1>1, <2>1, <2>3, <2>4, <2>5, <2>6, <3>1, TurnApart DEF Sound
  <2>8. \A h \in Groups \ {g} : \A q \in Range(chain[h]) : header'[q] = header[q]
    <3> SUFFICES ASSUME NEW h \in Groups \ {g}, NEW q \in Range(chain[h])
                 PROVE  header'[q] = header[q]
      OBVIOUS
    <3>1. q \in Pages /\ q \notin Range(free) /\ q # p
      BY <1>1, <2>1, <2>3, RangeOfSeq DEF Sound, Apart, TypeOK
    <3> QED BY <2>4, <3>1
  <2>9. Settled' = Settled /\ Settled = Groups \ {g}
    BY <1>1, <2>6 DEF Settled
  <2>10. GroupsLinked' /\ TailKnown'
    <3>1. \A h \in Settled :
            /\ (chain[h] # <<>> /\ chain[h][1] = h /\ Linked(chain[h]) /\ LinkedBack(chain[h]))'
            /\ h \notin shortened => (header[h].previous = Last(chain[h]))'
      BY <1>1, <2>1, <2>6, <2>8, <2>9, GroupKept
    <3> QED BY <1>1, <2>9, <3>1 DEF GroupsLinked, TailKnown
  <2>11. ListIn(header', t) /\ header[p].next = IF t = <<>> THEN PAGE_ID_NULL ELSE t[1]
    <3>1. ListIn(header, chain[g]) /\ IsInjective(chain[g]) /\ chain[g] \in Seq(Pages)
      BY <1>1, <2>1, <2>2 DEF Sound, Deleting, Linked, ListIn, Distinct, TypeOK
    <3>2. \A q \in Range(chain[g]) \ {p} : header'[q].next = header[q].next
      <4> SUFFICES ASSUME NEW q \in Range(chain[g]) \ {p} PROVE header'[q] = header[q]
        OBVIOUS
      <4>1. q \in Pages /\ q \notin Range(free)
        BY <1>1, <2>1, <3>1, RangeOfSeq DEF Sound, Apart
      <4> QED BY <2>4, <4>1
    <3> HIDE DEF Pages
    <3>3. ListIn(header', t)
      BY <2>2, <2>5, <3>1, <3>2, TailLinks
    <3>4. header[p].next = IF t = <<>> THEN PAGE_ID_NULL ELSE t[1]
      BY <2>2, <2>5, <3>1, <3>2, TailLinks
    <3> QED BY <3>3, <3>4
  <2>12. Linked(t)'
    <3>1. DOMAIN t = 1 .. Len(t)
      BY <2>5, LenProperties
    <3> QED BY <2>11, <3>1 DEF Linked, ListIn
  <2>13. Deleting'
    BY <1>1, <2>6, <2>11, <2>12 DEF Deleting, Linked
  <2>14. Vacuuming'
    BY <1>1 DEF Vacuuming
  <2>15. OthersKept
    BY <1>1, <2>8 DEF OthersKept
  <2> QED BY <1>3, <2>4, <2>7, <2>10, <2>13, <2>14, <2>15 DEF Inv, Sound
<1> QED BY <1>4, <1>5

LEMMA UnlinkedFacts ==
    ASSUME header \in [Pages -> PageHeader], NEW p \in Pages
    PROVE  /\ Unlinked(p) \in [Pages -> PageHeader]
           /\ \A q \in Pages \ {header[p].previous, header[p].next} : Unlinked(p)[q] = header[q]
           /\ \A q \in Pages \ {header[p].previous} : Unlinked(p)[q].next = header[q].next
           /\ \A q \in Pages \ {header[p].next} : Unlinked(p)[q].previous = header[q].previous
           /\ header[p].previous # PAGE_ID_NULL =>
                 Unlinked(p)[header[p].previous].next = header[p].next
           /\ header[p].next # PAGE_ID_NULL =>
                 Unlinked(p)[header[p].next].previous = header[p].previous
<1> PICK before : before = header[p].previous
  OBVIOUS
<1> PICK after : after = header[p].next
  OBVIOUS
<1>1. before \in PageIds /\ after \in PageIds
  BY DEF PageHeader
<1> PICK h : h = IF before = PAGE_ID_NULL THEN header ELSE NextSet(header, before, after)
  OBVIOUS
<1>2. Unlinked(p) = IF after = PAGE_ID_NULL THEN h ELSE PreviousSet(h, after, before)
  BY DEF Unlinked, NextSet, PreviousSet
<1>3. /\ h \in [Pages -> PageHeader]
      /\ \A q \in Pages \ {before} : h[q] = header[q]
      /\ \A q \in Pages : h[q].previous = header[q].previous
      /\ before # PAGE_ID_NULL => h[before].next = after
  <2>1. CASE before = PAGE_ID_NULL
    BY <2>1
  <2>2. CASE before # PAGE_ID_NULL
    <3>1. before \in Pages
      BY <1>1, <2>2
    <3>2. /\ NextSet(header, before, after) \in [Pages -> PageHeader]
          /\ NextSet(header, before, after)[before].next = after
          /\ NextSet(header, before, after)[before].previous = header[before].previous
          /\ \A q \in Pages \ {before} : NextSet(header, before, after)[q] = header[q]
      <4> HIDE DEF Pages, PageIds
      <4> QED BY <1>1, <3>1, NextSetFacts
    <3> QED BY <2>2, <3>1, <3>2
  <2> QED BY <2>1, <2>2
<1> PICK u : u = Unlinked(p)
  OBVIOUS
<1>4. /\ u \in [Pages -> PageHeader]
      /\ \A q \in Pages \ {after} : u[q] = h[q]
      /\ \A q \in Pages : u[q].next = h[q].next
      /\ after # PAGE_ID_NULL => u[after].previous = before
  <2>1. CASE after = PAGE_ID_NULL
    BY <1>2, <1>3, <2>1
  <2>2. CASE after # PAGE_ID_NULL
    <3>1. after \in Pages
      BY <1>1, <2>2
    <3>2. u = PreviousSet(h, after, before)
      BY <1>2, <2>2
    <3>3. /\ PreviousSet(h, after, before) \in [Pages -> PageHeader]
          /\ PreviousSet(h, after, before)[after].previous = before
          /\ PreviousSet(h, after, before)[after].next = h[after].next
          /\ \A q \in Pages \ {after} : PreviousSet(h, after, before)[q] = h[q]
      <4> HIDE DEF Pages, PageIds
      <4>1. \A f \in [Pages -> PageHeader] :
                /\ PreviousSet(f, after, before) \in [Pages -> PageHeader]
                /\ PreviousSet(f, after, before)[after].previous = before
                /\ PreviousSet(f, after, before)[after].next = f[after].next
                /\ \A q \in Pages \ {after} : PreviousSet(f, after, before)[q] = f[q]
        BY <1>1, <3>1, PreviousSetFacts
      <4> QED BY <1>3, <4>1
    <3> QED BY <2>2, <3>1, <3>3, <3>2
  <2> QED BY <2>1, <2>2
<1>5. \A q \in Pages \ {before, after} : u[q] = header[q]
  BY <1>3, <1>4
<1>6. \A q \in Pages \ {before} : u[q].next = header[q].next
  BY <1>3, <1>4
<1>7. \A q \in Pages \ {after} : u[q].previous = header[q].previous
  BY <1>3, <1>4
<1>8. before # PAGE_ID_NULL => u[before].next = after
  BY <1>1, <1>3, <1>4
<1> QED BY <1>4, <1>5, <1>6, <1>7, <1>8

LEMMA FreePageCurrentStep == ASSUME Inv, FreePageCurrent PROVE Inv' /\ OthersKept
<1> PICK g : g = loop_group
  OBVIOUS
<1> PICK p : p = next_page_id
  OBVIOUS
<1>1. /\ TypeOK /\ Phases /\ Distinct /\ (~damaged => Sound)
      /\ phase = "vacuum" /\ p # PAGE_ID_NULL /\ g \in Groups /\ p \in Pages
      /\ next_page_id' = header[p].next
      /\ FreePage(Unlinked(p), p)
      /\ chain' = [chain EXCEPT ![g] = Without(@, p)]
      /\ UNCHANGED <<phase, loop_group>>
      /\ shortened' = IF header[p].next = PAGE_ID_NULL THEN shortened \cup {g} ELSE shortened
      /\ header \in [Pages -> PageHeader]
      /\ damaged => damaged'
  BY DEF Inv, TypeOK, Phases, FreePageCurrent, FreePage
<1>2. header[p].next \in PageIds /\ Unlinked(p) \in [Pages -> PageHeader]
  BY <1>1, UnlinkedFacts DEF PageHeader
<1>3. TypeOK' /\ Phases' /\ Distinct'
  <2>1. shortened' \subseteq Groups
    BY <1>1 DEF TypeOK
  <2> QED BY <1>1, <1>2, <2>1, TurnTypes
<1>4. CASE damaged'
  BY <1>3, <1>4 DEF Inv, OthersKept
<1>5. CASE ~damaged'
  <2>1. Sound /\ ~damaged
    BY <1>1, <1>5
  <2>2. g \in Settled /\ Settled = Groups
    BY <1>1 DEF Settled
  <2>3. /\ chain[g] \in Seq(Pages) /\ chain[g][1] = g /\ Len(chain[g]) \in Nat
        /\ DOMAIN chain[g] = 1 .. Len(chain[g])
        /\ Linked(chain[g]) /\ LinkedBack(chain[g]) /\ IsInjective(chain[g])
    BY <1>1, <2>1, <2>2, FirstIsOwn DEF Sound, GroupsLinked, Distinct
  <2>4. PICK k \in 2 .. Len(chain[g]) : p = chain[g][k]
    BY <1>1, <2>1 DEF Sound, Vacuuming
  <2>5. k \in 1 .. Len(chain[g]) /\ k - 1 \in 1 .. Len(chain[g]) /\ k - 1 # k
    BY <2>3
  <2> PICK t : t = Without(chain[g], p)
    OBVIOUS
  <2>6. /\ t \in Seq(Pages) /\ IsInjective(t)
        /\ Range(t) = Range(chain[g]) \ {p}
        /\ Len(t) = Len(chain[g]) - 1
        /\ \A i \in 1 .. Len(chain[g]) - 1 :
               t[i] = IF i < k THEN chain[g][i] ELSE chain[g][i + 1]
    <3>1. IsWithout(t, chain[g], k)
      BY <1>1, <2>4, <2>5, WithoutFacts
    <3> QED BY <2>4, <3>1 DEF IsWithout
  <2>7. /\ p \in Range(chain[g]) /\ p \notin Range(free) \cup leaked
        /\ \A h \in Groups \ {g} : p \notin Range(chain[h])
    BY <1>1, <2>1, <2>4, <2>5, InGroup DEF Sound
  <2>8. \A q \in Range(chain[g]) : q \in Pages /\ q \notin Range(free)
    BY <1>1, <2>1, <2>3, RangeOfSeq DEF Sound, Apart
  <2> PICK before : before = header[p].previous
    OBVIOUS
  <2> PICK after : after = header[p].next
    OBVIOUS
  <2>9. /\ before = chain[g][k - 1] /\ before \in Range(chain[g]) /\ before # p
    <3>1. header[chain[g][k]].previous = chain[g][k - 1]
      BY <2>3 DEF LinkedBack
    <3>2. chain[g][k - 1] \in Range(chain[g]) /\ chain[g][k - 1] # chain[g][k]
      BY <2>3, <2>5 DEF Range, IsInjective
    <3> QED BY <2>4, <3>1, <3>2
  <2>10. /\ k = Len(chain[g]) => after = PAGE_ID_NULL
         /\ k < Len(chain[g]) => /\ after = chain[g][k + 1] /\ after \in Range(chain[g])
                                 /\ after # p /\ after # chain[g][1] /\ after # PAGE_ID_NULL
    <3>1. header[chain[g][k]].next = IF k = Len(chain[g]) THEN PAGE_ID_NULL ELSE chain[g][k + 1]
      BY <2>3, <2>5 DEF Linked
    <3>2. ASSUME k < Len(chain[g])
          PROVE  k + 1 \in 1 .. Len(chain[g]) /\ 1 \in 1 .. Len(chain[g])
                 /\ k + 1 # 1 /\ k + 1 # k /\ k # Len(chain[g])
      BY <2>3, <2>5, <3>2
    <3>3. ASSUME k < Len(chain[g])
          PROVE  /\ chain[g][k + 1] \in Range(chain[g]) /\ chain[g][k + 1] # chain[g][k]
                 /\ chain[g][k + 1] # chain[g][1]
      BY <2>3, <2>5, <3>2, <3>3 DEF Range, IsInjective
    <3>4. \A q \in Range(chain[g]) : q # PAGE_ID_NULL
      BY <2>8
    <3> QED BY <2>4, <3>1, <3>2, <3>3, <3>4
  <2> PICK u : u = Unlinked(p)
    OBVIOUS
  <2>11. /\ \A q \in Pages \ {before, after} : u[q] = header[q]
         /\ \A q \in Pages \ {before} : u[q].next = header[q].next
         /\ \A q \in Pages \ {after} : u[q].previous = header[q].previous
         /\ u[before].next = after
         /\ after # PAGE_ID_NULL => u[after].previous = before
    <3>1. before # PAGE_ID_NULL
      BY <2>8, <2>9
    <3> QED BY <1>1, <3>1, UnlinkedFacts
  <2>12. /\ \A q \in Pages \ {p} : q \notin Range(free) => header'[q] = u[q]
         /\ Range(free') \cup leaked' = Range(free) \cup leaked \cup {p}
         /\ Range(free') \cap leaked' = {} /\ IsInjective(free')
         /\ FreeEnds' /\ FreeChained'
    <3>1. SameNext(header, u, free)
      <4>1. \A q \in Range(free) : q \in Pages /\ q # before
        BY <1>1, <2>8, <2>9, RangeOfSeq DEF TypeOK
      <4> QED BY <2>11, <4>1 DEF SameNext
    <3>2. u[p].next = next_page_id' /\ u \in [Pages -> PageHeader]
      BY <1>1, <1>2, <2>9, <2>11
    <3>3. FreePage(u, p)
      BY <1>1
    <3> QED BY <1>1, <1>5, <2>1, <2>7, <3>1, <3>2, <3>3, FreePageFacts
  <2>13. /\ DOMAIN chain' = Groups /\ chain'[g] = t
         /\ \A h \in Groups \ {g} : chain'[h] = chain[h]
    BY <1>1
  <2>14. Apart' /\ Whole'
    <3>1. page_amount' = page_amount
      BY <1>1 DEF FreePage
    <3> QED BY <1>1, <2>1, <2>7, <2>12, <2>6, <2>13, <3>1, TurnApart DEF Sound
  <2>15. \A h \in Groups \ {g} : \A q \in Range(chain[h]) : header'[q] = header[q]
    <3> SUFFICES ASSUME NEW h \in Groups \ {g}, NEW q \in Range(chain[h])
                 PROVE  header'[q] = header[q]
      OBVIOUS
    <3>1. q \in Pages /\ q \notin Range(free) /\ q \notin Range(chain[g])
      BY <1>1, <2>1, RangeOfSeq DEF Sound, Apart, TypeOK
    <3>2. q # p /\ q # before /\ q # after
      BY <2>3, <2>5, <2>7, <2>9, <2>10, <3>1
    <3> QED BY <2>11, <2>12, <3>1, <3>2
  <2>16. ListIn(header', t) /\ BackIn(header', t)
    <3>1. \A q \in Range(chain[g]) \ {p} : header'[q] = u[q]
      BY <2>8, <2>12
    <3>2. header'[chain[g][k - 1]].next = header[chain[g][k]].next
      BY <2>4, <2>9, <2>11, <3>1
    <3>3. \A q \in Range(chain[g]) \ {chain[g][k - 1], chain[g][k]} :
              header'[q].next = header[q].next
      BY <2>4, <2>8, <2>9, <2>11, <3>1
    <3>4. k < Len(chain[g]) =>
              header'[chain[g][k + 1]].previous = header[chain[g][k]].previous
      BY <2>4, <2>10, <2>11, <3>1
    <3>5. \A q \in Range(chain[g]) \ {chain[g][k]} :
              (k < Len(chain[g]) => q # chain[g][k + 1]) =>
                  header'[q].previous = header[q].previous
      <4>1. k = Len(chain[g]) \/ k < Len(chain[g])
        BY <2>3
      <4>2. \A q \in Range(chain[g]) : q # PAGE_ID_NULL
        BY <2>8
      <4>3. ASSUME NEW q \in Range(chain[g]) \ {p}, k < Len(chain[g]) => q # chain[g][k + 1]
            PROVE  header'[q].previous = header[q].previous
        <5>1. q # after
          BY <2>10, <4>1, <4>2, <4>3
        <5>2. u[q].previous = header[q].previous
          BY <2>8, <2>11, <5>1
        <5> QED BY <3>1, <5>2
      <4> QED BY <2>4, <4>3
    <3>6. ListIn(header, chain[g]) /\ BackIn(header, chain[g])
      BY <2>3 DEF Linked, LinkedBack, ListIn, BackIn
    <3>7. Relinked(header, header', chain[g], k)
      BY <3>2, <3>3, <3>4, <3>5 DEF Relinked
    <3>8. IsWithout(t, chain[g], k)
      BY <2>4, <2>6 DEF IsWithout
    <3> QED BY <2>3, <3>6, <3>7, <3>8, RemoveLinks
  <2>17. (Linked(chain[g]) /\ LinkedBack(chain[g]))'
    <3>1. DOMAIN t = 1 .. Len(t)
      BY <2>6, LenProperties
    <3> QED BY <2>13, <2>16, <3>1 DEF Linked, LinkedBack, ListIn, BackIn
  <2>18. (chain[g] # <<>> /\ chain[g][1] = g)'
    <3>1. 1 \in 1 .. Len(chain[g]) - 1 /\ 1 < k
      BY <2>3
    <3>2. t[1] = g
      BY <2>3, <2>6, <3>1
    <3>3. t # <<>>
      BY <2>6, <3>1
    <3> QED BY <2>13, <3>2, <3>3
  <2>19. g \notin shortened' => (header[g].previous = Last(chain[g]))'
    <3> SUFFICES ASSUME g \notin shortened'
                 PROVE  header'[g].previous = t[Len(t)]
      BY <2>13 DEF Last
    <3>1. k < Len(chain[g]) /\ g \notin shortened
      BY <1>1, <2>3, <2>10
    <3>2. g \in Range(chain[g]) /\ g # p /\ g # after
      <4>1. 1 \in 1 .. Len(chain[g]) /\ 1 # k
        BY <2>3
      <4> QED BY <2>3, <2>4, <2>5, <2>10, <3>1, <4>1 DEF Range, IsInjective
    <3>3. header'[g].previous = header[g].previous
      BY <2>8, <2>11, <2>12, <3>2
    <3>4. header[g].previous = chain[g][Len(chain[g])]
      BY <2>1, <2>2, <3>1 DEF Sound, TailKnown, Last
    <3>5. t[Len(chain[g]) - 1] = chain[g][Len(chain[g])]
      <4>1. /\ Len(chain[g]) - 1 \in 1 .. Len(chain[g]) - 1 /\ ~(Len(chain[g]) - 1 < k)
            /\ Len(chain[g]) - 1 + 1 = Len(chain[g])
        BY <2>3, <3>1
      <4> QED BY <2>6, <4>1
    <3> QED BY <2>6, <3>3, <3>4, <3>5
  <2>20. Settled' = Groups
    BY <1>1, <2>13 DEF Settled
  <2>21. GroupsLinked' /\ TailKnown'
    <3>1. \A h \in Groups \ {g} :
            /\ (chain[h] # <<>> /\ chain[h][1] = h /\ Linked(chain[h]) /\ LinkedBack(chain[h]))'
            /\ h \notin shortened => (header[h].previous = Last(chain[h]))'
      BY <1>1, <2>1, <2>2, <2>13, <2>15, GroupKept
    <3>2. \A h \in Groups \ {g} : h \notin shortened' => h \notin shortened
      BY <1>1
    <3> QED BY <2>17, <2>18, <2>19, <2>20, <3>1, <3>2 DEF GroupsLinked, TailKnown
  <2>22. Vacuuming'
    <3>1. CASE k = Len(chain[g])
      BY <1>1, <2>10, <3>1 DEF Vacuuming
    <3>2. CASE k < Len(chain[g])
      <4>1. k \in 2 .. Len(t) /\ t[k] = chain[g][k + 1]
        <5>1. k \in 1 .. Len(chain[g]) - 1 /\ k \in 2 .. Len(chain[g]) - 1 /\ ~(k < k)
          BY <2>3, <3>2
        <5> QED BY <2>6, <5>1
      <4>2. next_page_id' = t[k]
        BY <1>1, <2>10, <3>2, <4>1
      <4> QED BY <1>1, <2>13, <4>1, <4>2 DEF Vacuuming
    <3> QED BY <2>3, <3>1, <3>2
  <2>23. Deleting'
    BY <1>1 DEF Deleting
  <2>24. OthersKept
    BY <1>1, <2>15 DEF OthersKept
  <2> QED
    BY <1>3, <2>12, <2>14, <2>21, <2>22, <2>23, <2>24 DEF Inv, Sound
<1> QED BY <1>4, <1>5
-----------------------------------------------------------------------------
LEMMA InvStep == ASSUME Inv, [Next]_vars PROVE Inv' /\ (OthersKept \/ UNCHANGED vars)
<1>1. CASE CreateGroup
  BY <1>1, CreateGroupStep
<1>2. ASSUME NEW g \in Groups, AddPage(g) PROVE Inv' /\ OthersKept
  BY <1>2, AddPageStep
<1>3. ASSUME NEW g \in Groups, SetMetaGroup(g) PROVE Inv' /\ OthersKept
  BY <1>3, SetMetaGroupStep
<1>4. ASSUME NEW g \in Groups, DeleteGroup(g) PROVE Inv' /\ OthersKept
  BY <1>4, DeleteGroupBegins
<1>5. ASSUME NEW g \in Groups, NEW p \in Range(chain[g]), FreeRest(g, p)
      PROVE  Inv' /\ OthersKept
  BY <1>5, FreeRestBegins
<1>6. CASE LoopStep
  BY <1>6, DeleteGroupTurnStep, DeleteGroupEnds, FreePageCurrentStep, FreeRestEnds DEF LoopStep
<1>7. CASE Restart
  BY <1>7, RestartStep
<1>8. CASE UNCHANGED vars
  <2>1. /\ UNCHANGED <<page_amount, header, app, saved_app, phase, loop_group, next_page_id>>
        /\ UNCHANGED <<chain, free, leaked, shortened, damaged>>
    BY <1>8 DEF vars, links, loop, history
  <2>2. TypeOK' /\ Phases' /\ Distinct'
    BY <2>1 DEF Inv, TypeOK, Phases, Distinct
  <2>3. Sound => Apart' /\ Whole' /\ Deleting' /\ Vacuuming' /\ FreeEnds' /\ FreeChained'
    BY <2>1 DEF Sound, Apart, Whole, Deleting, Vacuuming, FreeEnds, FreeChained, Chained, Linked
  <2>4. Sound => GroupsLinked' /\ TailKnown'
    BY <2>1 DEF Sound, GroupsLinked, TailKnown, Settled, Linked, LinkedBack
  <2> QED BY <1>8, <2>1, <2>2, <2>3, <2>4 DEF Inv, Sound
<1> QED BY <1>1, <1>2, <1>3, <1>4, <1>5, <1>6, <1>7, <1>8 DEF Next

LEMMA Invariance == Spec => []Inv
<1>1. Init => Inv
  BY InvInit
<1>2. Inv /\ [Next]_vars => Inv'
  BY InvStep
<1> QED BY <1>1, <1>2, PTL DEF Spec

(* Every link is a page or none, through every step of the loops, and also *)
(* when they go on behind damage.                                          *)
THEOREM TypeCorrect == Spec => []TypeOK
<1>1. Inv => TypeOK
  BY DEF Inv
<1> QED BY <1>1, Invariance, PTL

(* Walking a group from its first page meets exactly its pages, forward    *)
(* and backward, between calls and between the turns of a loop.            *)
THEOREM GroupsStayLinked == Spec => []GroupsLinked
<1>1. Inv => GroupsLinked
  BY DEF Inv, Sound, GroupsLinked
<1> QED BY <1>1, Invariance, PTL

(* add_page finds a group's last page in the first one's "previous",       *)
(* unless free_page_current freed the last page.                           *)
THEOREM TailStaysKnown == Spec => []TailKnown
<1>1. Inv => TailKnown
  BY DEF Inv, Sound, TailKnown
<1> QED BY <1>1, Invariance, PTL

(* The free list is one list from first_free_page on, and the two ends in  *)
(* the application header say the same of its being empty.                 *)
THEOREM FreeListStaysLinked == Spec => []FreeListLinked
<1>1. Inv => FreeListLinked
  <2> SUFFICES ASSUME Inv, ~damaged, phase = "idle" PROVE FreeListLinked
    BY DEF FreeListLinked
  <2>1. TypeOK /\ FreeEnds /\ FreeChained /\ next_page_id = PAGE_ID_NULL
    BY DEF Inv, Sound, Phases
  <2>2. /\ free \in Seq(Pages) /\ Len(free) \in Nat /\ DOMAIN free = 1 .. Len(free)
        /\ (free # <<>> => Len(free) > 0)
    BY <2>1, LenProperties, EmptySeq DEF TypeOK
  <2>3. Linked(free)
    <3> SUFFICES ASSUME NEW i \in 1 .. Len(free)
                 PROVE  header[free[i]].next = IF i = Len(free) THEN PAGE_ID_NULL ELSE free[i + 1]
      BY <2>2 DEF Linked
    <3>1. free # <<>>
      BY <2>2
    <3>2. CASE i = Len(free)
      BY <2>1, <3>1, <3>2 DEF FreeChained
    <3>3. CASE i # Len(free)
      <4>1. \A l \in Nat : \A j \in 1 .. l : j # l => j \in 1 .. l - 1
        OBVIOUS
      <4>2. i \in 1 .. Len(free) - 1
        BY <2>2, <3>3, <4>1
      <4> QED BY <2>1, <3>3, <4>2 DEF FreeChained, Chained
    <3> QED BY <3>2, <3>3
  <2> QED BY <2>1, <2>3 DEF FreeListLinked, FreeEnds
<1> QED BY <1>1, Invariance, PTL

(* Every page that was created is in exactly one group, or free, or was    *)
(* lost to a restart.                                                      *)
THEOREM OneOwnerEver == Spec => []OneOwner
<1>1. Inv => OneOwner
  <2> SUFFICES ASSUME Inv, ~damaged, NEW p \in 1 .. page_amount
               PROVE  \E o \in Owners(p) : Owners(p) = {o}
    BY DEF OneOwner
  <2>1. TypeOK /\ Apart /\ Whole
    BY DEF Inv, Sound
  <2>2. p \in PageIds
    BY <2>1 DEF TypeOK
  <2>3. \/ p \in Range(free) \/ p \in leaked
        \/ \E g \in Groups : p \in Range(chain[g])
    BY <2>1, <2>2 DEF Whole
  <2>4. \A o : o \in Owners(p) <=>
            \/ \E g \in Groups : p \in Range(chain[g]) /\ o = <<"group", g>>
            \/ p \in Range(free) /\ o = <<"free">>
            \/ p \in leaked /\ o = <<"leaked">>
    BY DEF Owners, Range
  <2>5. CASE p \in Range(free)
    <3>1. p \notin leaked /\ \A g \in Groups : p \notin Range(chain[g])
      BY <2>1, <2>5 DEF Apart
    <3>2. \A o : o \in Owners(p) <=> o = <<"free">>
      BY <2>4, <2>5, <3>1
    <3>3. Owners(p) = {<<"free">>}
      BY <3>2
    <3> QED BY <3>3
  <2>6. CASE p \in leaked
    <3>1. p \notin Range(free) /\ \A g \in Groups : p \notin Range(chain[g])
      BY <2>1, <2>6 DEF Apart
    <3>2. \A o : o \in Owners(p) <=> o = <<"leaked">>
      BY <2>4, <2>6, <3>1
    <3>3. Owners(p) = {<<"leaked">>}
      BY <3>2
    <3> QED BY <3>3
  <2>7. ASSUME NEW g \in Groups, p \in Range(chain[g])
        PROVE  \E o \in Owners(p) : Owners(p) = {o}
    <3>1. p \notin Range(free) /\ p \notin leaked
      BY <2>1, <2>7 DEF Apart
    <3>2. \A h \in Groups : p \in Range(chain[h]) => h = g
      BY <2>1, <2>7 DEF Apart
    <3>3. \A o : o \in Owners(p) <=> o = <<"group", g>>
      BY <2>4, <2>7, <3>1, <3>2
    <3>4. Owners(p) = {<<"group", g>>}
      BY <3>3
    <3> QED BY <3>4
  <2> QED BY <2>3, <2>5, <2>6, <2>7
<1> QED BY <1>1, Invariance, PTL

(* No step over one group writes the header of a page of another one.      *)
THEOREM OthersStayUntouched == Spec => OthersUntouched
<1> DEFINE Kept == ~damaged' => \A g \in Groups \cap DOMAIN chain' :
                       chain'[g] = chain[g] /\ g # loop_group =>
                           \A p \in Range(chain[g]) : header'[p] = header[p]
<1>1. Inv /\ [Next]_vars => [Kept]_vars
  BY InvStep DEF OthersKept
<1> QED BY <1>1, Invariance, PTL DEF Spec, OthersUntouched
=============================================================================
