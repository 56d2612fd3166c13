------------------------- MODULE PageDataRowsProofs -------------------------
(***************************************************************************)
(* Proofs about the records in the pages, for every number of pages and    *)
(* cells and any records: inserts, updates, deletes, vacuum and the frees  *)
(* behind it neither lose a record nor store one twice, and a scan sees    *)
(* each once.                                                              *)
(*                                                                         *)
(* To the invariant of PageDataManagerProofs, which says where the items   *)
(* of a page lie, RInv adds what they are (Held): the pages of a group     *)
(* hold exactly its records, each at one place, where of the page that a   *)
(* running vacuum empties only the part counts that it has still to read,  *)
(* and what it has put back.  SInv adds what a running scan has given and  *)
(* what is still before it (ScanSeen).                                     *)
(*                                                                         *)
(* What a page holds is a set of places with the records that lie there.   *)
(* First what a step may do to these sets and what becomes of the group's  *)
(* records then; after it, the steps.                                      *)
(***************************************************************************)
EXTENDS PageDataManagerProofs

(* The pages pp of a group hold exactly the records r, each once, when     *)
(* page p holds w[p], a set of places with what lies there.                *)
Keeps(w, pp, r) ==
    /\ \A p \in pp : \A c \in w[p] : c[2] \in r
    /\ \A t \in r : \E p \in pp : \E c \in w[p] : c[2] = t
    /\ \A p, q \in pp : \A c \in w[p], e \in w[q] : c[2] = e[2] => p = q /\ c = e

(* What a step does to them: nothing; page p, perhaps a new one, gets c;   *)
(* it loses c; it has e in place of c; or c goes from it to q, as e.       *)
Gets(u, qq, w, pp, p, c) ==
    /\ qq = pp \cup {p} /\ u[p] = (IF p \in pp THEN w[p] ELSE {}) \cup {c}
    /\ \A q \in pp : q # p => u[q] = w[q]
Loses(u, w, pp, p, c) ==
    /\ p \in pp /\ c \in w[p] /\ u[p] = w[p] \ {c}
    /\ \A q \in pp : q # p => u[q] = w[q]
Turns(u, w, pp, p, c, e) ==
    /\ p \in pp /\ c \in w[p] /\ u[p] = (w[p] \ {c}) \cup {e}
    /\ \A q \in pp : q # p => u[q] = w[q]
Passes(u, w, pp, p, q, c, e) ==
    /\ p \in pp /\ q \in pp /\ p # q
    /\ c \in w[p] /\ u[p] = w[p] \ {c} /\ u[q] = w[q] \cup {e}
    /\ \A o \in pp : o # p /\ o # q => u[o] = w[o]

LEMMA KeepsSame ==
    ASSUME NEW w, NEW pp, NEW r, Keeps(w, pp, r),
           NEW u, NEW qq \in SUBSET pp, \A p \in qq : u[p] = w[p],
           \A p \in pp \ qq : w[p] = {}
    PROVE  Keeps(u, qq, r)
  BY DEF Keeps

LEMMA KeepsMore ==
    ASSUME NEW w, NEW pp, NEW r, Keeps(w, pp, r),
           NEW p, NEW c, c[2] \notin r, NEW u, NEW qq, Gets(u, qq, w, pp, p, c)
    PROVE  Keeps(u, qq, r \cup {c[2]})
<1>1. ASSUME NEW q \in qq, NEW e \in u[q]
      PROVE  (q \in pp /\ e \in w[q]) \/ (q = p /\ e = c)
  <2>1. CASE q = p
    BY <2>1 DEF Gets
  <2>2. CASE q # p
    BY <2>2 DEF Gets
  <2> QED BY <2>1, <2>2
<1>2. \A q \in pp : \A e \in w[q] : q \in qq /\ e \in u[q] /\ e[2] # c[2]
  BY DEF Keeps, Gets
<1>3. p \in qq /\ c \in u[p]
  BY DEF Gets
<1>4. \A q \in qq : \A e \in u[q] : e[2] \in r \cup {c[2]}
  BY <1>1, <1>3 DEF Keeps
<1>5. ASSUME NEW x \in r \cup {c[2]} PROVE \E q \in qq : \E e \in u[q] : e[2] = x
  BY <1>2, <1>3 DEF Keeps
<1>6. ASSUME NEW q \in qq, NEW o \in qq, NEW a \in u[q], NEW e \in u[o], a[2] = e[2]
      PROVE  q = o /\ a = e
  BY <1>1, <1>2, <1>3, <1>6 DEF Keeps
<1> QED BY <1>4, <1>5, <1>6 DEF Keeps

LEMMA KeepsLess ==
    ASSUME NEW w, NEW pp, NEW r, Keeps(w, pp, r),
           NEW p, NEW c, NEW u, Loses(u, w, pp, p, c)
    PROVE  Keeps(u, pp, r \ {c[2]})
<1>1. \A q \in pp : \A e \in u[q] : e \in w[q] /\ (q = p => e # c)
  BY DEF Loses
<1>2. \A q \in pp : \A e \in w[q] : e[2] # c[2] => e \in u[q]
  BY DEF Loses
<1>3. \A q \in pp : \A e \in u[q] : e[2] \in r \ {c[2]}
  BY <1>1 DEF Keeps, Loses
<1>4. ASSUME NEW x \in r \ {c[2]} PROVE \E q \in pp : \E e \in u[q] : e[2] = x
  BY <1>2 DEF Keeps
<1> QED BY <1>1, <1>3, <1>4 DEF Keeps

LEMMA KeepsOther ==
    ASSUME NEW w, NEW pp, NEW r, Keeps(w, pp, r),
           NEW p, NEW c, NEW e, e[2] \notin r \ {c[2]},
           NEW u, Turns(u, w, pp, p, c, e)
    PROVE  Keeps(u, pp, (r \ {c[2]}) \cup {e[2]})
<1> DEFINE v == [q \in pp |-> IF q = p THEN w[p] \ {c} ELSE w[q]]
<1>1. Loses(v, w, pp, p, c)
  BY DEF Turns, Loses
<1>2. Gets(u, pp, v, pp, p, e)
  BY DEF Turns, Gets
<1> HIDE DEF v
<1>3. PICK x : x = r \ {c[2]}
  OBVIOUS
<1>4. Keeps(v, pp, x)
  BY <1>1, <1>3, KeepsLess
<1>5. Keeps(u, pp, x \cup {e[2]})
  BY <1>2, <1>3, <1>4, KeepsMore
<1> QED BY <1>3, <1>5

LEMMA KeepsTurned ==
    ASSUME NEW w, NEW pp, NEW r, Keeps(w, pp, r),
           NEW p, NEW c, NEW e, e[2] = c[2], NEW u, Turns(u, w, pp, p, c, e)
    PROVE  Keeps(u, pp, r)
<1>1. c[2] \in r
  BY DEF Keeps, Turns
<1>2. Keeps(u, pp, (r \ {c[2]}) \cup {e[2]})
  BY KeepsOther
<1>3. (r \ {c[2]}) \cup {e[2]} = r
  BY <1>1
<1> QED BY <1>2, <1>3

LEMMA KeepsPassed ==
    ASSUME NEW w, NEW pp, NEW r, Keeps(w, pp, r),
           NEW p, NEW q, NEW c, NEW e, e[2] = c[2], NEW u, Passes(u, w, pp, p, q, c, e)
    PROVE  Keeps(u, pp, r)
<1> DEFINE v == [o \in pp |-> IF o = p THEN w[p] \ {c} ELSE w[o]]
<1>1. Loses(v, w, pp, p, c)
  BY DEF Passes, Loses
<1>2. Gets(u, pp, v, pp, q, e)
  BY DEF Passes, Gets
<1> HIDE DEF v
<1>3. PICK x : x = r \ {c[2]}
  OBVIOUS
<1>4. Keeps(v, pp, x)
  BY <1>1, <1>3, KeepsLess
<1>5. Keeps(u, pp, x \cup {e[2]})
  BY <1>2, <1>3, <1>4, KeepsMore
<1>6. c[2] \in r
  BY DEF Keeps, Passes
<1>7. x \cup {e[2]} = r
  BY <1>3, <1>6
<1> QED BY <1>5, <1>7

(* The items of a page when its ids change: ...                            *)
LEMMA StoredAt ==
    ASSUME NEW s, NEW P, NEW i \in P, s[i] \in ItemId, ~s[i].deleted
    PROVE  <<i, s[i].item>> \in Stored(s, P)
  BY DEF Stored, ItemId

(* ... not at all, but at places that count no longer and held nothing;    *)
LEMMA StoredSame ==
    ASSUME NEW s, NEW t, NEW P, NEW Q \in SUBSET P, SameIds(s, t, Q),
           \A x \in P \ Q : s[x].deleted
    PROVE  Stored(t, Q) = Stored(s, P)
<1>1. ASSUME NEW c \in Stored(s, P) PROVE c \in Stored(t, Q)
  BY <1>1 DEF Stored, SameIds
<1>2. ASSUME NEW c \in Stored(t, Q) PROVE c \in Stored(s, P)
  BY <1>2 DEF Stored, SameIds
<1> QED BY <1>1, <1>2

(* ... one more is written; ...                                            *)
LEMMA StoredGains ==
    ASSUME NEW s, NEW t, NEW P, NEW n, n \notin P, SameIds(s, t, P),
           t[n] \in ItemId, ~t[n].deleted, NEW R, R = P \cup {n}
    PROVE  Stored(t, R) = Stored(s, P) \cup {<<n, t[n].item>>}
<1>1. ASSUME NEW c \in Stored(s, P) PROVE c \in Stored(t, R)
  BY <1>1 DEF Stored, SameIds
<1>2. <<n, t[n].item>> \in Stored(t, R)
  BY StoredAt
<1>3. ASSUME NEW c \in Stored(t, R), c # <<n, t[n].item>> PROVE c \in Stored(s, P)
  <2>1. /\ c \in R \X (Items \cup {Blank})
        /\ ~t[c[1]].deleted /\ c[2] = t[c[1]].item
    BY <1>3 DEF Stored
  <2>2. c[1] # n
    BY <1>3, <2>1
  <2> QED BY <2>1, <2>2 DEF Stored, SameIds
<1> QED BY <1>1, <1>2, <1>3

(* ... one is left out, or deleted; ...                                    *)
Without(s, x, P, t, Q) == x \in P /\ Q = P \ {x} /\ SameIds(s, t, Q)

LEMMA StoredLoses ==
    ASSUME NEW s, NEW t, NEW P, NEW x, NEW Q, Without(s, x, P, t, Q)
    PROVE  /\ Stored(t, Q) = Stored(s, P) \ {<<x, s[x].item>>}
           /\ t[x].deleted => Stored(t, P) = Stored(s, P) \ {<<x, s[x].item>>}
<1> USE DEF Without
<1>1. ASSUME NEW c \in Stored(s, P), c # <<x, s[x].item>>
      PROVE  c \in Stored(t, Q) /\ c \in Stored(t, P)
  <2>1. /\ c \in P \X (Items \cup {Blank}) /\ ~s[c[1]].deleted /\ c[2] = s[c[1]].item
    BY <1>1 DEF Stored
  <2>2. c[1] # x
    BY <1>1, <2>1
  <2> QED BY <2>1, <2>2 DEF Stored, SameIds
<1>2. ASSUME NEW c, c \in Stored(t, Q) \/ (c \in Stored(t, P) /\ t[x].deleted)
      PROVE  c \in Stored(s, P) /\ c # <<x, s[x].item>>
  <2>1. /\ c \in P \X (Items \cup {Blank}) /\ ~t[c[1]].deleted /\ c[2] = t[c[1]].item
        /\ c[1] # x
    BY <1>2 DEF Stored
  <2> QED BY <2>1 DEF Stored, SameIds
<1> QED BY <1>1, <1>2

(* ... or one is written in place of another.                              *)
LEMMA StoredTurns ==
    ASSUME NEW s, NEW t, NEW P, NEW x, NEW Q, Without(s, x, P, t, Q),
           NEW n, n \notin Q, t[n] \in ItemId, ~t[n].deleted, NEW R, R = Q \cup {n}
    PROVE  Stored(t, R) = (Stored(s, P) \ {<<x, s[x].item>>}) \cup {<<n, t[n].item>>}
<1>1. SameIds(t, t, Q)
  BY DEF Without, SameIds
<1>2. Stored(t, R) = Stored(t, Q) \cup {<<n, t[n].item>>}
  BY <1>1, StoredGains
<1>3. Stored(t, Q) = Stored(s, P) \ {<<x, s[x].item>>}
  BY StoredLoses
<1> QED BY <1>2, <1>3
-----------------------------------------------------------------------------
(* Where the items of the pages lie: in the whole page, or, in the page    *)
(* that a running vacuum empties, in what is left of it.                   *)
Whole(d) == Stored(d.ids, 1 .. d.item_amount)
LeftOf(v) ==
    IF v.dest = v.src THEN Around(v.dest_id, v.index, v.ids) ELSE v.index + 1 .. v.ids
ContentsOf(op, v, d) ==
    [p \in PG!Pages |-> IF op = "vacuum" /\ v.started /\ p = v.src
                        THEN Stored(d[p].ids, LeftOf(v)) ELSE Whole(d[p])]
Contents == ContentsOf(operation, vac, data)

(* Every group holds exactly its records, each once.                       *)
Held == ~harmed => \A g \in DOMAIN rows : Keeps(Contents, PagesOf(g), rows[g])
RInv == IInv /\ Held

LEMMA PlainContents ==
    ASSUME NEW op, NEW v, NEW d, NEW p \in PG!Pages,
           op = "vacuum" => ~v.started \/ p # v.src
    PROVE  ContentsOf(op, v, d)[p] = Whole(d[p])
  BY DEF ContentsOf

LEMMA SourceContents ==
    ASSUME NEW v, NEW d, NEW p \in PG!Pages, v.started, p = v.src
    PROVE  ContentsOf("vacuum", v, d)[p] = Stored(d[p].ids, LeftOf(v))
  BY DEF ContentsOf

LEMMA WholeKept ==
    ASSUME NEW d, NEW e, d.item_amount = e.item_amount,
           SameIds(d.ids, e.ids, 1 .. d.item_amount)
    PROVE  Whole(e) = Whole(d)
  BY StoredKept DEF Whole

LEMMA HeldInit == Init => Held
<1> SUFFICES ASSUME Init PROVE Held
  OBVIOUS
<1>1. \A s : s = <<>> => DOMAIN s = {}
  OBVIOUS
<1> QED BY <1>1 DEF Init, Held

(* A step of what runs over one group g leaves the others alone.           *)
LEMMA GroupStep ==
    ASSUME IInv, ~harmed, Held, NEW g \in DOMAIN rows,
           DOMAIN rows' = DOMAIN rows,
           \A h \in DOMAIN rows : h # g => rows'[h] = rows[h] /\ chain'[h] = chain[h],
           NEW u, u = Contents',
           \A p \in PG!Pages : p \notin PagesOf(g) => u[p] = Contents[p],
           NEW qq, qq = Range(chain'[g]),
           NEW r, r = rows'[g], Keeps(u, qq, r)
    PROVE  Held'
<1>1. PICK w : w = Contents
  OBVIOUS
<1>2. ASSUME NEW h \in DOMAIN rows, h # g
      PROVE  Keeps(u, Range(chain'[h]), rows'[h])
  <2>1. PICK pp, hh : pp = Range(chain[h]) /\ hh = rows[h]
    OBVIOUS
  <2>2. Keeps(w, pp, hh)
    BY <1>1, <2>1 DEF Held, PagesOf
  <2>3. pp \subseteq PG!Pages /\ pp \cap PagesOf(g) = {}
    BY <1>2, <2>1, ListsOf DEF PagesOf
  <2>4. \A p \in pp : u[p] = w[p]
    BY <1>1, <2>3
  <2>5. Keeps(u, pp, hh)
    BY <2>2, <2>4, KeepsSame
  <2> QED BY <1>2, <2>1, <2>5
<1>3. \A h \in DOMAIN rows' : Keeps(u, Range(chain'[h]), rows'[h])
  BY <1>2
<1> QED BY <1>3 DEF Held, PagesOf

-----------------------------------------------------------------------------
(* Outside of vacuum a page's items lie in its first item_amount places.   *)
LEMMA PlainNow ==
    ASSUME NEW w, w = Contents, operation = "vacuum" => ~vac.started
    PROVE  \A p \in PG!Pages : w[p] = Whole(data[p])
<1>1. PICK op, v, d : op = operation /\ v = vac /\ d = data
  OBVIOUS
<1>2. w = ContentsOf(op, v, d)
  BY <1>1 DEF Contents
<1> QED BY <1>1, <1>2, PlainContents

LEMMA PlainNext ==
    ASSUME NEW u, u = Contents', operation' = "vacuum" => ~vac'.started
    PROVE  \A p \in PG!Pages : u[p] = Whole(data'[p])
<1>1. PICK op, v, d : op = operation' /\ v = vac' /\ d = data'
  OBVIOUS
<1>2. u = ContentsOf(op, v, d)
  BY <1>1 DEF Contents
<1> QED BY <1>1, <1>2, PlainContents

(* The groups that stay keep their pages, and these their items.           *)
LEMMA AllKeep ==
    ASSUME RInv, ~harmed, operation = "vacuum" => ~vac.started,
           operation' = "vacuum" => ~vac'.started,
           NEW h \in DOMAIN rows, rows'[h] = rows[h], chain'[h] = chain[h],
           \A p \in PagesOf(h) : data'[p] = data[p]
    PROVE  Keeps(Contents', Range(chain'[h]), rows'[h])
<1>1. PICK w, u, pp, r : w = Contents /\ u = Contents' /\ pp = Range(chain[h]) /\ r = rows[h]
  OBVIOUS
<1>2. \A p \in PG!Pages : w[p] = Whole(data[p])
  BY <1>1, PlainNow
<1>3. \A p \in PG!Pages : u[p] = Whole(data'[p])
  BY <1>1, PlainNext
<1>4. pp \subseteq PG!Pages /\ \A p \in pp : data'[p] = data[p]
  BY <1>1, ListsOf DEF PagesOf, RInv
<1>5. \A p \in pp : u[p] = w[p]
  BY <1>2, <1>3, <1>4
<1>6. Keeps(w, pp, r)
  BY <1>1 DEF RInv, Held, PagesOf
<1>7. Keeps(u, pp, r)
  BY <1>5, <1>6, KeepsSame
<1> QED BY <1>1, <1>7

LEMMA AllHeld ==
    ASSUME RInv, ~harmed, operation = "vacuum" => ~vac.started,
           operation' = "vacuum" => ~vac'.started,
           \A h \in DOMAIN rows' : /\ h \in DOMAIN rows
                                   /\ rows'[h] = rows[h] /\ chain'[h] = chain[h]
                                   /\ \A p \in PagesOf(h) : data'[p] = data[p]
    PROVE  Held'
<1>1. \A h \in DOMAIN rows' : Keeps(Contents', Range(chain'[h]), rows'[h])
  BY AllKeep
<1> QED BY <1>1 DEF Held, PagesOf

LEMMA CreateGroupHeld == ASSUME RInv, CreateGroup PROVE Held'
<1>1. IInv /\ Idle
  BY DEF RInv, CreateGroup
<1>2. PGP!Inv /\ Kinds /\ operation = "idle" /\ ~harmed /\ DOMAIN rows = PG!Groups
  BY <1>1, BetweenCalls
<1>3. PICK n \in PG!Pages :
         n = PG!NewPage /\ n \notin PG!Groups /\ \A g \in PG!Groups : n \notin Range(chain[g])
  BY <1>2, NewPageFacts DEF CreateGroup, PG!CreateGroup, Idle, PG!Idle
<1>4. /\ PG!CreateGroup
      /\ data' = [data EXCEPT ![n] = EmptyPage]
      /\ rows' = [g \in DOMAIN rows \cup {n} |-> IF g = n THEN {} ELSE rows[g]]
      /\ operation' = "idle"
  BY <1>2, <1>3 DEF CreateGroup, control
<1>5. chain' = [g \in PG!Groups \cup {n} |-> IF g = n THEN <<g>> ELSE chain[g]]
  BY <1>3, <1>4 DEF PG!CreateGroup, PG!loop
<1>6. data \in [PG!Pages -> Page]
  BY <1>2 DEF Kinds
<1>7. ASSUME NEW h \in DOMAIN rows, h # n
      PROVE  Keeps(Contents', Range(chain'[h]), rows'[h])
  <2>1. rows'[h] = rows[h] /\ chain'[h] = chain[h] /\ n \notin PagesOf(h)
    BY <1>2, <1>3, <1>4, <1>5, <1>7 DEF PagesOf
  <2>2. PagesOf(h) \subseteq PG!Pages
    BY <1>1, <1>2, ListsOf
  <2>3. \A p \in PagesOf(h) : data'[p] = data[p]
    BY <1>4, <1>6, <2>1, <2>2
  <2> QED BY <1>2, <1>4, <2>1, <2>3, AllKeep
<1>8. Keeps(Contents', Range(chain'[n]), rows'[n])
  <2>1. PICK u : u = Contents'
    OBVIOUS
  <2>2. chain'[n] = <<n>> /\ data'[n] = EmptyPage /\ rows'[n] = {}
    BY <1>4, <1>5, <1>6
  <2>3. Range(<<n>>) = {n}
    BY DEF Range
  <2>4. u[n] = Whole(EmptyPage)
    BY <1>4, <2>1, <2>2, PlainNext
  <2>5. Whole(EmptyPage) = {}
    BY DEF Whole, Stored, EmptyPage
  <2>6. Keeps(u, {n}, {})
    BY <2>4, <2>5 DEF Keeps
  <2> QED BY <2>1, <2>2, <2>3, <2>6
<1>9. \A h \in DOMAIN rows' : Keeps(Contents', Range(chain'[h]), rows'[h])
  BY <1>4, <1>7, <1>8
<1> QED BY <1>9 DEF Held, PagesOf

LEMMA DeleteGroupHeld == ASSUME RInv, NEW g \in PG!Groups, DeleteGroup(g) PROVE Held'
<1>1. IInv /\ Idle
  BY DEF RInv, DeleteGroup
<1>2. ~harmed /\ operation = "idle"
  BY DEF Idle, DeleteGroup
<1>3. /\ rows' = [o \in DOMAIN rows \ {g} |-> rows[o]] /\ chain' = chain
      /\ data' = data /\ operation' = operation
  BY DEF DeleteGroup, PG!DeleteGroup, PG!history, control
<1> QED BY <1>2, <1>3, AllHeld

LEMMA DeleteStepHeld == ASSUME RInv, ~harmed, ~harmed', DeleteGroupStep PROVE Held'
<1>1. /\ IInv /\ Kinds /\ Phases /\ PGP!Inv /\ PGP!TypeOK /\ PGP!Phases /\ rows' = rows
      /\ operation' = operation /\ damaged' = harmed'
  BY DEF RInv, IInv, DeleteGroupStep, control, PGP!Inv
<1>2. PICK g : g = loop_group
  OBVIOUS
<1>3. phase = "delete" /\ operation = "idle" /\ DOMAIN rows = PG!Groups \ {g} /\ ~damaged
  BY <1>1, <1>2 DEF Phases, DeleteGroupStep, PG!DeleteGroupTurn, PG!DeleteGroupReturn
<1>4. CASE PG!DeleteGroupReturn /\ UNCHANGED data
  <2>1. chain' = [h \in PG!Groups \ {g} |-> chain[h]] /\ data' = data
    BY <1>2, <1>4 DEF PG!DeleteGroupReturn
  <2> QED BY <1>1, <1>3, <2>1, AllHeld
<1>5. CASE PG!DeleteGroupTurn /\ data' = Forgotten(next_page_id)
  <2>1. PICK p : p = next_page_id
    OBVIOUS
  <2>2. p # NULL /\ chain' = [chain EXCEPT ![g] = PG!Without(@, p)]
    BY <1>2, <1>5, <2>1 DEF PG!DeleteGroupTurn, NULL
  <2>3. p \in PG!Pages /\ g \in PG!Groups
    <3>1. p \in PG!PageIds
      BY <1>1, <2>1, SameNames DEF PGP!TypeOK
    <3>2. g \in PG!Groups
      BY <1>1, <1>2, <1>3, SameNames DEF PGP!Phases
    <3> QED BY <2>2, <3>1, <3>2, PageNumbers
  <2>4. \A q \in PG!Pages : q # p => data'[q] = data[q]
    BY <1>1, <1>5, <2>1, <2>3, Forgets DEF Kinds
  <2>5. p \in Range(chain[g])
    <3>1. PGP!Deleting
      BY <1>1, <1>3 DEF PGP!Inv, PGP!Sound
    <3>2. /\ chain[g] \in Seq(PG!Pages) /\ chain[g] # <<>> /\ p = chain[g][1]
      BY <1>1, <1>2, <1>3, <2>1, <2>2, <2>3, <3>1, SameNames
         DEF PGP!Deleting, PGP!TypeOK, NULL
    <3>3. 1 \in DOMAIN chain[g]
      BY <3>2, EmptySeq, LenProperties
    <3> QED BY <3>2, <3>3 DEF Range
  <2>6. ASSUME NEW h \in DOMAIN rows
        PROVE  chain'[h] = chain[h] /\ \A q \in PagesOf(h) : data'[q] = data[q]
    <3>1. h # g /\ h \in PG!Groups /\ chain'[h] = chain[h]
      BY <1>3, <2>2, PageNumbers
    <3>2. PagesOf(h) \cap Range(chain[g]) = {} /\ PagesOf(h) \subseteq PG!Pages
      BY <1>1, <2>3, <3>1, ListsOf
    <3> QED BY <2>4, <2>5, <3>1, <3>2
  <2> QED BY <1>1, <1>3, <2>6, AllHeld
<1> QED BY <1>4, <1>5 DEF DeleteGroupStep

LEMMA RestartHeld == ASSUME RInv, Restart PROVE Held'
<1>1. /\ ~harmed /\ operation = "idle" /\ operation' = operation
      /\ rows' = rows /\ chain' = chain /\ data' = data
  BY DEF Restart, Idle, PG!Restart, control
<1> QED BY <1>1, AllHeld

(* A record that is nowhere stored is put into a page of group g.          *)
LEMMA InsertedWhole ==
    ASSUME NEW d \in Page, NEW t \in Items, NEW first, Tidy(d, FALSE, first),
           SizeOf[t] + 1 <= d.end - d.start
    PROVE  Whole(ItemInserted(d, t)) = Whole(d) \cup {<<d.item_amount + 1, t>>}
<1>1. /\ SizeOf[t] \in Nat \ {0} /\ Capacity \in Nat /\ HeaderSize \in Nat
      /\ d.start = d.item_amount /\ d.item_amount \in Nat
      /\ d.end \in Int /\ d.end <= Capacity
  BY DataAssumption DEF Page, Tidy
<1>2. PICK n : n = d.item_amount
  OBVIOUS
<1>3. PICK e : e = ItemInserted(d, t)
  OBVIOUS
<1>4. SameIds(d.ids, e.ids, 1 .. n)
  BY <1>2, <1>3, InsertedTidy
<1>5. /\ e.item_amount = n + 1 /\ NewId(d, t) \in ItemId
      /\ IsWritten(e.ids, d.ids, n + 1, NewId(d, t), SizeOf[t])
  <2>1. /\ d.start + 1 <= Capacity /\ d.item_amount + 1 <= Capacity
        /\ d.end - SizeOf[t] >= -HeaderSize
    BY <1>1
  <2> QED BY <1>1, <1>2, <1>3, <2>1, InsertedTypes
<1>6. PICK m : m = n + 1
  OBVIOUS
<1>7. e.ids[m] = NewId(d, t)
  BY <1>5, <1>6 DEF IsWritten
<1>8. e.ids[m].item = t /\ ~e.ids[m].deleted
  BY <1>7 DEF NewId
<1>9. m \notin 1 .. n /\ 1 .. m = 1 .. n \cup {m}
  BY <1>1, <1>2, <1>6
<1>10. Stored(e.ids, 1 .. n \cup {m}) = Stored(d.ids, 1 .. n) \cup {<<m, t>>}
  <2>1. PICK P, R : P = 1 .. n /\ R = P \cup {m}
    OBVIOUS
  <2>2. PICK a, b : a = d.ids /\ b = e.ids
    OBVIOUS
  <2>3. /\ SameIds(a, b, P) /\ b[m] \in ItemId /\ ~b[m].deleted /\ b[m].item = t
        /\ m \notin P /\ R = P \cup {m}
    BY <1>4, <1>5, <1>7, <1>8, <1>9, <2>1, <2>2
  <2>4. Stored(b, R) = Stored(a, P) \cup {<<m, b[m].item>>}
    BY ONLY <2>3, StoredGains
  <2> QED BY <2>1, <2>2, <2>3, <2>4
<1> QED BY <1>2, <1>3, <1>5, <1>6, <1>9, <1>10 DEF Whole

LEMMA InsertHeld ==
    ASSUME RInv, ~harmed', NEW g \in PG!Groups, NEW t \in Items, Insert(g, t)
    PROVE  Held'
<1>1. /\ IInv /\ Idle /\ PGP!Inv /\ Kinds /\ Tidiness /\ Half /\ ~harmed /\ ~damaged
      /\ operation = "idle" /\ phase = "idle" /\ DOMAIN rows = PG!Groups
      /\ \A h \in PG!Groups : GroupTidy(h)
  BY BetweenCalls DEF Insert, RInv
<1>2. /\ rows' = [rows EXCEPT ![g] = @ \cup {t}] /\ operation' = operation
      /\ \A o \in DOMAIN rows : t \notin rows[o]
  BY DEF Insert, control
<1>3. /\ DOMAIN rows' = DOMAIN rows /\ rows'[g] = rows[g] \cup {t} /\ g \in DOMAIN rows
      /\ \A h \in DOMAIN rows : h # g => rows'[h] = rows[h]
  BY <1>1, <1>2
<1>4. PICK w, u, pp, qq, r : /\ w = Contents /\ u = Contents' /\ pp = Range(chain[g])
                             /\ qq = Range(chain'[g]) /\ r = rows[g]
  OBVIOUS
<1>5. /\ \A p \in PG!Pages : w[p] = Whole(data[p])
      /\ \A p \in PG!Pages : u[p] = Whole(data'[p])
      /\ data \in [PG!Pages -> Page] /\ pp \subseteq PG!Pages
  <2>1. pp \subseteq PG!Pages
    BY <1>1, <1>3, <1>4, ListsOf DEF PagesOf
  <2> QED BY <1>1, <1>2, <1>4, <2>1, PlainNow, PlainNext DEF Kinds
<1>6. ASSUME NEW p \in PG!Pages, NEW c, c[2] = t,
             qq = pp \cup {p}, u[p] = (IF p \in pp THEN w[p] ELSE {}) \cup {c},
             \A q \in PG!Pages : q # p => data'[q] = data[q],
             \A h \in PG!Groups : h # g => p \notin Range(chain[h]) /\ chain'[h] = chain[h]
      PROVE  Held'
  <2>1. \A q \in PG!Pages : q # p => u[q] = w[q]
    BY <1>5, <1>6
  <2>2. Gets(u, qq, w, pp, p, c)
    BY <1>5, <1>6, <2>1 DEF Gets
  <2>3. Keeps(w, pp, r) /\ t \notin r
    BY <1>1, <1>2, <1>3, <1>4 DEF RInv, Held, PagesOf
  <2>4. Keeps(u, qq, r \cup {t})
    BY <1>6, <2>2, <2>3, KeepsMore
  <2>5. ASSUME NEW h \in DOMAIN rows, h # g
        PROVE  Keeps(u, Range(chain'[h]), rows'[h])
    <3>1. PagesOf(h) \subseteq PG!Pages /\ p \notin PagesOf(h) /\ chain'[h] = chain[h]
      BY <1>1, <1>6, <2>5, ListsOf DEF PagesOf
    <3>2. \A q \in PagesOf(h) : data'[q] = data[q]
      BY <1>6, <3>1
    <3> QED BY <1>1, <1>2, <1>3, <1>4, <2>5, <3>1, <3>2, AllKeep
  <2>6. \A h \in DOMAIN rows' : Keeps(u, Range(chain'[h]), rows'[h])
    BY <1>3, <1>4, <2>4, <2>5
  <2> QED BY <1>4, <2>6 DEF Held, PagesOf
<1>7. CASE Target(g, t) # 0
  <2>1. PICK p : p = Candidates(g)[Target(g, t)]
    OBVIOUS
  <2>2. /\ data' = [data EXCEPT ![p] = ItemInserted(@, t)]
        /\ p \in pp /\ p \notin sealed /\ chain' = chain
    BY <1>4, <1>7, <2>1 DEF Insert, InsertIntoPage, groupVars
  <2>3. /\ p \in PG!Pages /\ \A h \in PG!Groups : h # g => p \notin Range(chain[h])
    BY <1>1, <1>3, <1>4, <2>2, ListsOf DEF PagesOf
  <2>4. data[p] \in Page /\ data'[p] = ItemInserted(data[p], t)
        /\ \A q \in PG!Pages : q # p => data'[q] = data[q]
    BY <1>5, <2>2, <2>3
  <2>5. Tidy(data[p], FALSE, p = g)
    BY <1>1, <1>4, <2>2 DEF GroupTidy, PagesOf, Tidy
  <2>6. SizeOf[t] + 1 <= data[p].end - data[p].start
    <3>1. SizeOf[t] + 1 < data[p].end - data[p].start
      BY <1>7, <2>1, TargetFits DEF FitsIn, EntrySize
    <3>2. data[p].end \in Int /\ data[p].start \in Int /\ SizeOf[t] \in Int
      BY <2>4, DataAssumption DEF Page
    <3> QED BY <3>1, <3>2
  <2>7. PICK c : c = <<data[p].item_amount + 1, t>>
    OBVIOUS
  <2>8. Whole(data'[p]) = Whole(data[p]) \cup {c}
    <3>1. PICK d, f : d = data[p] /\ f = (p = g)
      OBVIOUS
    <3>2. Whole(ItemInserted(d, t)) = Whole(d) \cup {<<d.item_amount + 1, t>>}
      BY <2>4, <2>5, <2>6, <3>1, InsertedWhole
    <3> QED BY <2>4, <2>7, <3>1, <3>2
  <2>9. u[p] = w[p] \cup {c}
    BY <1>5, <2>3, <2>8
  <2> QED BY <1>4, <1>6, <2>2, <2>3, <2>4, <2>7, <2>9
<1>8. CASE Target(g, t) = 0
  <2>1. PICK n \in PG!Pages :
           n = PG!NewPage /\ n \notin PG!Groups /\ \A h \in PG!Groups : n \notin Range(chain[h])
    BY <1>1, <1>8, NewPageFacts DEF Insert, InsertIntoNewPage, PG!AddPage
  <2>2. /\ PG!AddPage(g)
        /\ data' = [data EXCEPT ![n] = ItemInserted(EmptyPage, t)]
        /\ ~(EntrySize(SizeOf[t]) > Capacity)
    BY <1>8, <2>1 DEF Insert, InsertIntoNewPage
  <2>3. chain' = [chain EXCEPT ![g] = Append(@, n)]
    BY <2>1, <2>2 DEF PG!AddPage
  <2>4. /\ data'[n] = ItemInserted(EmptyPage, t)
        /\ \A q \in PG!Pages : q # n => data'[q] = data[q]
        /\ \A h \in PG!Groups : h # g => chain'[h] = chain[h]
        /\ chain'[g] = Append(chain[g], n)
    BY <1>5, <2>2, <2>3, PageNumbers
  <2>5. qq = pp \cup {n}
    <3>1. chain[g] \in Seq(PG!Pages)
      BY <1>1, <1>3, ListsOf DEF Listed
    <3> QED BY <1>4, <2>1, <2>4, <3>1, AppendProperties, LenProperties DEF Range
  <2>6. Whole(ItemInserted(EmptyPage, t)) = Whole(EmptyPage) \cup {<<EmptyPage.item_amount + 1, t>>}
    <3>1. SizeOf[t] + 1 <= EmptyPage.end - EmptyPage.start
      BY <2>2, DataAssumption DEF EmptyPage, EntrySize
    <3> QED BY <3>1, EmptyPageFacts, InsertedWhole
  <2>7. Whole(EmptyPage) = {} /\ EmptyPage.item_amount = 0
    BY DEF Whole, Stored, EmptyPage
  <2>8. PICK c : c = <<0 + 1, t>>
    OBVIOUS
  <2>9. u[n] = {c} /\ n \notin pp
    BY <1>4, <1>5, <2>1, <2>4, <2>6, <2>7, <2>8
  <2> QED BY <1>6, <2>1, <2>4, <2>5, <2>8, <2>9
<1> QED BY <1>7, <1>8

LEMMA ScanBeginHeld ==
    ASSUME RInv, NEW g \in PG!Groups, NEW kind \in Scans, ScanBegin(g, kind) PROVE Held'
<1>1. ~harmed /\ operation = "idle" /\ operation' # "vacuum"
      /\ rows' = rows /\ chain' = chain /\ data' = data
  BY DEF ScanBegin, Idle, groupVars, Scans
<1> QED BY <1>1, AllHeld

(* The item a scan looks at is one of its group.                           *)
LEMMA CurrentStored ==
    ASSUME IInv, Scanning, ~it.is_empty
    PROVE  ~Current.deleted /\ <<it.index + 1, Current.item>> \in Whole(data[it.page])
<1>1. PICK k \in Nat : ScanAt(it, chain[group], data, header, k)
  BY ScanFacts
<1>2. ~Current.deleted
  BY <1>1 DEF ScanAt, Current
<1>3. PICK d, i : d = data[it.page] /\ i = it.index + 1
  OBVIOUS
<1>4. i \in 1 .. d.item_amount /\ d.ids[i] \in ItemId /\ ~d.ids[i].deleted
      /\ Current = d.ids[i]
  BY <1>2, <1>3, ScanReads DEF Current
<1>5. PICK s, P : s = d.ids /\ P = 1 .. d.item_amount
  OBVIOUS
<1>6. <<i, s[i].item>> \in Stored(s, P)
  BY <1>4, <1>5, StoredAt
<1> QED BY <1>2, <1>3, <1>4, <1>5, <1>6 DEF Whole

(* A page of a scan's group is written.                                    *)
Writes(p) ==
    /\ Scanning /\ (operation' = "vacuum" => ~vac'.started)
    /\ p \in PagesOf(group) /\ chain' = chain
    /\ \A q \in PG!Pages : q # p => data'[q] = data[q]

LEMMA WritesContents ==
    ASSUME RInv, NEW p, Writes(p), NEW w, w = Contents, NEW u, u = Contents'
    PROVE  /\ Keeps(w, PagesOf(group), rows[group])
           /\ u[p] = Whole(data'[p]) /\ w[p] = Whole(data[p])
           /\ \A q \in PG!Pages : q # p => u[q] = w[q]
           /\ PagesOf(group) \subseteq PG!Pages
<1>1. IInv /\ ~harmed /\ Held /\ group \in DOMAIN rows /\ operation # "vacuum"
  BY ScanFacts DEF RInv, Writes
<1>2. /\ \A q \in PG!Pages : w[q] = Whole(data[q])
      /\ \A q \in PG!Pages : u[q] = Whole(data'[q])
  BY <1>1, PlainNow, PlainNext DEF Writes
<1>3. PagesOf(group) \subseteq PG!Pages /\ p \in PG!Pages
  BY <1>1, ListsOf DEF Writes
<1>4. Keeps(w, PagesOf(group), rows[group])
  BY <1>1 DEF Held
<1> QED BY <1>2, <1>3, <1>4 DEF Writes

LEMMA WritesHeld ==
    ASSUME RInv, NEW p, Writes(p), NEW r, rows' = [rows EXCEPT ![group] = r],
           NEW u, u = Contents', Keeps(u, PagesOf(group), r)
    PROVE  Held'
<1>1. IInv /\ ~harmed /\ Held /\ group \in DOMAIN rows
  BY ScanFacts DEF RInv, Writes
<1>2. PICK w, g, pp : w = Contents /\ g = group /\ pp = PagesOf(g)
  OBVIOUS
<1>3. pp \subseteq PG!Pages /\ p \in pp /\ \A q \in PG!Pages : q # p => u[q] = w[q]
  BY <1>2, WritesContents DEF Writes
<1>4. /\ DOMAIN rows' = DOMAIN rows /\ rows'[g] = r /\ g \in DOMAIN rows
      /\ \A h \in DOMAIN rows : h # g => rows'[h] = rows[h] /\ chain'[h] = chain[h]
      /\ pp = Range(chain'[g]) /\ Keeps(u, pp, r)
  BY <1>1, <1>2 DEF PagesOf, Writes
<1>5. \A q \in PG!Pages : q \notin PagesOf(g) => u[q] = Contents[q]
  BY <1>2, <1>3
<1> QED BY <1>1, <1>4, <1>5, GroupStep

(* The item a scan looks at is deleted: its page holds the others.         *)
LEMMA DeletedWhole ==
    ASSUME IInv, Scanning, ~it.is_empty, data' = Deleted, chain' = chain, sealed' = sealed
    PROVE  /\ it.page \in PagesOf(group)
           /\ \A q \in PG!Pages : q # it.page => data'[q] = data[q]
           /\ Whole(data'[it.page]) =
                 Whole(data[it.page]) \ {<<it.index + 1, Current.item>>}
<1>1. IInv /\ ~harmed
  BY ScanFacts
<1>2. PICK p, i, d, e, x : /\ p = it.page /\ i = it.index + 1 /\ d = data[p] /\ e = data'[p]
                           /\ x = Current.item
  OBVIOUS
<1>3. /\ \A q \in PG!Pages : q # p => data'[q] = data[q]
      /\ e.item_amount = d.item_amount
      /\ Replaced(e.ids, d.ids, i, [Current EXCEPT !.deleted = TRUE])
      /\ p \in PagesOf(group) /\ i \in 1 .. d.item_amount /\ i \in 1 .. Len(d.ids)
      /\ Current \in ItemId /\ d.ids[i] = Current
      /\ <<i, x>> \in Whole(d) /\ d.item_amount \in Nat
  <2>1. /\ \A q \in PG!Pages : q # it.page => data'[q] = data[q]
        /\ \A q \in PG!Pages : data'[q].item_amount = data[q].item_amount
        /\ Replaced(data'[it.page].ids, data[it.page].ids, it.index + 1,
                    [Current EXCEPT !.deleted = TRUE])
    BY <1>1, DeletedFacts
  <2>2. /\ it.page \in PG!Pages /\ it.page \in PagesOf(group)
        /\ it.index + 1 \in 1 .. data[it.page].item_amount
        /\ it.index + 1 \in 1 .. Len(data[it.page].ids)
        /\ Current \in ItemId
    BY <1>1, ScanReads
  <2>3. data[it.page] \in Page
    BY <1>1, <2>2 DEF IInv, Kinds
  <2> QED BY <1>1, <1>2, <2>1, <2>2, <2>3, CurrentStored, DataAssumption DEF Current, Page
<1>4. /\ e.ids[i].deleted /\ \A j \in 1 .. Len(d.ids) : j # i => e.ids[j] = d.ids[j]
      /\ Len(e.ids) = Len(d.ids)
  BY <1>3 DEF Replaced, ItemId
<1>5. \A j \in 1 .. d.item_amount : j \in 1 .. Len(d.ids)
  <2>1. GroupTidy(group)
    BY <1>1, ScanFacts
  <2>2. Row(d.ids, 1 .. d.item_amount, d.item_amount)
    BY <1>2, <1>3, <2>1 DEF GroupTidy, Tidy
  <2> QED BY <2>2 DEF Row, Placed
<1>6. Whole(e) = Whole(d) \ {<<i, x>>}
  <2>1. PICK s, t, P : s = d.ids /\ t = e.ids /\ P = 1 .. d.item_amount
    OBVIOUS
  <2>2. PICK Q : Q = P \ {i}
    OBVIOUS
  <2>3. Without(s, i, P, t, Q) /\ t[i].deleted /\ s[i].item = x
    BY <1>2, <1>3, <1>4, <1>5, <2>1, <2>2 DEF SameIds, Without
  <2>4. Stored(t, P) = Stored(s, P) \ {<<i, s[i].item>>}
    BY <2>2, <2>3, StoredLoses
  <2> QED BY <1>3, <2>1, <2>3, <2>4 DEF Whole
<1> QED BY <1>2, <1>3, <1>6

LEMMA DeletedHeld ==
    ASSUME RInv, Scanning, ~it.is_empty, data' = Deleted, chain' = chain, sealed' = sealed,
           operation' = "vacuum" => ~vac'.started,
           rows' = [rows EXCEPT ![group] = @ \ {Current.item}]
    PROVE  Held'
<1>1. IInv /\ group \in DOMAIN rows /\ Held /\ ~harmed
  BY ScanFacts DEF RInv
<1>2. PICK p, i, d, e, x, r :
         /\ p = it.page /\ i = it.index + 1 /\ d = data[p] /\ e = data'[p]
         /\ x = Current.item /\ r = rows[group]
  OBVIOUS
<1>3. p \in PagesOf(group) /\ \A q \in PG!Pages : q # p => data'[q] = data[q]
  BY <1>1, <1>2, DeletedWhole
<1>4. Whole(e) = Whole(d) \ {<<i, x>>} /\ <<i, x>> \in Whole(d)
  BY <1>1, <1>2, DeletedWhole, CurrentStored
<1>5. Writes(p)
  BY <1>1, <1>2, <1>3 DEF Writes
<1>6. PICK u, w, pp, c, z : /\ w = Contents /\ u = Contents' /\ pp = PagesOf(group)
                            /\ c = <<i, x>> /\ z = r \ {x}
  OBVIOUS
<1>7. /\ Keeps(w, pp, r) /\ u[p] = Whole(e) /\ w[p] = Whole(d)
      /\ \A q \in pp : q # p => u[q] = w[q]
  <2>1. /\ Keeps(w, PagesOf(group), rows[group])
        /\ u[p] = Whole(data'[p]) /\ w[p] = Whole(data[p])
        /\ \A q \in PG!Pages : q # p => u[q] = w[q]
        /\ PagesOf(group) \subseteq PG!Pages
    BY <1>5, <1>6, WritesContents
  <2> QED BY <1>2, <1>6, <2>1
<1>8. Loses(u, w, pp, p, c) /\ c[2] = x
  BY <1>3, <1>4, <1>6, <1>7 DEF Loses
<1>9. Keeps(u, pp, r \ {c[2]})
  BY <1>7, <1>8, KeepsLess
<1>10. Keeps(u, PagesOf(group), z) /\ rows' = [rows EXCEPT ![group] = z]
  BY <1>2, <1>6, <1>8, <1>9
<1> QED BY <1>5, <1>6, <1>10, WritesHeld

LEMMA DeleteItemHeld == ASSUME RInv, DeleteItem PROVE Held'
<1>1. /\ Scanning /\ ~it.is_empty /\ data' = Deleted /\ chain' = chain /\ sealed' = sealed
      /\ operation' = operation /\ rows' = [rows EXCEPT ![group] = @ \ {Current.item}]
  BY DEF DeleteItem, NextItem, groupVars, control
<1>2. operation # "vacuum"
  BY <1>1 DEF Scanning, Scans
<1> QED BY <1>1, <1>2, DeletedHeld

LEMMA FreshRuns ==
    ASSUME NEW times, RunVacuum(times) PROVE operation' = "vacuum" => ~vac'.started
  BY DEF RunVacuum, FreshVacuum, NoVacuum

LEMMA DeleteFirstHeld == ASSUME RInv, DeleteFirst PROVE Held'
<1>1. /\ Scanning /\ ~it.is_empty /\ data' = Deleted /\ chain' = chain /\ sealed' = sealed
      /\ RunVacuum(1) /\ rows' = [rows EXCEPT ![group] = @ \ {Current.item}]
  BY DEF DeleteFirst, EndScan, groupVars
<1> QED BY <1>1, FreshRuns, DeletedHeld

LEMMA ScanEndHeld == ASSUME RInv, ScanReturn \/ ScanFails PROVE Held'
<1>1. /\ Scanning /\ data' = data /\ rows' = rows /\ chain' = chain
  BY DEF ScanReturn, ScanFails, EndScan, groupVars
<1>2. operation' = "vacuum" => ~vac'.started
  BY FreshRuns DEF ScanReturn, ScanFails
<1>3. ~harmed /\ operation # "vacuum"
  BY <1>1 DEF Scanning, Scans
<1> QED BY <1>1, <1>2, <1>3, AllHeld

LEMMA PassItemHeld == ASSUME RInv, PassItem PROVE Held'
<1>1. Scanning /\ data' = data /\ rows' = rows /\ chain' = chain /\ operation' = operation
  BY DEF PassItem, NextItem, groupVars, control
<1>2. ~harmed /\ operation # "vacuum"
  BY <1>1 DEF Scanning, Scans
<1> QED BY <1>1, <1>2, AllHeld

(* A record that is not longer than the one it is written over meets no    *)
(* other one.                                                              *)
LEMMA WrittenOver ==
    ASSUME NEW s \in IdList, NEW n \in Nat, Row(s, 1 .. n, n), NEW i \in 1 .. n,
           NEW id \in ItemId, id.offset = s[i].offset, NEW size \in Nat, size <= s[i].size,
           NEW w, IsWritten(w, s, i, id, size)
    PROVE  SameIds(s, w, (1 .. n) \ {i})
<1>1. \A j \in 1 .. n : /\ j \in 1 .. Len(s) /\ s[j].offset \in Int /\ s[j].size \in Nat
                        /\ s[j].offset >= n
  BY RowFacts
<1>2. Len(s) \in Nat /\ Len(w) \in Nat /\ Len(s) <= Len(w)
  BY LenProperties DEF IsWritten, IdList
<1> SUFFICES ASSUME NEW j \in 1 .. n, j # i PROVE j \in 1 .. Len(w) /\ w[j] = s[j]
  BY DEF SameIds
<1>3. j < i => s[i].offset + s[i].size <= s[j].offset
  BY DEF Row, Ordered, End
<1>4. i < j => s[j].offset + s[j].size <= s[i].offset
  BY DEF Row, Ordered, End
<1>5. ~Meets(s[j], j, id.offset, size)
  BY <1>1, <1>3, <1>4 DEF Meets
<1> QED BY <1>1, <1>2, <1>5 DEF IsWritten

(* A record is written over the one a scan looks at: its page holds the    *)
(* others, and this one.                                                   *)
LEMMA UpdatedWhole ==
    ASSUME IInv, ~harmed', NEW t \in Items, UpdateItem(t)
    PROVE  /\ it.page \in PagesOf(group)
           /\ \A q \in PG!Pages : q # it.page => data'[q] = data[q]
           /\ Whole(data'[it.page]) =
                 (Whole(data[it.page]) \ {<<it.index + 1, Current.item>>})
                    \cup {<<it.index + 1, t>>}
<1>1. /\ Scanning /\ ~it.is_empty
      /\ data' = [data EXCEPT ![it.page].ids =
                    Written(@, it.index + 1, [Current EXCEPT !.item = t], SizeOf[t])]
      /\ harmed' = (SizeOf[t] > Current.size)
  BY DEF UpdateItem, NextItem
<1>2. IInv /\ ~harmed
  BY <1>1, ScanFacts
<1>3. PICK p, i, d, id, w, x :
         /\ p = it.page /\ i = it.index + 1 /\ d = data[p]
         /\ id = [Current EXCEPT !.item = t] /\ w = Written(d.ids, i, id, SizeOf[t])
         /\ x = Current.item
  OBVIOUS
<1>4. /\ p \in PG!Pages /\ p \in PagesOf(group) /\ i \in 1 .. Capacity
      /\ i \in 1 .. d.item_amount /\ Current \in ItemId /\ d.ids \in IdList
      /\ d.ids[i] = Current /\ ~Current.deleted /\ <<i, x>> \in Whole(d)
      /\ d \in Page /\ data \in [PG!Pages -> Page]
  <2>1. data \in [PG!Pages -> Page]
    BY <1>2 DEF IInv, Kinds
  <2> QED BY <1>1, <1>2, <1>3, <2>1, ScanReads, CurrentStored DEF Current
<1>5. /\ data' = [data EXCEPT ![p] = [d EXCEPT !.ids = w]]
  BY <1>1, <1>3
<1>6. PICK e : e = [d EXCEPT !.ids = w]
  OBVIOUS
<1>7. e.ids = w /\ e.item_amount = d.item_amount /\ d.item_amount \in Nat
  BY <1>4, <1>6, DataAssumption DEF Page
<1>8. data'[p] = e /\ \A q \in PG!Pages : q # p => data'[q] = data[q]
  BY <1>4, <1>5, <1>6
<1>9. /\ id \in ItemId /\ id.offset = Current.offset /\ id.item = t /\ ~id.deleted
      /\ SizeOf[t] \in Nat /\ SizeOf[t] <= Current.size
  <2>1. SizeOf[t] \in Nat /\ Current.size \in Nat
    BY <1>4, DataAssumption DEF ItemId
  <2>2. ~(SizeOf[t] > Current.size)
    BY <1>1
  <2>3. SizeOf[t] <= Current.size
    BY <2>1, <2>2
  <2> QED BY <1>3, <1>4, <2>1, <2>3 DEF ItemId
<1>10. IsWritten(w, d.ids, i, id, SizeOf[t])
  BY <1>3, <1>4, <1>9, WrittenFacts
<1>11. Row(d.ids, 1 .. d.item_amount, d.item_amount)
  <2>1. GroupTidy(group)
    BY <1>1, <1>2, ScanFacts
  <2> QED BY <1>3, <1>4, <2>1 DEF GroupTidy, Tidy
<1>12. Whole(e) = (Whole(d) \ {<<i, x>>}) \cup {<<i, t>>}
  <2>1. PICK s, P, n, z : s = d.ids /\ P = 1 .. d.item_amount /\ n = d.item_amount
                          /\ z = SizeOf[t]
    OBVIOUS
  <2>2. SameIds(s, w, P \ {i})
    <3>1. SameIds(s, w, (1 .. n) \ {i})
      BY <1>4, <1>7, <1>9, <1>10, <1>11, <2>1, WrittenOver
    <3> QED BY <2>1, <3>1
  <2>3. i \in P /\ w[i] = id /\ s[i].item = x /\ w[i].item = t /\ w[i] \in ItemId
        /\ ~w[i].deleted
    BY <1>3, <1>4, <1>9, <1>10, <2>1 DEF IsWritten
  <2>4. PICK Q : Q = P \ {i}
    OBVIOUS
  <2>5. Without(s, i, P, w, Q) /\ i \notin Q /\ P = Q \cup {i}
    BY <2>2, <2>3, <2>4 DEF Without
  <2>6. Stored(w, P) = (Stored(s, P) \ {<<i, s[i].item>>}) \cup {<<i, w[i].item>>}
    BY <2>3, <2>4, <2>5, StoredTurns
  <2> QED BY <1>7, <2>1, <2>3, <2>6 DEF Whole
<1> QED BY <1>3, <1>4, <1>8, <1>12

LEMMA UpdateItemHeld ==
    ASSUME RInv, ~harmed', NEW t \in Items, UpdateItem(t) PROVE Held'
<1>1. /\ Scanning /\ ~it.is_empty /\ chain' = chain /\ operation' = operation
      /\ rows' = [rows EXCEPT ![group] = (@ \ {Current.item}) \cup {t}]
      /\ \A o \in DOMAIN rows : t \notin rows[o]
  BY DEF UpdateItem, NextItem, groupVars, control
<1>2. IInv /\ group \in DOMAIN rows /\ Held /\ ~harmed /\ operation # "vacuum"
  BY <1>1, ScanFacts DEF RInv
<1>3. PICK p, i, d, e, x, r :
         /\ p = it.page /\ i = it.index + 1 /\ d = data[p] /\ e = data'[p]
         /\ x = Current.item /\ r = rows[group]
  OBVIOUS
<1>4. p \in PagesOf(group) /\ <<i, x>> \in Whole(d)
  BY <1>1, <1>2, <1>3, UpdatedWhole, CurrentStored
<1>5. rows' = [rows EXCEPT ![group] = (r \ {x}) \cup {t}]
  BY <1>1, <1>3
<1>6. data'[p] = e /\ \A q \in PG!Pages : q # p => data'[q] = data[q]
  BY <1>2, <1>3, UpdatedWhole
<1>7. Whole(e) = (Whole(d) \ {<<i, x>>}) \cup {<<i, t>>}
  BY <1>2, <1>3, UpdatedWhole
<1>8. Writes(p)
  BY <1>1, <1>2, <1>4, <1>6 DEF Writes
<1>9. PICK u, v, pp, c, b, z :
         /\ v = Contents /\ u = Contents' /\ pp = PagesOf(group)
         /\ c = <<i, x>> /\ b = <<i, t>> /\ z = (r \ {x}) \cup {t}
  OBVIOUS
<1>10. /\ Keeps(v, pp, r) /\ u[p] = Whole(e) /\ v[p] = Whole(d)
       /\ \A q \in pp : q # p => u[q] = v[q]
  <2>1. /\ Keeps(v, PagesOf(group), rows[group])
        /\ u[p] = Whole(data'[p]) /\ v[p] = Whole(data[p])
        /\ \A q \in PG!Pages : q # p => u[q] = v[q]
        /\ PagesOf(group) \subseteq PG!Pages
    BY <1>8, <1>9, WritesContents
  <2> QED BY <1>3, <1>6, <1>9, <2>1
<1>11. Turns(u, v, pp, p, c, b) /\ c[2] = x /\ b[2] = t
  BY <1>4, <1>7, <1>9, <1>10 DEF Turns
<1>12. b[2] \notin r \ {c[2]}
  BY <1>1, <1>2, <1>3, <1>11
<1>13. Keeps(u, pp, (r \ {c[2]}) \cup {b[2]})
  BY <1>10, <1>11, <1>12, KeepsOther
<1>14. Keeps(u, PagesOf(group), z) /\ rows' = [rows EXCEPT ![group] = z]
  BY <1>5, <1>9, <1>11, <1>13
<1> QED BY <1>8, <1>9, <1>14, WritesHeld

(* While vacuum fills a page, what is left counts in its source page.      *)
LEMMA SourceNow ==
    ASSUME operation = "vacuum", vac.started, NEW w, w = Contents
    PROVE  \A p \in PG!Pages :
              w[p] = IF p = vac.src THEN Stored(data[p].ids, LeftOf(vac)) ELSE Whole(data[p])
<1>1. PICK op, v, d : op = operation /\ v = vac /\ d = data
  OBVIOUS
<1>2. w = ContentsOf("vacuum", v, d) /\ v.started
  BY <1>1 DEF Contents
<1>3. \A p \in PG!Pages :
         w[p] = IF p = v.src THEN Stored(d[p].ids, LeftOf(v)) ELSE Whole(d[p])
  BY <1>2, PlainContents, SourceContents
<1> QED BY <1>1, <1>3

LEMMA SourceNext ==
    ASSUME operation' = "vacuum", vac'.started, NEW u, u = Contents'
    PROVE  \A p \in PG!Pages :
              u[p] = IF p = vac'.src THEN Stored(data'[p].ids, LeftOf(vac')) ELSE Whole(data'[p])
<1>1. PICK op, v, d : op = operation' /\ v = vac' /\ d = data'
  OBVIOUS
<1>2. u = ContentsOf("vacuum", v, d) /\ v.started
  BY <1>1 DEF Contents
<1>3. \A p \in PG!Pages :
         u[p] = IF p = v.src THEN Stored(d[p].ids, LeftOf(v)) ELSE Whole(d[p])
  BY <1>2, PlainContents, SourceContents
<1> QED BY <1>1, <1>3

(* A step of vacuum that moves items between the pages of its group, ...   *)
LEMMA VacuumHeld ==
    ASSUME RInv, Vacuuming, rows' = rows, chain' = chain,
           NEW u, u = Contents', \A p \in PG!Pages \ PagesOf(group) : u[p] = Contents[p],
           Keeps(u, PagesOf(group), rows[group])
    PROVE  Held'
<1>1. /\ IInv /\ ~harmed /\ Held /\ group \in DOMAIN rows
  BY VacuumFacts DEF RInv, Vacuuming
<1>2. PICK g, pp, r : g = group /\ pp = PagesOf(group) /\ r = rows[group]
  OBVIOUS
<1>3. /\ DOMAIN rows' = DOMAIN rows /\ r = rows'[g] /\ g \in DOMAIN rows
      /\ \A h \in DOMAIN rows : h # g => rows'[h] = rows[h] /\ chain'[h] = chain[h]
      /\ pp = Range(chain'[g]) /\ Keeps(u, pp, r)
      /\ \A p \in PG!Pages : p \notin PagesOf(g) => u[p] = Contents[p]
  BY <1>1, <1>2 DEF PagesOf
<1> QED BY <1>1, <1>3, GroupStep

LEMMA VacuumKeeps ==
    ASSUME RInv, Vacuuming
    PROVE  Keeps(Contents, PagesOf(group), rows[group]) /\ PagesOf(group) \subseteq PG!Pages
  BY VacuumFacts DEF RInv, Held, Vacuuming

(* ... or none at all.                                                     *)
LEMMA VacuumQuiet ==
    ASSUME RInv, Vacuuming, rows' = rows, chain' = chain,
           NEW w, w = Contents, NEW u, u = Contents', \A p \in PG!Pages : u[p] = w[p]
    PROVE  Held'
<1>1. PICK pp, r : pp = PagesOf(group) /\ r = rows[group]
  OBVIOUS
<1>2. Keeps(w, pp, r) /\ pp \subseteq PG!Pages
  BY <1>1, VacuumKeeps
<1>3. Keeps(u, pp, r)
  BY <1>2, KeepsSame
<1> QED BY <1>1, <1>3, VacuumHeld

(* Behind the last id of its source page, vacuum has left nothing there    *)
(* but what it put there.                                                  *)
LEMMA LeftAtEnd ==
    ASSUME NEW v \in VacuumLocals, NEW d \in Page, v.index = v.ids,
           \/ v.dest = v.src /\ OnePage(v, d)
           \/ v.dest # v.src /\ \E b, to : TwoPages(v, d, b, to)
    PROVE  Stored(d.ids, LeftOf(v)) = Whole(d)
<1>1. v.ids \in Nat /\ v.dest_id \in Nat /\ v.index \in Nat
  BY LocalsNat
<1>2. CASE v.dest = v.src /\ OnePage(v, d)
  <2>1. d.item_amount = v.dest_id + v.ids - v.index
    BY Zenon, <1>2 DEF OnePage
  <2>2. d.item_amount = v.dest_id
    BY <1>1, <2>1
  <2>3. Around(v.dest_id, v.index, v.ids) = 1 .. v.dest_id
    BY <1>1 DEF Around
  <2> QED BY <1>2, <2>2, <2>3 DEF LeftOf, Whole
<1>3. CASE v.dest # v.src /\ \E b, to : TwoPages(v, d, b, to)
  <2>1. d.item_amount = v.ids - v.index
    BY Zenon, <1>3 DEF TwoPages
  <2>2. d.item_amount = 0
    BY <1>1, <2>1
  <2>3. v.index + 1 .. v.ids = 1 .. 0
    BY <1>1
  <2> QED BY <1>3, <2>2, <2>3 DEF LeftOf, Whole
<1> QED BY <1>2, <1>3

(* Which pages a vacuum that has started works on.                         *)
LEMMA StartedOn ==
    ASSUME IInv, Vacuuming, vac.started
    PROVE  /\ vac.src \in PG!Pages /\ vac.dest \in PG!Pages
           /\ vac.src \in PagesOf(group) /\ vac.dest \in PagesOf(group)
           /\ data[vac.src] \in Page /\ data[vac.dest] \in Page /\ vac \in VacuumLocals
           /\ \/ vac.dest = vac.src /\ OnePage(vac, data[vac.src])
              \/ vac.dest # vac.src
                 /\ TwoPages(vac, data[vac.src], vac.src \in sealed, data[vac.dest])
<1>1. /\ Listed(chain[group], group, header) /\ header \in [PG!Pages -> PG!PageHeader]
      /\ data \in [PG!Pages -> Page] /\ vac \in VacuumLocals
      /\ \/ vac = FreshVacuum(group) /\ GroupTidy(group)
         \/ \E kd, ks \in Nat : VacuumAt(vac, chain[group], data, sealed, header, kd, ks)
  BY VacuumFacts
<1>2. vac # FreshVacuum(group)
  BY DEF FreshVacuum, NoVacuum
<1>3. PICK kd \in Nat, ks \in Nat : VacuumAt(vac, chain[group], data, sealed, header, kd, ks)
  BY <1>1, <1>2
<1>4. /\ vac.src = chain[group][ks] /\ vac.dest = chain[group][kd]
      /\ vac.src \in PG!Pages /\ vac.dest \in PG!Pages
      /\ vac.src \in PagesOf(group) /\ vac.dest \in PagesOf(group)
      /\ data[vac.src] \in Page /\ data[vac.dest] \in Page
      /\ (kd # ks => vac.src # vac.dest)
  BY <1>1, <1>3, PlacesOf DEF PagesOf
<1>5. \/ kd = ks /\ OnePage(vac, data[chain[group][kd]])
      \/ kd < ks /\ TwoPages(vac, data[chain[group][ks]], chain[group][ks] \in sealed,
                             data[chain[group][kd]])
  BY <1>3 DEF VacuumAt, Searching
<1> QED BY <1>1, <1>4, <1>5

LEMMA DoneContents ==
    ASSUME IInv, Vacuuming, vac.index = vac.ids, NEW w, w = Contents
    PROVE  \A p \in PG!Pages : w[p] = Whole(data[p])
<1>1. CASE ~vac.started
  BY <1>1, PlainNow
<1>2. CASE vac.started
  <2>1. PICK v, d, p : v = vac /\ p = vac.src /\ d = data[p]
    OBVIOUS
  <2>2. /\ v \in VacuumLocals /\ d \in Page /\ v.index = v.ids
        /\ \/ v.dest = v.src /\ OnePage(v, d)
           \/ v.dest # v.src /\ \E b, to : TwoPages(v, d, b, to)
    BY <1>2, <2>1, StartedOn
  <2>3. Stored(d.ids, LeftOf(v)) = Whole(d)
    BY <2>2, LeftAtEnd
  <2> QED BY <1>2, <2>1, <2>3, SourceNow DEF Vacuuming
<1> QED BY <1>1, <1>2

LEMMA VacuumPageHeld == ASSUME RInv, ~harmed', VacuumPage PROVE Held'
<1>1. /\ Vacuuming /\ vac.index = vac.ids /\ vac.src_next # NULL
      /\ harmed' = (vac.started /\ vac.src_next \in sealed)
      /\ data' = data /\ rows' = rows /\ chain' = chain /\ operation' = operation
  BY DEF VacuumPage, PageDone, groupVars, control
<1>2. IInv /\ operation = "vacuum"
  BY <1>1 DEF RInv, Vacuuming
<1>3. PICK w, u : w = Contents /\ u = Contents'
  OBVIOUS
<1>4. \A p \in PG!Pages : w[p] = Whole(data[p])
  BY <1>1, <1>2, <1>3, DoneContents
<1>5. /\ Listed(chain[group], group, header) /\ header \in [PG!Pages -> PG!PageHeader]
      /\ data \in [PG!Pages -> Page] /\ vac \in VacuumLocals
      /\ \/ vac = FreshVacuum(group) /\ GroupTidy(group)
         \/ \E kd, ks \in Nat : VacuumAt(vac, chain[group], data, sealed, header, kd, ks)
  BY <1>1, <1>2, VacuumFacts
<1>6. CASE ~vac.started
  <2>1. ~vac'.started
    BY <1>1, <1>6 DEF VacuumPage
  <2>2. \A p \in PG!Pages : u[p] = Whole(data'[p])
    BY <1>3, <2>1, PlainNext
  <2>3. \A p \in PG!Pages : u[p] = w[p]
    BY <1>1, <1>4, <2>2
  <2> QED BY <1>1, <1>3, <2>3, VacuumQuiet
<1>7. CASE vac.started
  <2>1. vac # FreshVacuum(group)
    BY <1>7 DEF FreshVacuum, NoVacuum
  <2>2. PICK s : s = chain[group]
    OBVIOUS
  <2>3. PICK kd \in Nat, ks \in Nat : VacuumAt(vac, s, data, sealed, header, kd, ks)
    BY <1>5, <2>1, <2>2
  <2>4. Listed(s, group, header)
    BY <1>5, <2>2
  <2>5. /\ Len(s) \in Nat /\ kd \in 1 .. Len(s) /\ ks \in 1 .. Len(s) /\ kd <= ks
        /\ vac.dest = s[kd]
        /\ vac.src_next = IF ks = Len(s) THEN NULL ELSE s[ks + 1]
    BY <1>5, <2>3, <2>4, PlacesOf
  <2>6. PICK kn \in Nat : kn = ks + 1
    OBVIOUS
  <2>7. kn \in 1 .. Len(s) /\ vac.src_next = s[kn] /\ kd # kn /\ kn \in ks + 1 .. Len(s)
    BY <1>1, <2>5, <2>6
  <2>8. PICK p \in PG!Pages : p = s[kn]
    BY <2>4, <2>7 DEF Listed
  <2>9. p # vac.dest
    BY <2>4, <2>5, <2>7, <2>8 DEF Listed, IsInjective
  <2>10. Tidy(data[p], p \in sealed, FALSE) /\ p \notin sealed
    BY <1>1, <1>7, <2>3, <2>7, <2>8 DEF VacuumAt, Behind
  <2>11. /\ vac'.src = p /\ vac'.dest = vac.dest /\ vac'.started /\ vac'.index = 0
         /\ vac'.ids = data[p].start
    BY <1>5, <1>7, <2>7, <2>8, NextPageLocals
  <2>12. data[p].start = data[p].item_amount
    BY <2>10 DEF Tidy
  <2>13. LeftOf(vac') = 1 .. data[p].item_amount
    BY <2>9, <2>11, <2>12 DEF LeftOf
  <2>14. \A o \in PG!Pages : u[o] = w[o]
    <3>1. \A o \in PG!Pages :
             u[o] = IF o = vac'.src THEN Stored(data'[o].ids, LeftOf(vac')) ELSE Whole(data'[o])
      BY <1>1, <1>2, <1>3, <2>11, SourceNext
    <3> QED BY <1>1, <1>4, <2>11, <2>13, <3>1 DEF Whole
  <2> QED BY <1>1, <1>3, <2>14, VacuumQuiet
<1> QED BY <1>6, <1>7

(* What is left when vacuum passes a deleted id.                           *)
PassesOne(u, v, s) ==
    /\ v.index < v.ids /\ s[v.index + 1].deleted
    /\ u.dest = v.dest /\ u.src = v.src
    /\ u.index = v.index + 1 /\ u.ids = v.ids /\ u.dest_id = v.dest_id
    /\ \A i \in LeftOf(v) : i \in 1 .. Len(s)

LEMMA LeftBehind ==
    ASSUME NEW v \in VacuumLocals, NEW s, NEW u, PassesOne(u, v, s)
    PROVE  Stored(s, LeftOf(u)) = Stored(s, LeftOf(v))
<1> USE DEF PassesOne
<1>1. v.ids \in Nat /\ v.dest_id \in Nat /\ v.index \in Nat
  BY LocalsNat
<1>2. LeftOf(u) \subseteq LeftOf(v) /\ \A i \in LeftOf(v) \ LeftOf(u) : i = v.index + 1
  BY <1>1 DEF LeftOf, Around
<1>3. PICK P, Q : P = LeftOf(v) /\ Q = LeftOf(u)
  OBVIOUS
<1>4. SameIds(s, s, Q) /\ \A i \in P \ Q : s[i].deleted
  BY <1>2, <1>3 DEF SameIds
<1>5. Stored(s, Q) = Stored(s, P)
  BY <1>2, <1>3, <1>4, StoredSame
<1> QED BY <1>3, <1>5

-----------------------------------------------------------------------------
LEMMA LeftPlaces ==
    ASSUME NEW v \in VacuumLocals, NEW d \in Page,
           \/ v.dest = v.src /\ OnePage(v, d)
           \/ v.dest # v.src /\ \E b, to : TwoPages(v, d, b, to)
    PROVE  Row(d.ids, LeftOf(v), v.ids) /\ v.index <= v.ids /\ d.ids \in IdList
           /\ \A i \in LeftOf(v) : i \in 1 .. Len(d.ids) /\ d.ids[i] \in ItemId
<1>1. v.ids \in Nat /\ v.dest_id \in Nat /\ v.index \in Nat /\ d.ids \in IdList
  BY LocalsNat DEF Page
<1>2. Row(d.ids, LeftOf(v), v.ids) /\ v.index <= v.ids
  <2>1. CASE v.dest = v.src /\ OnePage(v, d)
    <3>1. Row(d.ids, Around(v.dest_id, v.index, v.ids), v.ids) /\ v.index <= v.ids
      BY Zenon, <2>1 DEF OnePage, Filling
    <3> QED BY <2>1, <3>1 DEF LeftOf
  <2>2. CASE v.dest # v.src /\ \E b, to : TwoPages(v, d, b, to)
    <3>1. Row(d.ids, v.index + 1 .. v.ids, v.ids) /\ v.index <= v.ids
      BY Zenon, <2>2 DEF TwoPages, Filling
    <3> QED BY <2>2, <3>1 DEF LeftOf
  <2> QED BY <2>1, <2>2
<1>3. PICK P : P = LeftOf(v)
  OBVIOUS
<1>4. \A i \in P : i \in 1 .. Len(d.ids) /\ d.ids[i] \in ItemId
  BY <1>1, <1>2, <1>3, RowFacts
<1> QED BY <1>1, <1>2, <1>3, <1>4

LEMMA VacuumStartsHeld == ASSUME RInv, VacuumStarts PROVE Held'
<1>1. /\ VacuumItem /\ ~vac.started /\ SourceId.deleted /\ data' = Counted
      /\ vac' = [vac EXCEPT !.started = TRUE, !.index = @ + 1, !.dest_id = vac.index,
                            !.dest_data = SourceId.offset + SourceId.size]
      /\ rows' = rows /\ chain' = chain /\ operation' = operation
  BY DEF VacuumStarts, VacuumItem, groupVars, control
<1>2. /\ IInv /\ Vacuuming /\ operation = "vacuum"
  BY <1>1 DEF RInv, VacuumItem, Vacuuming
<1>3. /\ vac.index # vac.ids /\ data \in [PG!Pages -> Page] /\ vac \in VacuumLocals
      /\ vac.index \in Nat
      /\ Listed(chain[group], group, header) /\ header \in [PG!Pages -> PG!PageHeader]
  BY <1>1, <1>2, ItemPlace
<1>4. PICK kd, ks : VacuumAt(vac, chain[group], data, sealed, header, kd, ks)
  BY <1>1, <1>2, ItemPlace
<1>5. PICK p \in PG!Pages : p = vac.src
  BY <1>3, <1>4, PlacesOf
<1>6. /\ p = chain[group][ks] /\ vac.dest = chain[group][kd] /\ data[p] \in Page
  BY <1>3, <1>4, <1>5, PlacesOf
<1>7. kd = ks /\ Searching(vac, data[p], p \in sealed, kd = 1)
  BY <1>1, <1>4, <1>6 DEF VacuumAt, OnePage, TwoPages, Filling
<1>8. PICK n, m, s : /\ n \in Nat /\ m \in Nat /\ s = data[p].ids
                      /\ m = vac.index /\ n = vac.ids
  BY <1>3, LocalsNat
<1>9. /\ m < n /\ data[p].item_amount = n /\ Row(s, 1 .. n, n) /\ s \in IdList
  BY <1>3, <1>6, <1>7, <1>8, SearchingReads
<1>10. s[m + 1].deleted
  BY <1>1, <1>5, <1>8 DEF SourceId
<1>11. /\ \A q \in PG!Pages : q # p => data'[q] = data[q]
       /\ data'[p] = [data[p] EXCEPT !.item_amount = @ - 1]
  BY <1>1, <1>3, <1>5, CountedFacts
<1>12. data'[p].ids = s
  BY <1>8, <1>11
<1>13. /\ vac'.src = p /\ vac'.dest = p /\ vac'.started /\ vac'.index = m + 1
       /\ vac'.ids = n /\ vac'.dest_id = m
  BY <1>1, <1>3, <1>5, <1>6, <1>7, <1>8 DEF VacuumLocals
<1>14. Stored(s, LeftOf(vac')) = Stored(s, 1 .. n)
  <2>1. PICK P, Q : P = 1 .. n /\ Q = Around(m, m + 1, n)
    OBVIOUS
  <2>2. Q \subseteq P /\ \A i \in P \ Q : i = m + 1
    <3>1. m \in Nat /\ n \in Nat /\ m < n
      BY <1>8, <1>9
    <3>2. Q = 1 .. m \cup (m + 1) + 1 .. n
      BY <2>1, Zenon DEF Around
    <3>3. ASSUME NEW i \in Q PROVE i \in P
      BY <2>1, <3>1, <3>2, <3>3
    <3>4. ASSUME NEW i \in P, i \notin Q PROVE i = m + 1
      BY <2>1, <3>1, <3>2, <3>4
    <3> QED BY <3>3, <3>4
  <2>3. \A i \in P : i \in 1 .. Len(s)
    BY <1>9, <2>1, RowFacts
  <2>4. SameIds(s, s, Q) /\ \A i \in P \ Q : s[i].deleted
    BY <1>10, <2>2, <2>3 DEF SameIds
  <2>5. Stored(s, Q) = Stored(s, P)
    BY <2>2, <2>4, StoredSame
  <2>6. LeftOf(vac') = Q
    BY <1>13, <2>1 DEF LeftOf
  <2> QED BY <2>1, <2>5, <2>6
<1>15. PICK w, u : w = Contents /\ u = Contents'
  OBVIOUS
<1>16. \A q \in PG!Pages : w[q] = Whole(data[q])
  BY <1>1, <1>15, PlainNow
<1>17. \A q \in PG!Pages :
          u[q] = IF q = p THEN Stored(data'[q].ids, LeftOf(vac')) ELSE Whole(data'[q])
  BY <1>1, <1>2, <1>13, <1>15, SourceNext
<1>18. \A q \in PG!Pages : u[q] = w[q]
  BY <1>8, <1>9, <1>11, <1>12, <1>14, <1>16, <1>17 DEF Whole
<1> QED BY <1>1, <1>2, <1>15, <1>18, VacuumQuiet

LEMMA VacuumSkipsHeld == ASSUME RInv, VacuumSkips PROVE Held'
<1>1. /\ VacuumItem /\ vac.started = SourceId.deleted /\ data' = Counted
      /\ vac' = [vac EXCEPT !.index = @ + 1]
      /\ rows' = rows /\ chain' = chain /\ operation' = operation
  BY DEF VacuumSkips, VacuumItem, groupVars, control
<1>2. /\ IInv /\ Vacuuming /\ operation = "vacuum"
  BY <1>1 DEF RInv, VacuumItem, Vacuuming
<1>3. /\ vac.index # vac.ids /\ data \in [PG!Pages -> Page] /\ vac \in VacuumLocals
      /\ vac.index \in Nat
  BY <1>1, <1>2, ItemPlace
<1>4. PICK w, u : w = Contents /\ u = Contents'
  OBVIOUS
<1>5. /\ vac'.started = vac.started /\ vac'.index = vac.index + 1 /\ vac'.ids = vac.ids
      /\ vac'.dest_id = vac.dest_id /\ vac'.src = vac.src /\ vac'.dest = vac.dest
  BY <1>1, <1>3 DEF VacuumLocals
<1>6. CASE ~vac.started
  <2>1. data' = data
    BY <1>1, <1>3, <1>6 DEF Counted, VacuumLocals
  <2>2. ~vac'.started
    BY <1>5, <1>6
  <2>3. /\ \A p \in PG!Pages : w[p] = Whole(data[p])
        /\ \A p \in PG!Pages : u[p] = Whole(data'[p])
    BY <1>4, <1>6, <2>2, PlainNow, PlainNext
  <2>4. \A p \in PG!Pages : u[p] = w[p]
    BY <2>1, <2>3
  <2> QED BY <1>1, <1>2, <1>4, <2>4, VacuumQuiet
<1>7. CASE vac.started
  <2>1. SourceId.deleted
    BY <1>1, <1>3, <1>7 DEF VacuumLocals
  <2>2. PICK v, d, p : v = vac /\ p = vac.src /\ d = data[p]
    OBVIOUS
  <2>3. /\ v \in VacuumLocals /\ d \in Page /\ p \in PG!Pages
        /\ \/ v.dest = v.src /\ OnePage(v, d)
           \/ v.dest # v.src /\ \E b, to : TwoPages(v, d, b, to)
    BY <1>2, <1>7, <2>2, StartedOn
  <2>4. PICK s : s = d.ids
    OBVIOUS
  <2>5. v.index <= v.ids /\ \A i \in LeftOf(v) : i \in 1 .. Len(s)
    BY <2>3, <2>4, LeftPlaces
  <2>6. v.index < v.ids /\ s[v.index + 1].deleted
    <3>1. v.index < v.ids
      BY <1>3, <2>2, <2>5, LocalsNat
    <3> QED BY <2>1, <2>2, <2>4, <3>1 DEF SourceId
  <2>7. PICK x : x = vac'
    OBVIOUS
  <2>8. Stored(s, LeftOf(x)) = Stored(s, LeftOf(v))
    <3>1. PassesOne(x, v, s)
      BY <1>5, <2>2, <2>5, <2>6, <2>7 DEF PassesOne
    <3> QED BY <2>3, <3>1, LeftBehind
  <2>9. /\ \A q \in PG!Pages : q # p => data'[q] = data[q]
        /\ data'[p] = [data[p] EXCEPT !.item_amount = @ - 1]
    BY <1>1, <1>3, <2>1, <2>2, <2>3, CountedFacts
  <2>10. data'[p].ids = s
    BY <2>2, <2>4, <2>9
  <2>11. \A q \in PG!Pages :
            w[q] = IF q = p THEN Stored(data[q].ids, LeftOf(vac)) ELSE Whole(data[q])
    BY <1>2, <1>4, <1>7, <2>2, SourceNow
  <2>12. \A q \in PG!Pages :
            u[q] = IF q = p THEN Stored(data'[q].ids, LeftOf(vac')) ELSE Whole(data'[q])
    BY <1>1, <1>2, <1>4, <1>5, <1>7, <2>2, SourceNext
  <2>13. \A q \in PG!Pages : u[q] = w[q]
    <3>1. w[p] = Stored(s, LeftOf(v))
      BY <2>2, <2>3, <2>4, <2>11
    <3>2. u[p] = Stored(s, LeftOf(x))
      BY <2>3, <2>7, <2>10, <2>12
    <3>3. \A q \in PG!Pages : q # p => u[q] = Whole(data[q]) /\ w[q] = Whole(data[q])
      BY <2>9, <2>11, <2>12
    <3> QED BY <2>8, <3>1, <3>2, <3>3
  <2> QED BY <1>1, <1>2, <1>4, <2>13, VacuumQuiet
<1> QED BY <1>6, <1>7

(* Closing its destination leaves the items of a page alone.               *)
LEMMA ClosedWhole ==
    ASSUME NEW d \in Page, NEW e, NEW n, NEW end, IsClosed(e, d, n, end),
           NEW low, Row(d.ids, 1 .. d.item_amount, low)
    PROVE  Whole(e) = Whole(d)
<1>1. d.ids \in IdList
  BY DEF Page
<1>2. \A i \in 1 .. d.item_amount : i \in 1 .. Len(d.ids)
  BY <1>1, RowFacts
<1>3. e.item_amount = d.item_amount
  BY DEF IsClosed
<1>4. d.item_amount \in Nat
  BY DataAssumption DEF Page
<1>5. SameIds(d.ids, e.ids, 1 .. d.item_amount)
  BY <1>2, <1>4 DEF SameIds, IsClosed
<1> QED BY <1>3, <1>5, WholeKept

LEMMA ClosedContents ==
    ASSUME data \in [PG!Pages -> Page], vac \in VacuumLocals,
           NEW q \in PG!Pages, q = vac.dest,
           \/ Filled(vac, data[q])
           \/ \E b, first : Searching(vac, data[q], b, first)
    PROVE  \A p \in PG!Pages : Whole(Closed[p]) = Whole(data[p])
<1>1. PICK v \in VacuumLocals, d \in Page : v = vac /\ d = data[q]
  OBVIOUS
<1>2. /\ v.dest_id \in 0 .. Capacity /\ v.dest_data \in 0 .. Capacity
      /\ \E low : Row(d.ids, 1 .. d.item_amount, low)
  <2>1. CASE Filled(v, d)
    <3>1. Filling(v, d) /\ Row(d.ids, 1 .. v.dest_id, v.dest_id) /\ d.item_amount = v.dest_id
      BY Zenon, <2>1 DEF Filled
    <3> QED BY <3>1, FilledBounds
  <2>2. CASE \E b, first : Searching(v, d, b, first)
    <3>1. v.dest_id = 0 /\ v.dest_data <= Capacity
          /\ Row(d.ids, 1 .. d.item_amount, d.item_amount)
      BY <2>2 DEF Searching, Tidy
    <3> QED BY <3>1, LocalsNat, DataAssumption
  <2> QED BY <1>1, <2>1, <2>2
<1>3. /\ IsClosed(Closed[q], d, v.dest_id, v.dest_data)
      /\ \A o \in PG!Pages : o # q => Closed[o] = data[o]
  BY <1>1, <1>2, ClosedPages
<1>4. PICK e, n, end, low : /\ e = Closed[q] /\ n = v.dest_id /\ end = v.dest_data
                            /\ Row(d.ids, 1 .. d.item_amount, low)
  BY <1>2
<1>5. Whole(e) = Whole(d)
  BY <1>3, <1>4, ClosedWhole
<1> QED BY <1>1, <1>3, <1>4, <1>5

LEMMA VacuumEndHeld == ASSUME RInv, VacuumEnd PROVE Held'
<1>1. /\ Vacuuming /\ vac.index = vac.ids /\ data' = Closed /\ rows' = rows /\ chain' = chain
      /\ (operation' = "vacuum" => ~vac'.started)
  BY FreshRuns DEF VacuumEnd, PageDone, groupVars, PG!FreeRest, PG!links, PG!history
<1>2. IInv
  BY DEF RInv
<1>3. PICK kd \in Nat, q \in PG!Pages, k \in Nat :
         VacuumAt(vac, chain[group], data, sealed, header, kd, k) /\ q = chain[group][kd]
         /\ q = vac.dest
  BY <1>2, EndCloses
<1>4. /\ data \in [PG!Pages -> Page] /\ vac \in VacuumLocals
      /\ Listed(chain[group], group, header) /\ header \in [PG!Pages -> PG!PageHeader]
  BY <1>1, <1>2, VacuumFacts
<1>5. data[q] \in Page
  BY <1>4
<1>6. Filled(vac, data[q]) \/ \E b, first : Searching(vac, data[q], b, first)
  <2>1. \/ Searching(vac, data[q], q \in sealed, kd = 1)
        \/ OnePage(vac, data[q])
        \/ TwoPages(vac, data[chain[group][k]], chain[group][k] \in sealed, data[q])
    BY <1>3 DEF VacuumAt
  <2> QED BY <1>1, <1>4, <1>5, <2>1, OnePageDone, TwoPagesDone
<1>7. \A p \in PG!Pages : Whole(Closed[p]) = Whole(data[p])
  BY <1>3, <1>4, <1>6, ClosedContents
<1>8. PICK w, u : w = Contents /\ u = Contents'
  OBVIOUS
<1>9. \A p \in PG!Pages : w[p] = Whole(data[p])
  BY <1>1, <1>2, <1>8, DoneContents
<1>10. \A p \in PG!Pages : u[p] = Whole(data'[p])
  BY <1>1, <1>8, PlainNext
<1>11. \A p \in PG!Pages : u[p] = w[p]
  BY <1>1, <1>7, <1>9, <1>10
<1> QED BY <1>1, <1>8, <1>11, VacuumQuiet

LEMMA VacuumGivesUpHeld == ASSUME RInv, VacuumGivesUp PROVE Held'
<1>1. /\ NoRoom /\ StaysFirst /\ Vacuuming /\ vac.started /\ data' = Closed
      /\ rows' = rows /\ chain' = chain
  BY DEF VacuumGivesUp, NoRoom, VacuumItem, groupVars
<1>2. IInv /\ operation = "vacuum"
  BY <1>1 DEF RInv, Vacuuming
<1>3. PICK kd, ks, kn, p, q, r : NoRoomAt(kd, ks, kn, p, q, r)
  BY <1>1, <1>2, NoRoomFacts
<1>4. /\ p \in PG!Pages /\ q \in PG!Pages /\ p # q /\ vac.src = p /\ vac.dest = q
      /\ TwoPages(vac, data[p], p \in sealed, data[q])
  BY <1>3 DEF NoRoomAt
<1>5. data \in [PG!Pages -> Page] /\ vac \in VacuumLocals
  BY <1>1, <1>2, VacuumFacts
<1>6. \A o \in PG!Pages : Whole(Closed[o]) = Whole(data[o])
  <2>1. Filled(vac, data[q])
    BY <1>4, <1>5, TwoPagesDone
  <2> QED BY <1>4, <1>5, <2>1, ClosedContents
<1>7. vac.index = 0 /\ data[p].item_amount = vac.ids - vac.index /\ vac.ids \in Nat
  BY <1>1, <1>4, <1>5, LocalsNat DEF StaysFirst, TwoPages
<1>8. LeftOf(vac) = 1 .. data[p].item_amount
  BY <1>4, <1>7 DEF LeftOf
<1>9. PICK w, u : w = Contents /\ u = Contents'
  OBVIOUS
<1>10. \A o \in PG!Pages : w[o] = Whole(data[o])
  <2>1. \A o \in PG!Pages :
           w[o] = IF o = p THEN Stored(data[o].ids, LeftOf(vac)) ELSE Whole(data[o])
    BY <1>1, <1>2, <1>4, <1>9, SourceNow
  <2> QED BY <1>8, <2>1 DEF Whole
<1>11. ~vac'.started
  <2>1. PICK x : x = OnNextDest
    OBVIOUS
  <2>2. "started" \in DOMAIN x
    BY <1>5, <2>1 DEF OnNextDest, VacuumLocals
  <2>3. vac' = [x EXCEPT !.started = FALSE, !.index = @ + 1]
    BY <2>1 DEF VacuumGivesUp
  <2> QED BY <2>2, <2>3
<1>12. \A o \in PG!Pages : u[o] = Whole(data'[o])
  BY <1>9, <1>11, PlainNext
<1>13. \A o \in PG!Pages : u[o] = w[o]
  BY <1>1, <1>6, <1>10, <1>12
<1> QED BY <1>1, <1>9, <1>13, VacuumQuiet

LEMMA TakenFromRange ==
    ASSUME PGP!Inv, NEW g \in PG!Groups, NEW k \in 1 .. Len(chain[g]),
           NEW p, p = chain[g][k], NEW t, t = PG!Without(chain[g], p)
    PROVE  Range(t) = Range(chain[g]) \ {p}
<1>1. PGP!TypeOK /\ PGP!Distinct /\ g \in PGP!Groups
  BY SameNames DEF PGP!Inv
<1>2. PGP!IsWithout(PGP!Without(chain[g], p), chain[g], k)
  BY <1>1, PGP!WithoutFacts, DataAssumption
<1>3. t = PGP!Without(chain[g], p)
  BY SameWithout
<1>4. PGP!Range(t) = PGP!Range(chain[g]) \ {p}
  BY <1>2, <1>3 DEF PGP!IsWithout
<1>5. \A s : PGP!Range(s) = Range(s)
  BY DEF PGP!Range, Range
<1> QED BY <1>4, <1>5

LEMMA FreePageHeld == ASSUME RInv, ~harmed, FreePage PROVE Held'
<1>1. /\ IInv /\ Held /\ operation = "free" /\ PG!FreePageCurrent
      /\ data' = Forgotten(next_page_id) /\ operation' = operation /\ rows' = rows
  BY DEF RInv, FreePage, control
<1>2. /\ PGP!Inv /\ Kinds /\ loop_group = group /\ phase = "vacuum"
      /\ DOMAIN rows = PG!Groups /\ group \in DOMAIN rows
      /\ Listed(chain[group], group, header) /\ data \in [PG!Pages -> Page]
  BY <1>1, FreeFacts DEF Kinds
<1>3. PICK p, g, s : p = next_page_id /\ g = group /\ s = chain[g]
  OBVIOUS
<1>4. PICK kd \in Nat : FreeingAt(s, data, sealed, vac, p, kd)
  BY <1>1, <1>3, FreeFacts
<1>5. p # NULL /\ chain' = [chain EXCEPT ![g] = PG!Without(@, p)]
  BY <1>1, <1>2, <1>3 DEF PG!FreePageCurrent, NULL
<1>6. /\ Len(s) \in Nat /\ DOMAIN s = 1 .. Len(s) /\ kd \in 1 .. Len(s)
      /\ p = (IF kd = Len(s) THEN NULL ELSE s[kd + 1])
  BY Zenon, <1>2, <1>3, <1>4 DEF Listed, FreeingAt
<1>7. PICK kn \in 1 .. Len(s) : kn = kd + 1 /\ p = s[kn]
  <2>1. PICK n \in Nat : n = Len(s)
    BY Zenon, <1>6
  <2>2. p # NULL /\ kd \in 1 .. n /\ p = (IF kd = n THEN NULL ELSE s[kd + 1])
    BY <1>5, <1>6, <2>1
  <2>3. kd \in 1 .. n /\ kd # n /\ p = s[kd + 1]
    BY Zenon, <2>2
  <2>4. kd + 1 \in 1 .. n
    BY <2>3
  <2> QED BY <2>1, <2>3, <2>4
<1>8. p \in PG!Pages /\ data[p].item_amount = 0
  <2>1. Emptied(s, data, kd + 1, Len(s)) /\ \A j \in 1 .. Len(s) : s[j] \in PG!Pages
    BY Zenon, <1>2, <1>3, <1>4 DEF Listed, FreeingAt
  <2>2. PICK n \in Nat : n = Len(s)
    BY Zenon, <1>6
  <2>3. kn \in kd + 1 .. n
    BY <1>7, <2>2
  <2> QED BY <1>7, <2>1, <2>2, <2>3 DEF Emptied
<1>9. PICK t : t = PG!Without(s, p)
  OBVIOUS
<1>10. Range(t) = Range(s) \ {p}
  <2>1. g \in PG!Groups /\ kn \in 1 .. Len(chain[g]) /\ p = chain[g][kn]
        /\ t = PG!Without(chain[g], p)
    BY <1>2, <1>3, <1>7, <1>9
  <2>2. Range(t) = Range(chain[g]) \ {p}
    BY <1>2, <2>1, TakenFromRange
  <2> QED BY <1>3, <2>2
<1>11. chain'[g] = t /\ \A h \in DOMAIN rows : h # g => chain'[h] = chain[h]
  BY <1>2, <1>3, <1>5, <1>9, PageNumbers
<1>12. PICK pp, qq, r : pp = Range(s) /\ qq = Range(t) /\ r = rows[g]
  OBVIOUS
<1>13. qq \subseteq pp /\ \A q \in pp \ qq : q = p
  BY <1>10, <1>12
<1>14. /\ \A q \in PG!Pages : q # p => data'[q] = data[q]
       /\ data'[p].item_amount = 0
  BY <1>1, <1>2, <1>3, <1>8, Forgets
<1>15. PICK w, u : w = Contents /\ u = Contents'
  OBVIOUS
<1>16. /\ \A q \in PG!Pages : w[q] = Whole(data[q])
       /\ \A q \in PG!Pages : u[q] = Whole(data'[q])
  BY <1>1, <1>15, PlainNow, PlainNext
<1>17. w[p] = {} /\ u[p] = {}
  <2>1. \A d : d.item_amount = 0 => Whole(d) = {}
    BY DEF Whole, Stored
  <2> QED BY <1>8, <1>14, <1>16, <2>1
<1>18. \A q \in PG!Pages : u[q] = w[q]
  BY <1>14, <1>16, <1>17
<1>19. pp \subseteq PG!Pages /\ Keeps(w, pp, r)
  BY <1>1, <1>2, <1>3, <1>12, <1>15, ListsOf DEF Held, PagesOf
<1>20. Keeps(u, qq, r)
  BY <1>13, <1>17, <1>18, <1>19, KeepsSame
<1> QED BY <1>1, <1>2, <1>3, <1>11, <1>12, <1>15, <1>18, <1>20, GroupStep

LEMMA FreeReturnHeld == ASSUME RInv, ~harmed, FreeReturn PROVE Held'
<1>1. /\ operation = "free" /\ data' = data /\ rows' = rows /\ chain' = chain
  BY DEF FreeReturn, PG!FreeRestReturn, PG!history, PG!links
<1>2. operation' = "vacuum" => ~vac'.started
  BY FreshRuns DEF FreeReturn
<1> QED BY <1>1, <1>2, AllHeld

(* What is left counts the same when vacuum moves an item, ...             *)
ItemMoves(u, e, v, d, n, m, k, end, id) ==
    /\ IsMovedWithin(u, e, v, d, n, m, k, end, id)
    /\ id.item = d.ids[m + 1].item /\ ~d.ids[m + 1].deleted
Exchanged(S, T) == \E c, x : c[2] = x[2] /\ c \in S /\ T = (S \ {c}) \cup {x}

LEMMA StoredMovesWithin ==
    ASSUME NEW d \in Page, NEW e, NEW u, NEW v, NEW n, NEW m, NEW k, NEW end, NEW id,
           ItemMoves(u, e, v, d, n, m, k, end, id)
    PROVE  Exchanged(Stored(d.ids, Around(n, m, k)), Stored(e.ids, Around(n + 1, m + 1, k)))
<1> USE DEF ItemMoves
<1>1. PICK y, t : /\ Replaced(y, d.ids, m + 1, id) /\ IsWritten(t, y, n + 1, id, id.size)
                  /\ e = [d EXCEPT !.ids = t]
  BY Zenon DEF IsMovedWithin
<1>2. /\ n \in Nat /\ m \in Nat /\ k \in Nat /\ end \in Int /\ id \in ItemId
      /\ Movable(d.ids, n, m, k, end, id) /\ ~id.deleted
  BY Zenon DEF IsMovedWithin
<1>3. PICK s \in IdList : s = d.ids
  BY DEF Page
<1>4. e.ids = t /\ n < m /\ m < k /\ Row(s, Around(n, m, k), k)
  BY <1>1, <1>2, <1>3 DEF Page, Movable
<1>5. PICK i, j : i = m + 1 /\ j = n + 1
  OBVIOUS
<1>6. PICK P, Q, R : P = Around(n, m, k) /\ Q = P \ {i} /\ R = Around(n + 1, m + 1, k)
  OBVIOUS
<1>7. /\ i \in P /\ j \notin Q /\ R = Q \cup {j}
  BY <1>2, <1>4, <1>5, <1>6 DEF Around
<1>8. /\ SameIds(s, t, Q) /\ t[j] = id
  <2>1. Moves(s, t, n, m, k, end, id)
    BY <1>1, <1>2, <1>3, Zenon DEF Moves
  <2>2. HasMoved(s, t, n, m, k, id)
    BY <1>2, <2>1, RowHasMoved
  <2> QED BY <1>5, <1>6, <2>2 DEF HasMoved
<1>9. Stored(t, R) = (Stored(s, P) \ {<<i, s[i].item>>}) \cup {<<j, t[j].item>>}
  <2>1. Without(s, i, P, t, Q)
    BY <1>6, <1>7, <1>8 DEF Without
  <2> QED BY <1>2, <1>7, <1>8, <2>1, StoredTurns
<1>10. <<i, s[i].item>> \in Stored(s, P)
  <2>1. s[i] \in ItemId
    BY <1>2, <1>4, <1>6, <1>7, RowFacts
  <2> QED BY <1>3, <1>5, <1>7, <2>1, StoredAt
<1>11. s[i].item = t[j].item
  BY <1>3, <1>5, <1>8
<1>12. PICK c, x : c = <<i, s[i].item>> /\ x = <<j, t[j].item>>
  OBVIOUS
<1>13. /\ c[2] = x[2] /\ c \in Stored(s, P)
       /\ Stored(t, R) = (Stored(s, P) \ {c}) \cup {x}
  BY <1>9, <1>10, <1>11, <1>12
<1>14. Exchanged(Stored(s, P), Stored(t, R))
  BY Zenon, <1>13 DEF Exchanged
<1> QED BY <1>3, <1>4, <1>6, <1>14

(* ... in the same page or to another one.                                 *)
LEMMA StoredMovesOver ==
    ASSUME NEW from \in Page, NEW to \in Page, NEW f, NEW e, NEW u, NEW v,
           NEW n, NEW m, NEW k, NEW end, NEW id,
           IsMovedOver(u, f, e, v, from, to, n, m, k, end, id),
           id.item = from.ids[m + 1].item, ~from.ids[m + 1].deleted
    PROVE  \E c, x :
              /\ c[2] = x[2] /\ c \in Stored(from.ids, m + 1 .. k)
              /\ Stored(f.ids, m + 1 + 1 .. k) = Stored(from.ids, m + 1 .. k) \ {c}
              /\ Whole(e) = Whole(to) \cup {x}
<1>1. PICK w : /\ Replaced(w, from.ids, m + 1, id)
               /\ f = [from EXCEPT !.ids = w, !.item_amount = @ - 1]
  BY Zenon DEF IsMovedOver
<1>2. PICK t : /\ IsWritten(t, to.ids, n + 1, id, id.size)
               /\ e = [to EXCEPT !.ids = t, !.item_amount = @ + 1]
  BY Zenon DEF IsMovedOver
<1>3. n \in Nat /\ m \in Nat /\ k \in Nat /\ end \in Int /\ id \in ItemId
      /\ MovableOver(from, to, n, m, k, end, id)
  BY Zenon DEF IsMovedOver
<1>4. /\ m < k /\ Row(from.ids, m + 1 .. k, k)
      /\ Row(to.ids, 1 .. n, n) /\ to.item_amount = n
      /\ n # 0 => end = to.ids[n].offset
      /\ end + n <= Capacity /\ end <= Capacity
      /\ id.size = from.ids[m + 1].size /\ id.offset = end - id.size /\ id.offset >= n + 1
      /\ ~id.deleted
  BY <1>3, Zenon DEF MovableOver
<1>5. PICK s \in IdList, s2 \in IdList : s = from.ids /\ s2 = to.ids
  BY DEF Page
<1>6. f.ids = w /\ e.ids = t /\ e.item_amount = n + 1
  BY <1>1, <1>2, <1>3, <1>4 DEF Page
<1>7. PICK i, j : i = m + 1 /\ j = n + 1
  OBVIOUS
<1>8. PICK P, Q : P = m + 1 .. k /\ Q = m + 1 + 1 .. k
  OBVIOUS
<1>9. i \in P /\ Q = P \ {i}
  BY <1>3, <1>4, <1>7, <1>8
<1>10. \A o \in P : o \in 1 .. Len(s) /\ s[o] \in ItemId
  BY <1>3, <1>4, <1>5, <1>8, RowFacts
<1>11. SameIds(s, w, Q)
  BY <1>1, <1>5, <1>7, <1>9, <1>10 DEF SameIds, Replaced
<1>12. Stored(w, Q) = Stored(s, P) \ {<<i, s[i].item>>}
  <2>1. Without(s, i, P, w, Q)
    BY <1>9, <1>11 DEF Without
  <2> QED BY <2>1, StoredLoses
<1>13. <<i, s[i].item>> \in Stored(s, P)
  BY <1>5, <1>7, <1>9, <1>10, StoredAt
<1>14. SameIds(s2, t, 1 .. n) /\ t[j] = id
  <2>1. PICK o \in Int, z \in Nat : id.offset = o /\ id.size = z
    BY <1>3 DEF ItemId
  <2>2. id.size >= 1
    BY <1>4, <1>5, <1>7, <1>8, <1>9, RowFacts, <1>3
  <2>3. n + 1 <= Capacity
    BY <1>3, <1>4, <2>1, <2>2, DataAssumption
  <2>4. SameIds(s2, t, 1 .. n)
    BY <1>2, <1>3, <1>4, <1>5, <2>2, <2>3, RowExtended
  <2> QED BY <1>2, <1>7, <2>4 DEF IsWritten
<1>15. PICK N, R : N = 1 .. n /\ R = 1 .. n + 1
  OBVIOUS
<1>16. j \notin N /\ R = N \cup {j}
  BY <1>3, <1>7, <1>15
<1>17. Stored(t, R) = Stored(s2, N) \cup {<<j, t[j].item>>}
  <2>1. SameIds(s2, t, N) /\ t[j] \in ItemId /\ ~t[j].deleted
    BY <1>3, <1>4, <1>14, <1>15
  <2> QED BY <1>16, <2>1, StoredGains
<1>18. s[i].item = t[j].item
  BY <1>5, <1>7, <1>14
<1>19. PICK c, x : c = <<i, s[i].item>> /\ x = <<j, t[j].item>>
  OBVIOUS
<1>20. /\ c[2] = x[2] /\ c \in Stored(s, P) /\ Stored(w, Q) = Stored(s, P) \ {c}
       /\ Stored(t, R) = Stored(s2, N) \cup {x}
  BY <1>12, <1>13, <1>17, <1>18, <1>19
<1>21. Whole(e) = Stored(t, R) /\ Whole(to) = Stored(s2, N)
  BY <1>4, <1>5, <1>6, <1>15 DEF Whole
<1> QED BY <1>5, <1>6, <1>8, <1>20, <1>21

(* When vacuum moves an item, its group keeps what it holds.               *)
MovesWithin(p, n, m, k, end, id) ==
    /\ p \in PagesOf(group) /\ vac.started /\ vac.src = p
    /\ data[p] \in Page /\ SourceId = data[p].ids[m + 1] /\ SourceId \in ItemId
    /\ ~SourceId.deleted /\ id = MovedId(SourceId, end)
    /\ LeftOf(vac) = Around(n, m, k)

LEMMA MovesWithinHeld ==
    ASSUME RInv, Vacuuming, rows' = rows, chain' = chain, operation' = operation,
           NEW p, NEW n, NEW m, NEW k, NEW end, NEW id, MovesWithin(p, n, m, k, end, id),
           IsMovedWithin(vac', data'[p], vac, data[p], n, m, k, end, id),
           vac'.src = p, vac'.dest = p,
           \A o \in PG!Pages : o # p => Whole(data'[o]) = Whole(data[o])
    PROVE  Held'
<1>1. /\ p \in PagesOf(group) /\ vac.started /\ vac.src = p /\ data[p] \in Page
      /\ SourceId = data[p].ids[m + 1] /\ SourceId \in ItemId
      /\ ~SourceId.deleted /\ id = MovedId(SourceId, end)
      /\ LeftOf(vac) = Around(n, m, k)
  BY DEF MovesWithin
<1>2. PICK w, u : w = Contents /\ u = Contents'
  OBVIOUS
<1>3. PICK pp, r : pp = PagesOf(group) /\ r = rows[group]
  OBVIOUS
<1>4. Keeps(w, pp, r) /\ pp \subseteq PG!Pages /\ p \in pp
  BY <1>1, <1>2, <1>3, VacuumKeeps
<1>5. PICK d, e : d = data[p] /\ e = data'[p]
  OBVIOUS
<1>6. PICK x, y : x = vac' /\ y = vac
  OBVIOUS
<1>7. IsMovedWithin(x, e, y, d, n, m, k, end, id) /\ d \in Page
  BY <1>1, <1>5, <1>6
<1>8. x.started /\ LeftOf(x) = Around(n + 1, m + 1, k)
  <2>1. y.ids = k /\ IsAt(x, y, TRUE, m + 1, n + 1, id.offset)
    BY <1>7, Zenon DEF IsMovedWithin
  <2>2. x.started = TRUE /\ x.ids = k /\ x.index = m + 1 /\ x.dest_id = n + 1
    BY <2>1 DEF IsAt
  <2>3. x.dest = x.src
    BY <1>6
  <2> QED BY <2>2, <2>3 DEF LeftOf
<1>9. id.item = d.ids[m + 1].item /\ ~d.ids[m + 1].deleted
  <2>1. PICK z \in ItemId : z = SourceId /\ z = d.ids[m + 1]
    BY <1>1, <1>5
  <2>2. z.item = id.item
    BY <1>1, <2>1 DEF MovedId, ItemId
  <2> QED BY <1>1, <2>1, <2>2
<1>10. PICK c, a : /\ c[2] = a[2] /\ c \in Stored(d.ids, Around(n, m, k))
                   /\ Stored(e.ids, Around(n + 1, m + 1, k))
                         = (Stored(d.ids, Around(n, m, k)) \ {c}) \cup {a}
  <2>1. ItemMoves(x, e, y, d, n, m, k, end, id)
    BY <1>7, <1>9 DEF ItemMoves
  <2>2. Exchanged(Stored(d.ids, Around(n, m, k)), Stored(e.ids, Around(n + 1, m + 1, k)))
    BY Zenon, <1>7, <2>1, StoredMovesWithin
  <2> QED BY Zenon, <2>2 DEF Exchanged
<1>11. \A o \in PG!Pages :
          w[o] = IF o = p THEN Stored(d.ids, Around(n, m, k)) ELSE Whole(data[o])
  <2>1. \A o \in PG!Pages :
           w[o] = IF o = vac.src THEN Stored(data[o].ids, LeftOf(vac)) ELSE Whole(data[o])
    BY <1>1, <1>2, SourceNow DEF Vacuuming
  <2> QED BY <1>1, <1>5, <2>1
<1>12. \A o \in PG!Pages :
          u[o] = IF o = p THEN Stored(e.ids, Around(n + 1, m + 1, k)) ELSE Whole(data'[o])
  <2>1. \A o \in PG!Pages :
           u[o] = IF o = vac'.src THEN Stored(data'[o].ids, LeftOf(vac')) ELSE Whole(data'[o])
    BY <1>2, <1>6, <1>8, SourceNext DEF Vacuuming
  <2> QED BY <1>5, <1>6, <1>8, <2>1
<1>13. \A o \in PG!Pages : o # p => u[o] = w[o]
  BY <1>11, <1>12
<1>14. c \in w[p] /\ u[p] = (w[p] \ {c}) \cup {a}
  BY <1>4, <1>10, <1>11, <1>12
<1>15. Turns(u, w, pp, p, c, a)
  BY <1>4, <1>13, <1>14 DEF Turns
<1>16. Keeps(u, pp, r)
  BY <1>4, <1>10, <1>15, KeepsTurned
<1>17. \A o \in PG!Pages \ PagesOf(group) : u[o] = Contents[o]
  BY <1>2, <1>3, <1>4, <1>13
<1> QED BY <1>2, <1>3, <1>16, <1>17, VacuumHeld

MovesOver(p, q, n, m, k, end, id, to) ==
    /\ p \in PagesOf(group) /\ q \in PagesOf(group) /\ p # q
    /\ vac.started /\ vac.src = p /\ vac.dest # p
    /\ data[p] \in Page /\ SourceId = data[p].ids[m + 1] /\ SourceId \in ItemId
    /\ to \in Page /\ Whole(to) = Whole(data[q])
    /\ ~SourceId.deleted /\ id = MovedId(SourceId, end)
    /\ m = vac.index /\ k = vac.ids

LEMMA MovesOverHeld ==
    ASSUME RInv, Vacuuming, rows' = rows, chain' = chain, operation' = operation,
           NEW p, NEW q, NEW n, NEW m, NEW k, NEW end, NEW id, NEW to,
           MovesOver(p, q, n, m, k, end, id, to),
           IsMovedOver(vac', data'[p], data'[q], vac, data[p], to, n, m, k, end, id),
           vac'.src = p, vac'.dest = q,
           \A o \in PG!Pages : o # p /\ o # q => Whole(data'[o]) = Whole(data[o])
    PROVE  Held'
<1>1. /\ p \in PagesOf(group) /\ q \in PagesOf(group) /\ p # q
      /\ vac.started /\ vac.src = p /\ vac.dest # p /\ data[p] \in Page
      /\ SourceId = data[p].ids[m + 1] /\ SourceId \in ItemId
      /\ to \in Page /\ Whole(to) = Whole(data[q])
      /\ ~SourceId.deleted /\ id = MovedId(SourceId, end)
      /\ m = vac.index /\ k = vac.ids
  BY DEF MovesOver
<1>2. PICK w, u : w = Contents /\ u = Contents'
  OBVIOUS
<1>3. PICK pp, r : pp = PagesOf(group) /\ r = rows[group]
  OBVIOUS
<1>4. Keeps(w, pp, r) /\ pp \subseteq PG!Pages /\ p \in pp /\ q \in pp
  BY <1>1, <1>2, <1>3, VacuumKeeps
<1>5. PICK d, f, e : d = data[p] /\ f = data'[p] /\ e = data'[q]
  OBVIOUS
<1>6. PICK x, y : x = vac' /\ y = vac
  OBVIOUS
<1>7. IsMovedOver(x, f, e, y, d, to, n, m, k, end, id) /\ d \in Page
  BY <1>1, <1>5, <1>6
<1>8. x.started /\ LeftOf(x) = m + 1 + 1 .. k
  <2>1. y.ids = k /\ IsAt(x, y, TRUE, m + 1, n + 1, id.offset)
    BY <1>7, Zenon DEF IsMovedOver
  <2>2. x.started = TRUE /\ x.ids = k /\ x.index = m + 1
    BY <2>1 DEF IsAt
  <2>3. x.dest # x.src
    BY <1>1, <1>6
  <2> QED BY <2>2, <2>3 DEF LeftOf
<1>9. id.item = d.ids[m + 1].item /\ ~d.ids[m + 1].deleted
  <2>1. PICK z \in ItemId : z = SourceId /\ z = d.ids[m + 1]
    BY <1>1, <1>5
  <2>2. z.item = id.item
    BY <1>1, <2>1 DEF MovedId, ItemId
  <2> QED BY <1>1, <2>1, <2>2
<1>10. PICK c, a : /\ c[2] = a[2] /\ c \in Stored(d.ids, m + 1 .. k)
                   /\ Stored(f.ids, m + 1 + 1 .. k) = Stored(d.ids, m + 1 .. k) \ {c}
                   /\ Whole(e) = Whole(to) \cup {a}
  BY <1>1, <1>7, <1>9, StoredMovesOver
<1>11. \A o \in PG!Pages :
          w[o] = IF o = p THEN Stored(d.ids, m + 1 .. k) ELSE Whole(data[o])
  <2>1. \A o \in PG!Pages :
           w[o] = IF o = vac.src THEN Stored(data[o].ids, LeftOf(vac)) ELSE Whole(data[o])
    BY <1>1, <1>2, SourceNow DEF Vacuuming
  <2>2. LeftOf(vac) = m + 1 .. k
    BY <1>1 DEF LeftOf
  <2> QED BY <1>1, <1>5, <2>1, <2>2
<1>12. \A o \in PG!Pages :
          u[o] = IF o = p THEN Stored(f.ids, m + 1 + 1 .. k) ELSE Whole(data'[o])
  <2>1. \A o \in PG!Pages :
           u[o] = IF o = vac'.src THEN Stored(data'[o].ids, LeftOf(vac')) ELSE Whole(data'[o])
    BY <1>2, <1>6, <1>8, SourceNext DEF Vacuuming
  <2> QED BY <1>5, <1>6, <1>8, <2>1
<1>13. \A o \in PG!Pages : o # p /\ o # q => u[o] = w[o]
  BY <1>11, <1>12
<1>14. c \in w[p] /\ u[p] = w[p] \ {c}
  BY <1>4, <1>10, <1>11, <1>12
<1>15. u[q] = w[q] \cup {a}
  <2>1. u[q] = Whole(e) /\ w[q] = Whole(to)
    BY <1>1, <1>4, <1>5, <1>11, <1>12
  <2> QED BY <1>10, <2>1
<1>16. Passes(u, w, pp, p, q, c, a)
  BY <1>1, <1>4, <1>13, <1>14, <1>15 DEF Passes
<1>17. Keeps(u, pp, r)
  BY <1>4, <1>10, <1>16, KeepsPassed
<1>18. \A o \in PG!Pages \ PagesOf(group) : u[o] = Contents[o]
  BY <1>2, <1>3, <1>4, <1>13
<1> QED BY <1>2, <1>3, <1>17, <1>18, VacuumHeld

LEMMA VacuumMovesHeld == ASSUME RInv, VacuumMoves PROVE Held'
<1>1. /\ VacuumItem /\ vac.started /\ ~SourceId.deleted
      /\ EntrySize(SourceId.size) <= vac.dest_data - vac.dest_id
      /\ data' = Moved(data, vac.dest, vac.dest_id, vac.dest_data)
      /\ vac' = AfterMove(vac.dest_id, vac.dest_data)
      /\ rows' = rows /\ chain' = chain /\ operation' = operation
  BY DEF VacuumMoves, HasRoom, VacuumItem, groupVars, control
<1>2. IInv
  BY DEF RInv
<1>3. /\ Vacuuming /\ vac.index # vac.ids
      /\ data \in [PG!Pages -> Page] /\ vac \in VacuumLocals
      /\ vac.index \in Nat /\ vac.dest_id \in Nat /\ vac.dest_data \in Nat
  BY <1>1, <1>2, ItemPlace
<1>4. PICK p \in PG!Pages, q \in PG!Pages : p = vac.src /\ q = vac.dest
  BY <1>1, <1>2, <1>3, StartedOn
<1>5. /\ p \in PagesOf(group) /\ q \in PagesOf(group) /\ data[p] \in Page /\ data[q] \in Page
      /\ \/ q = p /\ OnePage(vac, data[p])
         \/ q # p /\ TwoPages(vac, data[p], p \in sealed, data[q])
  BY <1>1, <1>2, <1>3, <1>4, StartedOn
<1>6. SourceId = data[p].ids[vac.index + 1]
  BY <1>4 DEF SourceId
<1>7. SourceId \in ItemId
  BY <1>3, <1>5, <1>6, ReadsItem
<1>8. PICK n \in Nat, end \in Nat : n = vac.dest_id /\ end = vac.dest_data
  BY <1>3
<1>9. PICK id : id = MovedId(SourceId, end)
  OBVIOUS
<1>10. IsAt(vac', vac, TRUE, vac.index + 1, n + 1, id.offset) /\ Stays(vac', vac)
  <2>1. vac' = AfterMove(n, end) /\ EntrySize(SourceId.size) <= end - n
    BY <1>1, <1>8
  <2> QED BY <1>1, <1>3, <1>7, <1>9, <2>1, AfterMoveFacts
<1>11. vac'.src = p /\ vac'.dest = q /\ data' = Moved(data, q, n, end)
  BY <1>1, <1>4, <1>8, <1>10 DEF Stays
<1>12. PICK m, k : m = vac.index /\ k = vac.ids
  OBVIOUS
<1>13. CASE q = p /\ OnePage(vac, data[p])
  <2>1. PICK e : e = TurnedOver(data[p], m, n, id)
    OBVIOUS
  <2>2. data' = [data EXCEPT ![p] = e]
    <3>1. OneChanged(Moved(data, p, n, end), data, p,
                     TurnedOver(data[p], vac.index, n, MovedId(SourceId, end)))
      BY <1>3, <1>4, MovedInPlace
    <3> QED BY <1>9, <1>11, <1>12, <1>13, <2>1, <3>1 DEF OneChanged
  <2>3. data'[p] = e /\ \A o \in PG!Pages : o # p => data'[o] = data[o]
    BY <1>3, <2>2
  <2>4. IsMovedWithin(vac', e, vac, data[p], n, m, k, end, id)
    <3>1. /\ id = MovedId(data[p].ids[vac.index + 1], end)
          /\ ~data[p].ids[vac.index + 1].deleted
      BY <1>1, <1>6, <1>9
    <3>2. IsMovedWithin(vac', TurnedOver(data[p], vac.index, n, id), vac, data[p],
                        n, vac.index, vac.ids, end, id)
      BY <1>3, <1>5, <1>8, <1>10, <1>13, <3>1, OnePageMovesIn
    <3> QED BY <1>12, <2>1, <3>2
  <2>5. LeftOf(vac) = Around(n, m, k)
    BY <1>4, <1>8, <1>12, <1>13 DEF LeftOf
  <2>6. MovesWithin(p, n, m, k, end, id)
    BY <1>1, <1>4, <1>5, <1>6, <1>7, <1>9, <1>12, <2>5 DEF MovesWithin
  <2>7. IsMovedWithin(vac', data'[p], vac, data[p], n, m, k, end, id)
    BY <2>3, <2>4
  <2>8. \A o \in PG!Pages : o # p => Whole(data'[o]) = Whole(data[o])
    BY <2>3
  <2> QED BY <1>1, <1>3, <1>11, <1>13, <2>6, <2>7, <2>8, MovesWithinHeld
<1>14. CASE q # p /\ TwoPages(vac, data[p], p \in sealed, data[q])
  <2>1. PICK x, e : x = TakenFrom(data[p], m, id) /\ e = PutInto(data[q], n, id)
    OBVIOUS
  <2>2. data' = [data EXCEPT ![p] = x, ![q] = e]
    <3>1. TwoChanged(Moved(data, q, n, end), data,
                     p, TakenFrom(data[p], vac.index, MovedId(SourceId, end)),
                     q, PutInto(data[q], n, MovedId(SourceId, end)))
      BY <1>3, <1>4, <1>14, MovedAway
    <3> QED BY <1>9, <1>11, <1>12, <2>1, <3>1 DEF TwoChanged
  <2>3. /\ data'[p] = x /\ data'[q] = e
        /\ \A o \in PG!Pages : o # p /\ o # q => data'[o] = data[o]
    BY <1>3, <1>14, <2>2
  <2>4. CanMoveOver(vac, data[p], data[q], n, end)
    <3>1. CanMoveOver(vac, data[p], data[q], vac.dest_id, vac.dest_data)
      BY <1>1, <1>3, <1>6, <1>14, TwoPagesCanMove
    <3> QED BY <1>8, <3>1
  <2>5. IsMovedOver(vac', x, e, vac, data[p], data[q], n, m, k, end, id)
    <3>1. id = MovedId(data[p].ids[vac.index + 1], end)
      BY <1>6, <1>9
    <3>2. IsMovedOver(vac', TakenFrom(data[p], vac.index, id), PutInto(data[q], n, id), vac,
                      data[p], data[q], n, vac.index, vac.ids, end, id)
      BY <1>3, <1>5, <1>10, <2>4, <3>1, OverMovesTo
    <3> QED BY <1>12, <2>1, <3>2
  <2>6. PICK to : to = data[q]
    OBVIOUS
  <2>7. MovesOver(p, q, n, m, k, end, id, to)
    BY <1>1, <1>4, <1>5, <1>6, <1>7, <1>9, <1>12, <1>14, <2>6 DEF MovesOver
  <2>8. IsMovedOver(vac', data'[p], data'[q], vac, data[p], to, n, m, k, end, id)
    BY <2>3, <2>5, <2>6
  <2>9. \A o \in PG!Pages : o # p /\ o # q => Whole(data'[o]) = Whole(data[o])
    BY <2>3
  <2> QED BY <1>1, <1>3, <1>11, <2>7, <2>8, <2>9, MovesOverHeld
<1> QED BY <1>5, <1>13, <1>14

LEMMA VacuumMovesOnHeld == ASSUME RInv, VacuumMovesOn PROVE Held'
<1>1. /\ NoRoom /\ ~StaysFirst /\ VacuumItem /\ vac.started /\ ~SourceId.deleted
      /\ rows' = rows /\ chain' = chain /\ operation' = operation
  BY DEF VacuumMovesOn, NoRoom, VacuumItem, groupVars, control
<1>2. IInv
  BY DEF RInv
<1>3. PICK kd, ks, kn, p, q, r : NoRoomAt(kd, ks, kn, p, q, r) /\ ClosedAt(kd, q)
  BY <1>1, <1>2, NoRoomFacts
<1>4. /\ Vacuuming /\ vac.index # vac.ids /\ data \in [PG!Pages -> Page]
      /\ vac \in VacuumLocals /\ vac.index \in Nat /\ header \in [PG!Pages -> PG!PageHeader]
  BY <1>1, <1>2, ItemPlace
<1>5. /\ p \in PG!Pages /\ q \in PG!Pages /\ r \in PG!Pages /\ p # q /\ r # q
      /\ p \in PagesOf(group) /\ r \in PagesOf(group)
      /\ vac.src = p /\ vac.dest = q /\ vac.dest_next = r
      /\ IF kn = ks THEN r = p ELSE r # p /\ data[r].item_amount = 0
      /\ TwoPages(vac, data[p], p \in sealed, data[q])
      /\ SourceId = data[p].ids[vac.index + 1] /\ SourceId \in ItemId
  BY <1>3 DEF NoRoomAt
<1>6. /\ Closed \in [PG!Pages -> Page] /\ Closed[p] = data[p] /\ Closed[r] = data[r]
      /\ data[p] \in Page /\ data[r] \in Page /\ data[q] \in Page
  BY <1>3, <1>4, <1>5 DEF ClosedAt
<1>7. \A o \in PG!Pages : Whole(Closed[o]) = Whole(data[o])
  <2>1. Filled(vac, data[q])
    BY <1>4, <1>5, <1>6, TwoPagesDone
  <2> QED BY <1>4, <1>5, <2>1, ClosedContents
<1>8. PICK n \in Nat, end \in Nat : n = 0 /\ end = Capacity
  BY DataAssumption
<1>9. PICK id : id = MovedId(SourceId, end)
  OBVIOUS
<1>10. EntrySize(SourceId.size) <= end - n
  <2>1. PICK f : f = [item_amount |-> 0]
    OBVIOUS
  <2>2. f.item_amount = 0
    BY <2>1
  <2>3. EntrySize(data[p].ids[vac.index + 1].size) <= Capacity - n
    BY <1>1, <1>4, <1>5, <1>6, <1>8, <2>2, CanMoveToEmpty
  <2> QED BY <1>5, <1>8, <2>3
<1>11. /\ IsAt(AfterMove(n, end), vac, TRUE, vac.index + 1, n + 1, id.offset)
       /\ Stays(AfterMove(n, end), vac)
  BY <1>1, <1>4, <1>5, <1>9, <1>10, AfterMoveFacts
<1>12. /\ IsAt(vac', vac, TRUE, vac.index + 1, n + 1, id.offset)
       /\ vac'.src = vac.src /\ vac'.dest = r
  <2>1. PICK rn : rn = header[r].next
    OBVIOUS
  <2>2. r \in PG!PageIds /\ rn \in PG!PageIds
    BY <1>4, <1>5, <2>1, PageNumbers DEF PG!PageHeader
  <2>3. PICK y : y = AfterMove(n, end)
    OBVIOUS
  <2>4. /\ OnNextDest.dest = r /\ OnNextDest.dest_next = rn
    BY <1>4, <1>5, <2>1 DEF OnNextDest, VacuumLocals
  <2>5. vac' = [y EXCEPT !.dest = r, !.dest_next = rn]
    BY <1>8, <2>3, <2>4 DEF VacuumMovesOn
  <2>6. PICK i, m, o : i = vac.index + 1 /\ m = n + 1 /\ o = id.offset
    OBVIOUS
  <2>7. IsAt(y, vac, TRUE, i, m, o) /\ Stays(y, vac)
    BY <1>11, <2>3, <2>6
  <2>8. /\ IsAt(vac', vac, TRUE, i, m, o) /\ vac'.src = vac.src /\ vac'.dest = r
    BY <2>2, <2>5, <2>7 DEF IsAt, Stays, VacuumLocals
  <2> QED BY <2>6, <2>8
<1>13. vac'.src = p /\ vac'.dest = r /\ data' = Moved(Closed, r, n, end)
  BY <1>5, <1>8, <1>12 DEF VacuumMovesOn
<1>14. PICK m, k : m = vac.index /\ k = vac.ids
  OBVIOUS
<1>15. CASE kn = ks
  <2>1. p = r /\ vac.index # 0
    BY <1>1, <1>5, <1>15 DEF StaysFirst
  <2>2. PICK e : e = TurnedOver(data[p], m, n, id)
    OBVIOUS
  <2>3. data' = [Closed EXCEPT ![p] = e]
    <3>1. OneChanged(Moved(Closed, p, n, end), Closed, p,
                     TurnedOver(Closed[p], vac.index, n, MovedId(SourceId, end)))
      BY <1>5, <1>6, MovedInPlace
    <3> QED BY <1>6, <1>9, <1>13, <1>14, <2>1, <2>2, <3>1 DEF OneChanged
  <2>4. data'[p] = e /\ \A o \in PG!Pages : o # p => data'[o] = Closed[o]
    BY <1>5, <1>6, <2>3
  <2>5. IsMovedWithin(vac', e, vac, data[p], n, m, k, end, id)
    <3>1. /\ id = MovedId(data[p].ids[vac.index + 1], Capacity)
          /\ ~data[p].ids[vac.index + 1].deleted
      BY <1>1, <1>5, <1>8, <1>9
    <3>2. IsMovedWithin(vac', TurnedOver(data[p], vac.index, n, id), vac, data[p],
                        n, vac.index, vac.ids, Capacity, id)
      BY <1>4, <1>5, <1>6, <1>8, <1>12, <2>1, <3>1, TurnsBackIn
    <3> QED BY <1>8, <1>14, <2>2, <3>2
  <2>6. LeftOf(vac) = Around(n, m, k)
    BY <1>5, <1>8, <1>14 DEF LeftOf, Around
  <2>7. MovesWithin(p, n, m, k, end, id)
    BY <1>1, <1>5, <1>6, <1>9, <1>14, <2>6 DEF MovesWithin
  <2>8. IsMovedWithin(vac', data'[p], vac, data[p], n, m, k, end, id)
    BY <2>4, <2>5
  <2>9. \A o \in PG!Pages : o # p => Whole(data'[o]) = Whole(data[o])
    BY <1>7, <2>4
  <2> QED BY <1>1, <1>4, <1>13, <2>1, <2>7, <2>8, <2>9, MovesWithinHeld
<1>16. CASE kn # ks
  <2>1. p # r /\ data[r].item_amount = 0
    BY <1>5, <1>16
  <2>2. PICK x, e : x = TakenFrom(data[p], m, id) /\ e = PutInto(data[r], n, id)
    OBVIOUS
  <2>3. data' = [Closed EXCEPT ![p] = x, ![r] = e]
    <3>1. TwoChanged(Moved(Closed, r, n, end), Closed,
                     p, TakenFrom(Closed[p], vac.index, MovedId(SourceId, end)),
                     r, PutInto(Closed[r], n, MovedId(SourceId, end)))
      BY <1>5, <1>6, <2>1, MovedAway
    <3> QED BY <1>6, <1>9, <1>13, <1>14, <2>2, <3>1 DEF TwoChanged
  <2>4. /\ data'[p] = x /\ data'[r] = e
        /\ \A o \in PG!Pages : o # p /\ o # r => data'[o] = Closed[o]
    BY <1>5, <1>6, <2>1, <2>3
  <2>5. CanMoveOver(vac, data[p], data[r], n, end)
    <3>1. CanMoveOver(vac, data[p], data[r], n, Capacity)
      BY <1>1, <1>4, <1>5, <1>6, <1>8, <2>1, CanMoveToEmpty
    <3> QED BY <1>8, <3>1
  <2>6. IsMovedOver(vac', x, e, vac, data[p], data[r], n, m, k, end, id)
    <3>1. id = MovedId(data[p].ids[vac.index + 1], end)
      BY <1>5, <1>9
    <3>2. IsMovedOver(vac', TakenFrom(data[p], vac.index, id), PutInto(data[r], n, id), vac,
                      data[p], data[r], n, vac.index, vac.ids, end, id)
      BY <1>4, <1>6, <1>12, <2>5, <3>1, OverMovesTo
    <3> QED BY <1>14, <2>2, <3>2
  <2>7. PICK to : to = data[r]
    OBVIOUS
  <2>8. MovesOver(p, r, n, m, k, end, id, to)
    BY <1>1, <1>5, <1>6, <1>9, <1>14, <2>1, <2>7 DEF MovesOver
  <2>9. IsMovedOver(vac', data'[p], data'[r], vac, data[p], to, n, m, k, end, id)
    BY <2>4, <2>6, <2>7
  <2>10. \A o \in PG!Pages : o # p /\ o # r => Whole(data'[o]) = Whole(data[o])
    BY <1>7, <2>4
  <2> QED BY <1>1, <1>4, <1>13, <2>8, <2>9, <2>10, MovesOverHeld
<1> QED BY <1>15, <1>16

LEMMA HeldStutters == ASSUME RInv, UNCHANGED vars PROVE Held'
<1>1. /\ data' = data /\ operation' = operation /\ vac' = vac /\ harmed' = harmed
      /\ rows' = rows /\ chain' = chain
  BY DEF vars, control, scanning, groupVars
<1>2. PICK w, u : w = Contents /\ u = Contents'
  OBVIOUS
<1>3. u = w
  BY <1>1, <1>2 DEF Contents
<1>4. ASSUME ~harmed', NEW g \in DOMAIN rows' PROVE Keeps(u, Range(chain'[g]), rows'[g])
  BY <1>1, <1>2, <1>3, <1>4 DEF RInv, Held, PagesOf
<1> QED BY <1>2, <1>4 DEF Held, PagesOf

LEMMA DeleteGroupStepHeld == ASSUME RInv, DeleteGroupStep PROVE Held'
<1>1. /\ IInv /\ phase = "delete" /\ harmed' = damaged'
      /\ PG!DeleteGroupTurn \/ PG!DeleteGroupReturn
  BY DEF RInv, DeleteGroupStep, PG!DeleteGroupTurn, PG!DeleteGroupReturn
<1>2. harmed = damaged
  BY <1>1 DEF IInv, Phases
<1>3. damaged => damaged'
  <2>1. CASE PG!DeleteGroupTurn
    BY <2>1, DamageStays DEF PG!DeleteGroupTurn
  <2>2. CASE PG!DeleteGroupReturn
    BY <2>2 DEF PG!DeleteGroupReturn
  <2> QED BY <1>1, <2>1, <2>2
<1>4. CASE harmed'
  BY <1>4 DEF Held
<1>5. CASE ~harmed'
  <2>1. ~harmed
    BY <1>1, <1>2, <1>3, <1>5
  <2> QED BY <1>5, <2>1, DeleteStepHeld
<1> QED BY <1>4, <1>5

LEMMA ScanStepHeld == ASSUME RInv, ScanStep, ~harmed' PROVE Held'
  BY PassItemHeld, UpdateItemHeld, DeleteItemHeld, DeleteFirstHeld, ScanEndHeld DEF ScanStep

LEMMA VacuumStepHeld == ASSUME RInv, VacuumStep, ~harmed' PROVE Held'
<1>1. (FreePage => ~harmed) /\ (FreeReturn => ~harmed)
  BY DEF FreePage, FreeReturn
<1>2. \/ VacuumPage \/ VacuumStarts \/ VacuumSkips \/ VacuumMoves
      \/ VacuumMovesOn \/ VacuumGivesUp \/ VacuumEnd \/ FreePage \/ FreeReturn
  BY DEF VacuumStep
<1> QED BY <1>1, <1>2, VacuumPageHeld, VacuumStartsHeld, VacuumSkipsHeld, VacuumMovesHeld,
           VacuumMovesOnHeld, VacuumGivesUpHeld, VacuumEndHeld, FreePageHeld, FreeReturnHeld

LEMMA RInvNext == ASSUME RInv, [Next]_vars PROVE RInv'
<1>1. IInv'
  BY IInvNext DEF RInv
<1>2. CASE harmed'
  BY <1>1, <1>2 DEF RInv, Held
<1>3. CASE ~harmed'
  <2>1. Held'
    <3>1. CASE CreateGroup
      BY <3>1, CreateGroupHeld
    <3>2. CASE \E g \in PG!Groups : DeleteGroup(g)
      BY <3>2, DeleteGroupHeld
    <3>3. CASE \E g \in PG!Groups, t \in Items : Insert(g, t)
      BY <1>3, <3>3, InsertHeld
    <3>4. CASE \E g \in PG!Groups, kind \in Scans : ScanBegin(g, kind)
      BY <3>4, ScanBeginHeld
    <3>5. CASE Running
      BY <1>3, <3>5, ScanStepHeld, VacuumStepHeld, DeleteGroupStepHeld DEF Running
    <3>6. CASE Restart
      BY <3>6, RestartHeld
    <3>7. CASE UNCHANGED vars
      BY <3>7, HeldStutters
    <3> QED BY <3>1, <3>2, <3>3, <3>4, <3>5, <3>6, <3>7 DEF Next
  <2> QED BY <1>1, <2>1 DEF RInv
<1> QED BY <1>2, <1>3

LEMMA SpecHolds == Spec => []RInv
<1>1. Init => RInv
  BY IInvInit, HeldInit DEF RInv
<1> QED BY <1>1, RInvNext, PTL DEF Spec

(* The ids that count lie in the list of their page.                       *)
LEMMA PagesCounted ==
    ASSUME IInv, Settled, NEW g \in DOMAIN rows, NEW p \in PagesOf(g)
    PROVE  /\ p \in PG!Pages /\ data[p].item_amount \in 0 .. Capacity
           /\ \A i \in 1 .. data[p].item_amount : data[p].ids[i] \in ItemId
<1>1. ~harmed /\ operation # "vacuum" /\ Sound /\ Kinds
  BY DEF IInv, Settled
<1>2. Listed(chain[g], g, header) /\ p \in PG!Pages
  BY <1>1, ListsOf
<1>3. PICK d \in Page : d = data[p]
  BY <1>1, <1>2 DEF Kinds
<1>4. d.item_amount \in 0 .. Capacity /\ d.ids \in IdList
  BY DEF Page
<1>5. \A b, first : Tidy(d, b, first) => \A i \in 1 .. d.item_amount : d.ids[i] \in ItemId
  BY <1>4, RowFacts DEF Tidy
<1>6. d.item_amount = 0 \/ \E b, first : Tidy(d, b, first)
  <2>1. CASE GroupTidy(g)
    BY <1>3, <2>1 DEF GroupTidy
  <2>2. CASE operation = "free" /\ g = group
    <3>1. PICK kd \in Nat : FreeingAt(chain[g], data, sealed, vac, next_page_id, kd)
      BY <1>1, <2>2 DEF Sound, Freeing
    <3>2. PICK s : s = chain[g]
      OBVIOUS
    <3>3. /\ DOMAIN s = 1 .. Len(s) /\ Len(s) \in Nat /\ kd \in 1 .. Len(s)
          /\ InFront(s, data, sealed, kd) /\ Emptied(s, data, kd + 1, Len(s))
      BY Zenon, <1>2, <3>1, <3>2 DEF Listed, FreeingAt
    <3>4. PICK j \in 1 .. Len(s) : p = s[j]
      BY <3>2, <3>3 DEF PagesOf, Range
    <3>5. CASE j \in 1 .. kd
      BY <1>3, <3>3, <3>4, <3>5 DEF InFront
    <3>6. CASE j \notin 1 .. kd
      <4>1. j \in kd + 1 .. Len(s)
        BY <3>3, <3>6
      <4> QED BY <1>3, <3>3, <3>4, <4>1 DEF Emptied
    <3> QED BY <3>5, <3>6
  <2> QED BY <1>1, <2>1, <2>2 DEF Sound, Tidiness, Clearing
<1>7. \A i \in 1 .. d.item_amount : d.ids[i] \in ItemId
  BY <1>5, <1>6
<1> QED BY <1>2, <1>3, <1>4, <1>7

(* Every record of a group lies at one place of its pages, and what lies   *)
(* at a place is one of its records.                                       *)
LEMMA HeldPlaces ==
    ASSUME RInv, Settled, NEW g \in DOMAIN rows
    PROVE  /\ \A x \in Present(g) : IdAt(x[1], x[2]).item \in rows[g]
           /\ \A t \in rows[g] : \E x \in Present(g) : IdAt(x[1], x[2]).item = t
           /\ \A x, y \in Present(g) : IdAt(x[1], x[2]).item = IdAt(y[1], y[2]).item => x = y
<1>1. IInv /\ ~harmed /\ operation # "vacuum"
  BY DEF RInv, Settled
<1>2. PICK w, pp, r : w = Contents /\ pp = PagesOf(g) /\ r = rows[g]
  OBVIOUS
<1>3. Keeps(w, pp, r)
  BY <1>1, <1>2 DEF RInv, Held
<1>4. \A p \in PG!Pages : w[p] = Whole(data[p])
  BY <1>1, <1>2, PlainNow
<1>5. \A p \in pp : /\ p \in PG!Pages /\ data[p].item_amount \in 0 .. Capacity
                    /\ \A i \in 1 .. data[p].item_amount : data[p].ids[i] \in ItemId
  BY <1>1, <1>2, PagesCounted
<1>6. ASSUME NEW x \in Present(g)
      PROVE  /\ x[1] \in pp /\ x = <<x[1], x[2]>>
             /\ <<x[2], IdAt(x[1], x[2]).item>> \in w[x[1]]
  <2>1. /\ x \in PagesOf(g) \X (1 .. Capacity) /\ x[2] \in 1 .. data[x[1]].item_amount
        /\ ~data[x[1]].ids[x[2]].deleted
    BY DEF Present, IdsOf, IdAt
  <2>2. PICK p, i : /\ p \in pp /\ x = <<p, i>> /\ i \in 1 .. data[p].item_amount
                     /\ ~data[p].ids[i].deleted
    BY <1>2, <2>1
  <2>3. data[p].ids[i] \in ItemId /\ p \in PG!Pages
    BY <1>5, <2>2
  <2>4. PICK s, P : s = data[p].ids /\ P = 1 .. data[p].item_amount
    OBVIOUS
  <2>5. <<i, s[i].item>> \in Stored(s, P)
    BY <2>2, <2>3, <2>4, StoredAt
  <2>6. <<i, data[p].ids[i].item>> \in w[p]
    BY <1>4, <2>3, <2>4, <2>5 DEF Whole
  <2> QED BY <2>2, <2>6 DEF IdAt
<1>7. ASSUME NEW p \in pp, NEW c \in w[p]
      PROVE  <<p, c[1]>> \in Present(g) /\ IdAt(p, c[1]).item = c[2]
  <2>1. /\ c \in (1 .. data[p].item_amount) \X (Items \cup {Blank})
        /\ ~data[p].ids[c[1]].deleted /\ c[2] = data[p].ids[c[1]].item
    BY <1>4, <1>5 DEF Whole, Stored
  <2>2. c[1] \in 1 .. Capacity
    <3>1. data[p].item_amount \in 0 .. Capacity
      BY <1>5
    <3> QED BY <2>1, <3>1, DataAssumption
  <2> QED BY <1>2, <2>1, <2>2 DEF Present, IdsOf, IdAt
<1>8. \A x \in Present(g) : IdAt(x[1], x[2]).item \in r
  <2> SUFFICES ASSUME NEW x \in Present(g) PROVE IdAt(x[1], x[2]).item \in r
    OBVIOUS
  <2>1. PICK p, c : p = x[1] /\ c = <<x[2], IdAt(x[1], x[2]).item>>
    OBVIOUS
  <2> QED BY <1>3, <1>6, <2>1 DEF Keeps
<1>9. \A t \in r : \E x \in Present(g) : IdAt(x[1], x[2]).item = t
  <2> SUFFICES ASSUME NEW t \in r PROVE \E x \in Present(g) : IdAt(x[1], x[2]).item = t
    OBVIOUS
  <2>1. PICK p \in pp : \E c \in w[p] : c[2] = t
    BY <1>3 DEF Keeps
  <2>2. PICK c \in w[p] : c[2] = t
    BY <2>1
  <2> QED BY <1>7, <2>2
<1>10. ASSUME NEW x \in Present(g), NEW y \in Present(g),
              IdAt(x[1], x[2]).item = IdAt(y[1], y[2]).item
       PROVE  x = y
  <2>1. PICK p, q, c, e : /\ p = x[1] /\ q = y[1] /\ c = <<x[2], IdAt(x[1], x[2]).item>>
                          /\ e = <<y[2], IdAt(y[1], y[2]).item>>
    OBVIOUS
  <2>2. p \in pp /\ q \in pp /\ c \in w[p] /\ e \in w[q] /\ c[2] = e[2]
    BY <1>6, <1>10, <2>1
  <2>3. p = q /\ c = e
    BY <1>3, <2>2 DEF Keeps
  <2>4. x = <<x[1], x[2]>> /\ y = <<y[1], y[2]>>
    BY <1>6
  <2> QED BY <2>1, <2>3, <2>4
<1> QED BY <1>2, <1>8, <1>9, <1>10

LEMMA PresentFinite == ASSUME IInv, Settled, NEW g \in DOMAIN rows PROVE IsFiniteSet(Present(g))
<1>1. PagesOf(g) \subseteq PG!Pages
  BY PagesCounted
<1>2. PICK S, T : S = PG!Pages /\ T = 1 .. Capacity
  OBVIOUS
<1>3. IsFiniteSet(S) /\ IsFiniteSet(T)
  <2>1. MaxPage \in Int /\ Capacity \in Int /\ 1 \in Int
    BY DataAssumption
  <2> QED BY <1>2, <2>1, FS_Interval DEF PG!Pages
<1>4. IsFiniteSet(S \X T)
  BY <1>3, FS_Product
<1>5. Present(g) \in SUBSET (S \X T)
  BY <1>1, <1>2 DEF Present
<1> QED BY <1>4, <1>5, FS_Subset

LEMMA KeptRows == ASSUME RInv PROVE RowsKept
<1> SUFFICES ASSUME Settled, NEW g \in DOMAIN rows
             PROVE  /\ {IdAt(x[1], x[2]).item : x \in Present(g)} = rows[g]
                    /\ Cardinality(Present(g)) = Cardinality(rows[g])
  BY DEF RowsKept
<1>1. /\ \A x \in Present(g) : IdAt(x[1], x[2]).item \in rows[g]
      /\ \A t \in rows[g] : \E x \in Present(g) : IdAt(x[1], x[2]).item = t
      /\ \A x, y \in Present(g) : IdAt(x[1], x[2]).item = IdAt(y[1], y[2]).item => x = y
  BY HeldPlaces
<1>2. {IdAt(x[1], x[2]).item : x \in Present(g)} = rows[g]
  BY <1>1
<1>3. PICK S, T : S = Present(g) /\ T = rows[g]
  OBVIOUS
<1>4. PICK f : f = [x \in S |-> IdAt(x[1], x[2]).item]
  OBVIOUS
<1>5. f \in [S -> T] /\ \A x \in S : f[x] = IdAt(x[1], x[2]).item
  BY <1>1, <1>3, <1>4
<1>6. f \in Injection(S, T)
  BY <1>1, <1>3, <1>5 DEF Injection, IsInjective
<1>7. f \in Surjection(S, T)
  BY <1>1, <1>3, <1>5 DEF Surjection
<1>8. ExistsBijection(S, T)
  BY <1>6, <1>7 DEF ExistsBijection, Bijection
<1>9. Cardinality(T) = Cardinality(S)
  <2>1. IsFiniteSet(S)
    BY <1>3, PresentFinite DEF RInv
  <2> QED BY <1>8, <2>1, FS_Bijection
<1> QED BY <1>2, <1>3, <1>9

(***************************************************************************)
(* No record is lost, doubled or made up: outside of a running vacuum, and *)
(* as long as the model follows the code (harmed is FALSE), the pages of   *)
(* every group hold exactly the records inserted into it and not deleted,  *)
(* each at one place, whatever inserts, scans, updates, deletes, moves of  *)
(* vacuum_group, freed pages, deleted groups and restarts came before      *)
(* (page_data_manager.c).                                                  *)
(***************************************************************************)
THEOREM RowsStay == Spec => []RowsKept
  BY SpecHolds, KeptRows, PTL

-----------------------------------------------------------------------------
(* Record t lies behind place i of page k of s, or on a page that follows. *)
Remains(t, w, s, k, i) ==
    \E l \in k .. Len(s) : \E c \in w[s[l]] : c[2] = t /\ (l = k => i < c[1])

(* The pages s have places with numbers, each with one record, and no      *)
(* record twice.                                                           *)
Single(w, s) ==
    /\ Len(s) \in Nat
    /\ \A l, m \in 1 .. Len(s) : \A c \in w[s[l]], e \in w[s[m]] :
          c[2] = e[2] => l = m /\ c = e
    /\ \A l \in 1 .. Len(s) : \A c \in w[s[l]] : c[1] \in Nat
    /\ \A l \in 1 .. Len(s) : \A c, e \in w[s[l]] : c[1] = e[1] => c = e

(* A scan that looks at place i + 1 of page k, or is at its end, has given *)
(* every record but those that remain, each once.                          *)
Seen(v, r, w, s, k, empty, i) ==
    /\ v \in Seq(r)
    /\ \A a, b \in 1 .. Len(v) : v[a] = v[b] => a = b
    /\ \A t \in r : t \in Range(v) \/ (~empty /\ Remains(t, w, s, k, i))
    /\ ~empty => \A t : Remains(t, w, s, k, i) => t \in r /\ t \notin Range(v)

(* Nothing lies between place i of page k and place j + 1 of page l, or,   *)
(* at the end, behind the first of them.                                   *)
Skips(w, s, k, i, l, empty, j) ==
    /\ k \in 1 .. Len(s) /\ l \in k .. Len(s) /\ i \in Nat /\ j \in Nat
    /\ empty => l = Len(s)
    /\ ~empty /\ l = k => i <= j
    /\ \A m \in k .. l : \A c \in w[s[m]] :
          (m = k => i < c[1]) => ~empty /\ m = l /\ j < c[1]

LEMMA NoneSkipped ==
    ASSUME NEW w, NEW s, Single(w, s), NEW k, NEW i, NEW l, NEW empty, NEW j,
           Skips(w, s, k, i, l, empty, j), NEW t
    PROVE  Remains(t, w, s, k, i) <=> ~empty /\ Remains(t, w, s, l, j)
<1>1. /\ Len(s) \in Nat /\ k \in 1 .. Len(s) /\ l \in k .. Len(s) /\ l \in 1 .. Len(s)
      /\ i \in Nat /\ j \in Nat
  BY DEF Single, Skips
<1>2. ASSUME Remains(t, w, s, k, i) PROVE ~empty /\ Remains(t, w, s, l, j)
  <2>1. PICK m \in k .. Len(s) : \E c \in w[s[m]] : c[2] = t /\ (m = k => i < c[1])
    BY <1>2 DEF Remains
  <2>2. PICK c \in w[s[m]] : c[2] = t /\ (m = k => i < c[1])
    BY <2>1
  <2>3. CASE m <= l
    <3>1. m \in k .. l
      BY <1>1, <2>1, <2>3
    <3>2. ~empty /\ m = l /\ j < c[1]
      BY <2>2, <3>1 DEF Skips
    <3> QED BY <2>1, <2>2, <3>2, <1>1 DEF Remains
  <2>4. CASE ~(m <= l)
    <3>1. m \in l .. Len(s) /\ m # l /\ l # Len(s)
      BY <1>1, <2>1, <2>4
    <3>2. ~empty
      BY <3>1 DEF Skips
    <3> QED BY <2>2, <3>1, <3>2 DEF Remains
  <2> QED BY <2>3, <2>4
<1>3. ASSUME ~empty, Remains(t, w, s, l, j) PROVE Remains(t, w, s, k, i)
  <2>1. PICK m \in l .. Len(s) : \E c \in w[s[m]] : c[2] = t /\ (m = l => j < c[1])
    BY <1>3 DEF Remains
  <2>2. PICK c \in w[s[m]] : c[2] = t /\ (m = l => j < c[1])
    BY <2>1
  <2>3. m \in k .. Len(s) /\ m \in 1 .. Len(s) /\ (m = k => l = k /\ m = l)
    BY <1>1, <2>1
  <2>4. m = k => i < c[1]
    <3>1. c[1] \in Nat
      BY <2>2, <2>3 DEF Single
    <3>2. m = k => i <= j
      BY <1>3, <2>3 DEF Skips
    <3> QED BY <1>1, <2>2, <2>3, <3>1, <3>2
  <2> QED BY <2>2, <2>3, <2>4 DEF Remains
<1> QED BY <1>2, <1>3

(* A scan begins.                                                          *)
LEMMA SeenNone ==
    ASSUME NEW w, NEW s, Single(w, s), NEW r, Keeps(w, Range(s), r), 1 \in 1 .. Len(s),
           NEW l, NEW empty, NEW j, Skips(w, s, 1, 0, l, empty, j),
           \A m \in 1 .. Len(s) : \A c \in w[s[m]] : 0 < c[1],
           Range(s) = {s[m] : m \in 1 .. Len(s)}
    PROVE  Seen(<<>>, r, w, s, l, empty, j)
<1>1. \A t : Remains(t, w, s, 1, 0) <=> ~empty /\ Remains(t, w, s, l, j)
  BY NoneSkipped
<1>2. \A t : Remains(t, w, s, 1, 0) <=> t \in r
  <2>1. ASSUME NEW t \in r PROVE Remains(t, w, s, 1, 0)
    <3>1. PICK p \in Range(s) : \E c \in w[p] : c[2] = t
      BY DEF Keeps
    <3>2. PICK m \in 1 .. Len(s) : p = s[m]
      OBVIOUS
    <3> QED BY <3>1, <3>2 DEF Remains
  <2>2. ASSUME NEW t, Remains(t, w, s, 1, 0) PROVE t \in r
    BY <2>2 DEF Remains, Keeps
  <2> QED BY <2>1, <2>2
<1>3. <<>> \in Seq(r) /\ Len(<<>>) = 0 /\ Range(<<>>) = {}
  BY DEF Range
<1> QED BY <1>1, <1>2, <1>3 DEF Seen

(* A scan gives the record x it looks at, and what lies at that place may  *)
(* change.                                                                 *)
SameBehind(u, w, s, l, j) ==
    \A m \in l .. Len(s) : \A c : (m = l => j < c[1]) => (c \in u[s[m]] <=> c \in w[s[m]])

LEMMA SeenMore ==
    ASSUME NEW w, NEW s, Single(w, s), NEW r, NEW v, NEW k, NEW i,
           Seen(v, r, w, s, k, FALSE, i), NEW x, NEW n, n = i + 1, <<n, x>> \in w[s[k]],
           NEW l, NEW empty, NEW j, Skips(w, s, k, n, l, empty, j), i \in Nat,
           NEW u, ~empty => SameBehind(u, w, s, l, j)
    PROVE  Seen(Append(v, x), r, u, s, l, empty, j)
<1>1. \A t : Remains(t, w, s, k, n) <=> ~empty /\ Remains(t, w, s, l, j)
  BY NoneSkipped
<1>2. k \in 1 .. Len(s) /\ n \in Nat /\ i \in Nat /\ Len(s) \in Nat
  BY DEF Single, Skips
<1>3. ASSUME ~empty, NEW t PROVE Remains(t, u, s, l, j) <=> Remains(t, w, s, l, j)
  BY <1>3 DEF Remains, SameBehind
<1>4. \A t : Remains(t, w, s, k, i) <=> t = x \/ Remains(t, w, s, k, n)
  <2>1. Remains(x, w, s, k, i)
    <3>1. <<n, x>>[1] = n /\ <<n, x>>[2] = x /\ i < n
      BY <1>2
    <3> QED BY <1>2, <3>1 DEF Remains
  <2>2. ASSUME NEW t, Remains(t, w, s, k, n) PROVE Remains(t, w, s, k, i)
    <3>1. PICK m \in k .. Len(s) : \E c \in w[s[m]] : c[2] = t /\ (m = k => n < c[1])
      BY <2>2 DEF Remains
    <3>2. PICK c \in w[s[m]] : c[2] = t /\ (m = k => n < c[1])
      BY <3>1
    <3>3. c[1] \in Nat
      BY <1>2, <3>1, <3>2 DEF Single
    <3>4. m = k => i < c[1]
      BY <1>2, <3>2, <3>3
    <3> QED BY <3>1, <3>2, <3>4 DEF Remains
  <2>3. ASSUME NEW t, Remains(t, w, s, k, i), t # x PROVE Remains(t, w, s, k, n)
    <3>1. PICK m \in k .. Len(s) : \E c \in w[s[m]] : c[2] = t /\ (m = k => i < c[1])
      BY <2>3 DEF Remains
    <3>2. PICK c \in w[s[m]] : c[2] = t /\ (m = k => i < c[1])
      BY <3>1
    <3>3. c[1] \in Nat
      BY <1>2, <3>1, <3>2 DEF Single
    <3>4. m = k => c[1] # n
      <4>1. PICK e : e = <<n, x>>
        OBVIOUS
      <4>2. e[1] = n /\ e[2] = x /\ e \in w[s[k]]
        BY <4>1
      <4> QED BY <1>2, <2>3, <3>2, <4>2 DEF Single
    <3>5. m = k => n < c[1]
      BY <1>2, <3>2, <3>3, <3>4
    <3> QED BY <3>1, <3>2, <3>5 DEF Remains
  <2> QED BY <2>1, <2>2, <2>3
<1>5. ~Remains(x, w, s, k, n)
  <2> SUFFICES ASSUME Remains(x, w, s, k, n) PROVE FALSE
    OBVIOUS
  <2>1. PICK m \in k .. Len(s) : \E c \in w[s[m]] : c[2] = x /\ (m = k => n < c[1])
    BY DEF Remains
  <2>2. PICK c \in w[s[m]] : c[2] = x /\ (m = k => n < c[1])
    BY <2>1
  <2>3. PICK e : e = <<n, x>>
    OBVIOUS
  <2>4. e[1] = n /\ e[2] = x /\ e \in w[s[k]]
    BY <2>3
  <2>5. m \in 1 .. Len(s)
    BY <1>2, <2>1
  <2>6. m = k /\ c = e
    BY <1>2, <2>2, <2>4, <2>5 DEF Single
  <2> QED BY <1>2, <2>2, <2>4, <2>6
<1>6. /\ v \in Seq(r) /\ x \in r /\ x \notin Range(v)
      /\ \A t \in r : t \in Range(v) \/ Remains(t, w, s, k, i)
      /\ \A t : Remains(t, w, s, k, i) => t \in r /\ t \notin Range(v)
  BY <1>4 DEF Seen
<1>7. PICK y : y = Append(v, x)
  OBVIOUS
<1>8. y \in Seq(r) /\ Range(y) = Range(v) \cup {x}
      /\ \A a, b \in 1 .. Len(y) : y[a] = y[b] => a = b
  <2>1. /\ y \in Seq(r) /\ Len(y) = Len(v) + 1 /\ y[Len(v) + 1] = x /\ Len(v) \in Nat
        /\ \A a \in 1 .. Len(v) : y[a] = v[a]
        /\ DOMAIN y = 1 .. Len(y) /\ DOMAIN v = 1 .. Len(v)
    BY <1>6, <1>7
  <2>2. \A a \in 1 .. Len(y) : a \in 1 .. Len(v) \/ a = Len(v) + 1
    BY <2>1
  <2>3. \A a \in 1 .. Len(v) : a \in 1 .. Len(y) /\ Len(v) + 1 \in 1 .. Len(y)
    BY <2>1
  <2>4. Len(v) + 1 \in 1 .. Len(y)
    BY <2>1
  <2>5. \A a \in 1 .. Len(v) : v[a] # x
    BY <1>6, <2>1 DEF Range
  <2>6. Range(y) = Range(v) \cup {x}
    <3>1. \A z \in Range(y) : z \in Range(v) \cup {x}
      BY <2>1, <2>2 DEF Range
    <3>2. \A z \in Range(v) \cup {x} : z \in Range(y)
      BY <2>1, <2>3, <2>4 DEF Range
    <3> QED BY <3>1, <3>2
  <2>7. \A a, b \in 1 .. Len(v) : v[a] = v[b] => a = b
    BY DEF Seen
  <2>8. ASSUME NEW a \in 1 .. Len(y), NEW b \in 1 .. Len(y), y[a] = y[b] PROVE a = b
    <3>1. CASE a \in 1 .. Len(v) /\ b \in 1 .. Len(v)
      BY <2>1, <2>7, <2>8, <3>1
    <3>2. CASE ~(a \in 1 .. Len(v) /\ b \in 1 .. Len(v))
      BY <2>1, <2>2, <2>5, <2>8, <3>2
    <3> QED BY <3>1, <3>2
  <2> QED BY <2>1, <2>6, <2>8
<1>9. \A t \in r : t \in Range(y) \/ (~empty /\ Remains(t, u, s, l, j))
  BY <1>1, <1>3, <1>4, <1>6, <1>8
<1>10. ~empty => \A t : Remains(t, u, s, l, j) => t \in r /\ t \notin Range(y)
  BY <1>1, <1>3, <1>4, <1>5, <1>6, <1>8
<1> QED BY <1>7, <1>8, <1>9, <1>10 DEF Seen

(* What a scan has given: PageDataManager's ScanOnce follows from it, for  *)
(* at the end of a scan nothing remains.                                   *)
ScanSeen ==
    Scanning => \E k \in 1 .. Len(chain[group]) :
        /\ it.page = chain[group][k]
        /\ Seen(visited, scanned, Contents, chain[group], k, it.is_empty, it.index)
SInv == RInv /\ ScanSeen

LEMMA PlacesSingle ==
    ASSUME RInv, ~harmed, operation # "vacuum", NEW g \in DOMAIN rows,
           NEW w, w = Contents, NEW s, s = chain[g]
    PROVE  /\ Single(w, s) /\ Keeps(w, Range(s), rows[g])
           /\ Range(s) = {s[m] : m \in 1 .. Len(s)}
           /\ \A m \in 1 .. Len(s) : s[m] \in PG!Pages /\ w[s[m]] = Whole(data[s[m]])
           /\ \A m \in 1 .. Len(s) : \A c \in w[s[m]] : 0 < c[1] /\ c[1] <= data[s[m]].item_amount
           /\ \A l, m \in 1 .. Len(s) : s[l] = s[m] => l = m
<1>1. IInv /\ Held
  BY DEF RInv
<1>2. Listed(s, g, header)
  BY <1>1, ListsOf
<1>3. /\ Len(s) \in Nat /\ DOMAIN s = 1 .. Len(s)
      /\ \A m \in 1 .. Len(s) : s[m] \in PG!Pages
      /\ \A l, m \in 1 .. Len(s) : s[l] = s[m] => l = m
  BY <1>2 DEF Listed, IsInjective
<1>4. Keeps(w, Range(s), rows[g])
  BY <1>1 DEF Held, PagesOf
<1>5. Range(s) = {s[m] : m \in 1 .. Len(s)}
  BY <1>3 DEF Range
<1>6. \A p \in PG!Pages : w[p] = Whole(data[p])
  BY PlainNow
<1>7. \A p \in PG!Pages : data[p].item_amount \in Nat
  <2>1. \A p \in PG!Pages : data[p] \in Page
    BY <1>1 DEF IInv, Kinds
  <2> QED BY <2>1, DataAssumption DEF Page
<1>8. ASSUME NEW m \in 1 .. Len(s), NEW c \in w[s[m]]
      PROVE  /\ c[1] \in Nat /\ 0 < c[1] /\ c[1] <= data[s[m]].item_amount
             /\ c = <<c[1], data[s[m]].ids[c[1]].item>>
  <2>1. s[m] \in PG!Pages /\ data[s[m]].item_amount \in Nat
    BY <1>3, <1>7
  <2>2. c \in Stored(data[s[m]].ids, 1 .. data[s[m]].item_amount)
    BY <1>6, <2>1 DEF Whole
  <2>3. /\ c \in (1 .. data[s[m]].item_amount) \X (Items \cup {Blank})
        /\ c[2] = data[s[m]].ids[c[1]].item
    BY <2>2 DEF Stored
  <2>4. c = <<c[1], c[2]>> /\ c[1] \in 1 .. data[s[m]].item_amount
    BY <2>3
  <2> QED BY <2>1, <2>3, <2>4
<1>9. \A l, m \in 1 .. Len(s) : \A c \in w[s[l]], e \in w[s[m]] :
         c[2] = e[2] => l = m /\ c = e
  <2> SUFFICES ASSUME NEW l \in 1 .. Len(s), NEW m \in 1 .. Len(s), NEW c \in w[s[l]],
                      NEW e \in w[s[m]], c[2] = e[2]
               PROVE  l = m /\ c = e
    OBVIOUS
  <2>1. s[l] \in Range(s) /\ s[m] \in Range(s)
    BY <1>5
  <2>2. s[l] = s[m] /\ c = e
    BY <1>4, <2>1 DEF Keeps
  <2> QED BY <1>3, <2>2
<1>10. \A l \in 1 .. Len(s) : \A c, e \in w[s[l]] : c[1] = e[1] => c = e
  <2> SUFFICES ASSUME NEW l \in 1 .. Len(s), NEW c \in w[s[l]], NEW e \in w[s[l]], c[1] = e[1]
               PROVE  c = e
    OBVIOUS
  <2>1. c = <<c[1], data[s[l]].ids[c[1]].item>> /\ e = <<e[1], data[s[l]].ids[e[1]].item>>
    BY <1>8
  <2> QED BY <2>1
<1>11. Single(w, s)
  BY <1>3, <1>8, <1>9, <1>10 DEF Single
<1> QED BY <1>3, <1>4, <1>5, <1>6, <1>8, <1>11

(* What item_iterator_preload_next_item passes holds no record.            *)
LEMMA FoundSkips ==
    ASSUME NEW d, NEW h, NEW s, NEW w, Len(s) \in Nat,
           \A m \in 1 .. Len(s) : w[s[m]] = Whole(d[s[m]]) /\ d[s[m]].item_amount \in 0 .. Capacity,
           NEW k \in 1 .. Len(s), NEW i \in Nat, NEW l \in k .. Len(s),
           NEW r, FoundAt(r, s, d, h, k, i, l), NEW empty, NEW j,
           empty = r.is_empty, j = r.index
    PROVE  Skips(w, s, k, i, l, empty, j)
<1>1. /\ empty \in BOOLEAN /\ j \in Nat
      /\ empty => l = Len(s) /\ Passed(s, d, k, i, l, Capacity)
      /\ ~empty => (l = k => i <= j) /\ Passed(s, d, k, i, l, j)
  BY DEF FoundAt
<1>2. ASSUME NEW m \in k .. l, NEW c \in w[s[m]], m = k => i < c[1]
      PROVE  ~empty /\ m = l /\ j < c[1]
  <2>1. m \in 1 .. Len(s)
    OBVIOUS
  <2>2. PICK n : n = d[s[m]].item_amount
    OBVIOUS
  <2>3. c \in Stored(d[s[m]].ids, 1 .. n) /\ n \in 0 .. Capacity
    BY <2>1, <2>2 DEF Whole
  <2>4. c[1] \in 1 .. n /\ ~d[s[m]].ids[c[1]].deleted
    BY <2>3 DEF Stored
  <2>5. PICK x \in 1 .. n : x = c[1]
    BY <2>4
  <2>6. x <= Capacity /\ x \in Nat
    BY <2>3, DataAssumption
  <2>7. ~empty
    BY <1>1, <1>2, <2>2, <2>4, <2>5, <2>6 DEF Passed
  <2>8. ~(m = l => x <= j)
    BY <1>1, <1>2, <2>2, <2>4, <2>5, <2>7 DEF Passed
  <2> QED BY <1>1, <2>5, <2>6, <2>7, <2>8
<1> QED BY <1>1, <1>2 DEF Skips

LEMMA ScanBeginSeen ==
    ASSUME RInv, NEW g \in PG!Groups, NEW kind \in Scans, ScanBegin(g, kind) PROVE ScanSeen'
<1>1. /\ IInv /\ ~harmed /\ operation = "idle" /\ DOMAIN rows = PG!Groups
      /\ GroupTidy(g)
  BY BetweenCalls DEF ScanBegin, RInv
<1>2. /\ operation' = kind /\ group' = g /\ scanned' = rows[g] /\ visited' = <<>>
      /\ it' = PreloadNextItem[<<g, header[g].next, 0>>]
      /\ data' = data /\ chain' = chain
  BY DEF ScanBegin, groupVars
<1>3. PICK s, w, r, d : s = chain[g] /\ w = Contents /\ r = it' /\ d = data
  OBVIOUS
<1>4. /\ Single(w, s) /\ Keeps(w, Range(s), rows[g])
      /\ Range(s) = {s[m] : m \in 1 .. Len(s)}
      /\ \A m \in 1 .. Len(s) : s[m] \in PG!Pages /\ w[s[m]] = Whole(d[s[m]])
      /\ \A m \in 1 .. Len(s) : \A c \in w[s[m]] : 0 < c[1]
  <2>1. operation # "vacuum" /\ g \in DOMAIN rows
    BY <1>1
  <2> QED BY <1>1, <1>3, <2>1, PlacesSingle
<1>5. /\ data \in [PG!Pages -> Page] /\ header \in [PG!Pages -> PG!PageHeader]
      /\ g \in PG!Pages /\ Listed(s, g, header)
      /\ \A k \in 2 .. Len(s) : data[s[k]].item_amount = 0 => data[s[k]].ids[1].deleted
  BY <1>1, <1>3, PreloadReady
<1>6. s[1] = g /\ 1 \in 1 .. Len(s) /\ 0 \in 0 .. Capacity /\ Len(s) \in Nat
  <2>1. s[1] = g /\ Len(s) \in Nat \ {0}
    BY Zenon, <1>5 DEF Listed
  <2> QED BY <2>1, DataAssumption
<1>7. Found(r, s, data, header, 1, 0)
  BY <1>2, <1>3, <1>5, <1>6, PreloadFinds
<1>8. PICK l \in 1 .. Len(s) : FoundAt(r, s, data, header, 1, 0, l)
  BY <1>7 DEF Found
<1>9. \A m \in 1 .. Len(s) : w[s[m]] = Whole(d[s[m]]) /\ d[s[m]].item_amount \in 0 .. Capacity
  BY <1>3, <1>4, <1>5 DEF Page
<1>10. PICK empty, j, h : empty = r.is_empty /\ j = r.index /\ h = header
  OBVIOUS
<1>11. Skips(w, s, 1, 0, l, empty, j)
  <2>1. FoundAt(r, s, d, h, 1, 0, l)
    BY <1>3, <1>8, <1>10
  <2> QED BY <1>6, <1>9, <1>10, <2>1, FoundSkips
<1>12. Seen(<<>>, rows[g], w, s, l, empty, j)
  <2>1. PICK q : q = rows[g]
    OBVIOUS
  <2> QED BY <1>4, <1>6, <1>11, <2>1, SeenNone
<1>13. Contents' = w
  <2>1. PICK u : u = Contents'
    OBVIOUS
  <2>2. operation' # "vacuum"
    BY <1>2 DEF Scans
  <2>3. u = w
    BY <1>1, <1>2, <1>3, <2>1, <2>2 DEF Contents, ContentsOf
  <2> QED BY <2>1, <2>3
<1>14. r.page = s[l]
  <2>1. PICK a, b : r = [page |-> s[l], next_page |-> header[s[l]].next,
                         index |-> a, is_empty |-> b]
    BY <1>8 DEF FoundAt
  <2> QED BY <2>1
<1>15. Seen(visited', scanned', Contents', chain'[group'], l, it'.is_empty, it'.index)
  <2>1. chain'[group'] = s
    BY <1>2, <1>3
  <2> QED BY Zenon, <1>2, <1>3, <1>10, <1>12, <1>13, <2>1
<1>16. l \in 1 .. Len(chain'[group']) /\ it'.page = chain'[group'][l]
  BY <1>2, <1>3, <1>14
<1> QED BY <1>15, <1>16 DEF ScanSeen

(* At most one place of page p changes.                                    *)
OnlyPlace(e, d, p, n) ==
    /\ \A q \in PG!Pages : q # p => e[q] = d[q]
    /\ \A c : c[1] # n => (c \in Whole(e[p]) <=> c \in Whole(d[p]))

LEMMA SeenGoesOn ==
    ASSUME SInv, NextItem, UNCHANGED control, NEW z, z = data',
           OnlyPlace(z, data, it.page, it.index + 1)
    PROVE  ScanSeen'
<1>1. /\ Scanning /\ ~it.is_empty
      /\ it' = PreloadNextItem[<<it.page, it.next_page, it.index + 1>>]
      /\ visited' = Append(visited, Current.item) /\ scanned' = scanned
      /\ chain' = chain /\ operation' = operation /\ group' = group
  BY DEF NextItem, groupVars, control
<1>2. /\ RInv /\ IInv /\ ~harmed /\ operation # "vacuum" /\ operation' # "vacuum"
      /\ group \in DOMAIN rows /\ GroupTidy(group)
  BY <1>1, ScanFacts DEF SInv, RInv
<1>3. PICK s, w, u, r, d, h, v, R, x, p, i, n :
         /\ s = chain[group] /\ w = Contents /\ u = Contents' /\ r = it' /\ d = data
         /\ h = header /\ v = visited /\ R = scanned /\ x = Current.item
         /\ p = it.page /\ i = it.index /\ n = it.index + 1
  OBVIOUS
<1>4. PICK k \in 1 .. Len(s) : p = s[k] /\ Seen(v, R, w, s, k, FALSE, i)
  <2>1. it.is_empty = FALSE
    <3>1. it.is_empty \in BOOLEAN
      BY <1>2 DEF IInv, Kinds, ItemIterator
    <3> QED BY <1>1, <3>1
  <2>2. PICK k \in 1 .. Len(chain[group]) :
           /\ it.page = chain[group][k]
           /\ Seen(visited, scanned, Contents, chain[group], k, it.is_empty, it.index)
    BY Zenon, <1>1 DEF SInv, ScanSeen
  <2>3. k \in 1 .. Len(s) /\ p = s[k] /\ Seen(v, R, w, s, k, FALSE, i)
    BY Zenon, <1>3, <2>1, <2>2
  <2> QED BY <2>3
<1>5. /\ p = s[k] /\ it.next_page = header[s[k]].next /\ n \in 1 .. Capacity
      /\ n \in 0 .. Capacity /\ i \in Nat /\ n \in Nat /\ n = i + 1
  <2>1. it.next_page = header[p].next /\ n \in 1 .. Capacity
    BY <1>1, <1>2, <1>3, ScanReads
  <2>2. i \in Nat
    BY <1>2, <1>3 DEF IInv, Kinds, ItemIterator
  <2> QED BY <1>3, <1>4, <2>1, <2>2
<1>6. /\ data \in [PG!Pages -> Page] /\ header \in [PG!Pages -> PG!PageHeader]
      /\ group \in PG!Pages /\ Listed(s, group, header)
      /\ \A m \in 2 .. Len(s) : data[s[m]].item_amount = 0 => data[s[m]].ids[1].deleted
  BY <1>2, <1>3, PreloadReady
<1>7. Found(r, s, data, header, k, n)
  BY <1>1, <1>3, <1>5, <1>6, PreloadFinds
<1>8. PICK l \in k .. Len(s) : FoundAt(r, s, data, header, k, n, l)
  BY <1>7 DEF Found
<1>9. /\ Single(w, s)
      /\ \A m \in 1 .. Len(s) : s[m] \in PG!Pages /\ w[s[m]] = Whole(d[s[m]])
      /\ \A m, o \in 1 .. Len(s) : s[m] = s[o] => m = o
  BY <1>2, <1>3, PlacesSingle
<1>10. /\ Len(s) \in Nat
       /\ \A m \in 1 .. Len(s) : w[s[m]] = Whole(d[s[m]]) /\ d[s[m]].item_amount \in 0 .. Capacity
  BY <1>3, <1>6, <1>9 DEF Page, Single
<1>11. PICK empty, j : empty = r.is_empty /\ j = r.index
  OBVIOUS
<1>12. Skips(w, s, k, n, l, empty, j)
  <2>1. FoundAt(r, s, d, h, k, n, l)
    BY <1>3, <1>8
  <2> QED BY <1>5, <1>10, <1>11, <2>1, FoundSkips
<1>13. <<n, x>> \in w[s[k]]
  BY <1>1, <1>2, <1>3, <1>4, <1>9, CurrentStored
<1>14. \A q \in PG!Pages : u[q] = Whole(z[q])
  BY <1>2, <1>3, PlainNext
<1>15. ASSUME ~empty PROVE SameBehind(u, w, s, l, j)
  <2> SUFFICES ASSUME NEW m \in l .. Len(s), NEW c, m = l => j < c[1]
               PROVE  c \in u[s[m]] <=> c \in w[s[m]]
    BY DEF SameBehind
  <2>1. m \in 1 .. Len(s) /\ s[m] \in PG!Pages
    BY <1>9, <1>10
  <2>2. CASE s[m] # p
    BY <1>3, <1>9, <1>14, <2>1, <2>2 DEF OnlyPlace
  <2>3. CASE s[m] = p
    <3>1. m = k
      BY <1>4, <1>9, <2>1, <2>3
    <3>2. m = l /\ l = k
      BY <1>10, <3>1
    <3>3. n <= j /\ j \in Nat
      BY <1>12, <1>15, <3>2 DEF Skips
    <3>4. c[1] # n
      BY <1>5, <3>2, <3>3
    <3> QED BY <1>3, <1>9, <1>14, <2>1, <2>3, <3>4 DEF OnlyPlace
  <2> QED BY <2>2, <2>3
<1>16. Seen(Append(v, x), R, u, s, l, empty, j)
  BY <1>4, <1>5, <1>9, <1>12, <1>13, <1>15, SeenMore
<1>17. r.page = s[l] /\ l \in 1 .. Len(s)
  <2>1. PICK a, b : r = [page |-> s[l], next_page |-> header[s[l]].next,
                         index |-> a, is_empty |-> b]
    BY <1>8 DEF FoundAt
  <2> QED BY <1>10, <2>1
<1>18. Seen(visited', scanned', Contents', chain'[group'], l, it'.is_empty, it'.index)
  <2>1. chain'[group'] = s
    BY <1>1, <1>3
  <2> QED BY Zenon, <1>1, <1>3, <1>11, <1>16, <2>1
<1>19. l \in 1 .. Len(chain'[group']) /\ it'.page = chain'[group'][l]
  BY <1>1, <1>3, <1>17
<1> QED BY <1>18, <1>19 DEF ScanSeen

LEMMA PassItemSeen == ASSUME SInv, PassItem PROVE ScanSeen'
<1>1. NextItem /\ UNCHANGED control /\ data' = data
  BY DEF PassItem
<1>2. PICK z : z = data'
  OBVIOUS
<1>3. OnlyPlace(z, data, it.page, it.index + 1)
  BY <1>1, <1>2 DEF OnlyPlace
<1> QED BY <1>1, <1>2, <1>3, SeenGoesOn

LEMMA DeleteItemSeen == ASSUME SInv, DeleteItem PROVE ScanSeen'
<1>1. /\ NextItem /\ UNCHANGED control /\ data' = Deleted
      /\ Scanning /\ ~it.is_empty /\ chain' = chain /\ sealed' = sealed
  BY DEF DeleteItem, NextItem, groupVars
<1>2. PICK z, p, n, x : z = data' /\ p = it.page /\ n = it.index + 1 /\ x = Current.item
  OBVIOUS
<1>3. /\ \A q \in PG!Pages : q # p => z[q] = data[q]
      /\ Whole(z[p]) = Whole(data[p]) \ {<<n, x>>}
  BY <1>1, <1>2, DeletedWhole DEF SInv, RInv
<1>4. \A c : c[1] # n => c # <<n, x>>
  OBVIOUS
<1>5. OnlyPlace(z, data, p, n)
  BY <1>3, <1>4 DEF OnlyPlace
<1> QED BY <1>1, <1>2, <1>5, SeenGoesOn

LEMMA UpdateItemSeen ==
    ASSUME SInv, ~harmed', NEW t \in Items, UpdateItem(t) PROVE ScanSeen'
<1>1. NextItem /\ UNCHANGED control
  BY DEF UpdateItem
<1>2. PICK z, p, n, x : z = data' /\ p = it.page /\ n = it.index + 1 /\ x = Current.item
  OBVIOUS
<1>3. /\ \A q \in PG!Pages : q # p => z[q] = data[q]
      /\ Whole(z[p]) = (Whole(data[p]) \ {<<n, x>>}) \cup {<<n, t>>}
  BY <1>2, UpdatedWhole DEF SInv, RInv
<1>4. \A c : c[1] # n => c # <<n, x>> /\ c # <<n, t>>
  OBVIOUS
<1>5. OnlyPlace(z, data, p, n)
  BY <1>3, <1>4 DEF OnlyPlace
<1> QED BY <1>1, <1>2, <1>5, SeenGoesOn

(* No other step leaves a scan running.                                    *)
LEMMA NoScan == ASSUME operation' \notin Scans \/ harmed' PROVE ScanSeen'
  BY DEF ScanSeen, Scanning

LEMMA ScanStepSeen == ASSUME SInv, ScanStep, ~harmed' PROVE ScanSeen'
<1>1. \A times : RunVacuum(times) => operation' \notin Scans
  BY DEF RunVacuum, Scans
<1>2. (DeleteFirst \/ ScanReturn \/ ScanFails) => operation' \notin Scans
  BY <1>1 DEF DeleteFirst, ScanReturn, ScanFails
<1>3. CASE DeleteFirst \/ ScanReturn \/ ScanFails
  BY <1>2, <1>3, NoScan
<1> QED BY <1>3, PassItemSeen, UpdateItemSeen, DeleteItemSeen DEF ScanStep

LEMMA OthersDoNotScan ==
    ASSUME RInv, VacuumStep \/ DeleteGroupStep \/ CreateGroup
                 \/ (\E g \in PG!Groups : DeleteGroup(g))
                 \/ (\E g \in PG!Groups, t \in Items : Insert(g, t)) \/ Restart
    PROVE  operation' \notin Scans
<1>1. \A times : RunVacuum(times) => operation' \notin Scans
  BY DEF RunVacuum, Scans
<1>2. "vacuum" \notin Scans /\ "idle" \notin Scans /\ "free" \notin Scans
  BY DEF Scans
<1>3. CASE VacuumStep
  <2>1. CASE VacuumEnd
    BY <1>1, <1>2, <2>1 DEF VacuumEnd
  <2>2. CASE FreeReturn
    BY <1>1, <2>2 DEF FreeReturn
  <2>3. CASE ~VacuumEnd /\ ~FreeReturn
    BY <1>2, <1>3, <2>3 DEF VacuumStep, VacuumPage, VacuumStarts, VacuumSkips, VacuumMoves,
       VacuumMovesOn, VacuumGivesUp, FreePage, VacuumItem, NoRoom, Vacuuming, control
  <2> QED BY <2>1, <2>2, <2>3
<1>4. CASE DeleteGroupStep
  <2>1. phase = "delete"
    BY <1>4 DEF DeleteGroupStep, PG!DeleteGroupTurn, PG!DeleteGroupReturn
  <2>2. operation = "idle"
    BY <2>1 DEF RInv, IInv, Phases
  <2> QED BY <1>2, <1>4, <2>2 DEF DeleteGroupStep, control
<1>5. CASE Restart
  BY <1>2, <1>5 DEF Restart, Idle, control
<1>6. CASE CreateGroup
  BY <1>2, <1>6 DEF CreateGroup, Idle, control
<1>7. CASE \E g \in PG!Groups : DeleteGroup(g)
  BY <1>2, <1>7 DEF DeleteGroup, Idle, control
<1>8. CASE \E g \in PG!Groups, t \in Items : Insert(g, t)
  BY <1>2, <1>8 DEF Insert, Idle, control
<1> QED BY <1>3, <1>4, <1>5, <1>6, <1>7, <1>8

LEMMA ScanStutters == ASSUME SInv, UNCHANGED vars PROVE ScanSeen'
<1>1. /\ it' = it /\ visited' = visited /\ scanned' = scanned /\ chain' = chain
      /\ group' = group /\ data' = data /\ operation' = operation /\ vac' = vac
      /\ harmed' = harmed
  BY DEF vars, control, scanning, groupVars
<1>2. PICK w, u : w = Contents /\ u = Contents'
  OBVIOUS
<1>3. u = w
  BY <1>1, <1>2 DEF Contents
<1> QED BY <1>1, <1>2, <1>3 DEF SInv, ScanSeen, Scanning

LEMMA SInvNext == ASSUME SInv, [Next]_vars PROVE SInv'
<1>1. RInv' /\ RInv
  BY RInvNext DEF SInv
<1>2. ScanSeen'
  <2>1. CASE harmed'
    BY <2>1, NoScan
  <2>2. CASE ~harmed' /\ ScanStep
    BY <2>2, ScanStepSeen
  <2>3. CASE \E g \in PG!Groups, kind \in Scans : ScanBegin(g, kind)
    BY <1>1, <2>3, ScanBeginSeen
  <2>4. CASE UNCHANGED vars
    BY <2>4, ScanStutters
  <2>5. CASE Next /\ ~ScanStep /\ ~(\E g \in PG!Groups, kind \in Scans : ScanBegin(g, kind))
    BY <1>1, <2>5, OthersDoNotScan, NoScan DEF Next, Running
  <2> QED BY <2>1, <2>2, <2>3, <2>4, <2>5
<1> QED BY <1>1, <1>2 DEF SInv

LEMMA SInvInit == Init => SInv
<1> SUFFICES ASSUME Init PROVE SInv
  OBVIOUS
<1>1. RInv
  BY IInvInit, HeldInit DEF RInv
<1>2. operation = "idle"
  BY DEF Init
<1> QED BY <1>1, <1>2 DEF SInv, ScanSeen, Scanning, Scans

LEMMA SpecSees == Spec => []SInv
  BY SInvInit, SInvNext, PTL DEF Spec

LEMMA SeenOnce == ASSUME SInv PROVE ScanOnce
<1> SUFFICES ASSUME Scanning
             PROVE  /\ Range(visited) \subseteq scanned
                    /\ Cardinality(Range(visited)) = Len(visited)
                    /\ it.is_empty => Range(visited) = scanned
  BY DEF ScanOnce
<1>1. PICK k : Seen(visited, scanned, Contents, chain[group], k, it.is_empty, it.index)
  BY DEF SInv, ScanSeen
<1>2. PICK v, R : v = visited /\ R = scanned
  OBVIOUS
<1>3. /\ v \in Seq(R) /\ \A a, b \in 1 .. Len(v) : v[a] = v[b] => a = b
      /\ \A t \in R : it.is_empty => t \in Range(v)
  BY <1>1, <1>2 DEF Seen
<1>4. Len(v) \in Nat /\ DOMAIN v = 1 .. Len(v) /\ \A a \in 1 .. Len(v) : v[a] \in R
  BY <1>3
<1>5. Range(v) \subseteq R
  BY <1>4 DEF Range
<1>6. Cardinality(Range(v)) = Len(v)
  <2>1. PICK S, T : S = 1 .. Len(v) /\ T = Range(v)
    OBVIOUS
  <2>2. IsFiniteSet(S) /\ Cardinality(S) = Len(v)
    <3>1. PICK n \in Nat : n = Len(v)
      BY <1>4
    <3>2. /\ IsFiniteSet(1 .. n)
          /\ Cardinality(1 .. n) = IF 1 > n THEN 0 ELSE n - 1 + 1
      <4>1. 1 \in Int /\ n \in Int
        OBVIOUS
      <4> QED BY <4>1, FS_Interval
    <3> QED BY <2>1, <3>1, <3>2
  <2>3. PICK f : f = [a \in S |-> v[a]]
    OBVIOUS
  <2>4. f \in [S -> T] /\ \A a \in S : f[a] = v[a]
    BY <1>4, <2>1, <2>3 DEF Range
  <2>5. f \in Injection(S, T)
    BY <1>3, <2>1, <2>4 DEF Injection, IsInjective
  <2>6. f \in Surjection(S, T)
    BY <1>4, <2>1, <2>4 DEF Surjection, Range
  <2>7. ExistsBijection(S, T)
    BY <2>5, <2>6 DEF ExistsBijection, Bijection
  <2>8. Cardinality(T) = Cardinality(S)
    BY <2>2, <2>7, FS_Bijection
  <2> QED BY <2>1, <2>2, <2>8
<1> QED BY <1>2, <1>3, <1>5, <1>6

(***************************************************************************)
(* Every scan of a group, by item_iterator_next and its preloading, gives  *)
(* each record that the group held when the scan began exactly once: none  *)
(* twice on the way, and none left out when the iterator reports its end,  *)
(* although the caller deletes and overwrites the records behind it.       *)
(***************************************************************************)
THEOREM ScansSeeAllOnce == Spec => []ScanOnce
  BY SpecSees, SeenOnce, PTL
=============================================================================
