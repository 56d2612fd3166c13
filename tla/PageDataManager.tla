--------------------------- MODULE PageDataManager ---------------------------
(***************************************************************************)
(* Items in the pages of a group, page_data_manager.c, with the loops of   *)
(* table_manager.c that scan, delete and update them, over the lists of    *)
(* PageGroupManager.                                                       *)
(*                                                                         *)
(* A page is a row of cells.  Item ids grow from the front, one cell each; *)
(* item data grows from the back.  An id also tells which record its data  *)
(* is, Blank once something was written over it or over its data.  Ids     *)
(* behind both the free space's start and the item amount, but for the     *)
(* first, which a scan may still look at, and those of a freed page are    *)
(* forgotten: a read of one would be an error here.                        *)
(*                                                                         *)
(* History variables: "rows" is what each group should contain, "sealed"   *)
(* the pages whose free space vacuum left at odds with the items in them,  *)
(* and "harmed" becomes true at a step that lets an item be lost:          *)
(*   - an item is put into a page that has left the group, or into a       *)
(*     sealed one, or into a page, or over an item, that is too small;     *)
(*   - a running vacuum comes to a sealed page and passes over its items;  *)
(*   - vacuum writes through a pointer to a page that may have left the    *)
(*     cache;                                                              *)
(*   - the lists of the page groups were damaged.                          *)
(* The model does not follow the code behind such a step.                  *)
(***************************************************************************)
EXTENDS Integers, Sequences, FiniteSets, SequencesExt

CONSTANTS
    Items,      \* the records that are ever stored
    SizeOf,     \* item_t.size, in cells
    Capacity,   \* cells of a page
    HeaderSize, \* cells of struct page_data_header
    CacheSize,  \* DEFAULT_CACHE_SIZE
    MaxGroups,  \* bound: how many groups there are at a time
    Restarts,   \* bound: whether the database is closed and opened again
    Blank,      \* what is left of an overwritten record
    MaxPage

ASSUME DataAssumption ==
    /\ Capacity \in Nat \ {0} /\ HeaderSize \in Nat /\ CacheSize \in Nat \ {0}
    /\ SizeOf \in [Items -> Nat \ {0}]
    /\ MaxGroups \in Nat \ {0} /\ Restarts \in BOOLEAN
    /\ Blank \notin Items /\ MaxPage \in Nat \ {0}

VARIABLES
    page_amount, header, app, saved_app, phase, loop_group, next_page_id,
    chain, free, leaked, shortened, damaged

PG == INSTANCE PageGroupManager

VARIABLES
    data,       \* the contents of every page
    operation,  \* what runs: a scan (update, delete, delete_first), vacuum,
                \* or the end of vacuum, that frees pages (free)
    vacuums,    \* how many vacuums the operation still has to run
    group,      \* the group it runs over
    it,         \* struct item_iterator
    vac,        \* the local variables of vacuum
    rows, scanned, visited, sealed, harmed

groupVars == <<page_amount, header, app, saved_app, phase, loop_group,
               next_page_id, chain, free, leaked, shortened, damaged>>
control == <<operation, vacuums, group>>
scanning == <<it, scanned, visited>>
vars == <<groupVars, data, control, scanning, vac, rows, sealed, harmed>>

NULL == PG!PAGE_ID_NULL
Scans == {"update", "delete", "delete_first"}
(* A page as initialize_page leaves it.                                    *)
EmptyPage == [item_amount |-> 0, start |-> 0, end |-> Capacity, ids |-> <<>>]
NoIterator == [page |-> NULL, next_page |-> NULL, index |-> 0, is_empty |-> TRUE]
NoVacuum == [src |-> NULL, src_next |-> NULL, index |-> 0, ids |-> 0,
             dest |-> NULL, dest_next |-> NULL, dest_id |-> 0,
             dest_data |-> 0, started |-> FALSE, age |-> 0]

Init ==
    /\ PG!Init
    /\ data = [p \in PG!Pages |-> EmptyPage]
    /\ operation = "idle" /\ vacuums = 0 /\ group = NULL
    /\ it = NoIterator
    /\ vac = NoVacuum
    /\ rows = <<>>
    /\ scanned = {} /\ visited = <<>>
    /\ sealed = {}
    /\ harmed = FALSE

Idle == operation = "idle" /\ phase = "idle" /\ ~harmed
-----------------------------------------------------------------------------
ForgottenId == [offset |-> 0, size |-> 0, deleted |-> TRUE, item |-> Blank]

(* What the ids of a page become when id is written at place i and its     *)
(* data, "size" cells of it, at the id's offset.                           *)
Meets(id, j, offset, size) ==
    \/ id.offset < offset + size /\ offset < id.offset + id.size
    \/ j - 1 \in offset .. offset + size - 1

Written(ids, i, id, size) ==
    [j \in 1 .. Max({i, Len(ids)}) |->
        IF j = i THEN id
        ELSE IF j > Len(ids) THEN ForgottenId
        ELSE IF Meets(ids[j], j, id.offset, size) THEN [ids[j] EXCEPT !.item = Blank]
        ELSE ids[j]]

(* insert_item.  The flag "new" is left out: it is set only for a record   *)
(* that an update could not change in place, and every update can, for     *)
(* applicable_in_place stays as record_update_ctor sets it.                *)
ItemInserted(page, t) ==
    LET id == [offset |-> page.end - SizeOf[t], size |-> SizeOf[t],
               deleted |-> FALSE, item |-> t]
    IN  [item_amount |-> page.item_amount + 1,
         start |-> page.start + 1,
         end |-> id.offset,
         ids |-> Written(page.ids, page.start + 1, id, id.size)]

EntrySize(size) == size + 1
MaxItemSize == Capacity + HeaderSize - 1

FitsIn(t, page) == EntrySize(SizeOf[t]) < page.end - page.start

(* The two pages page_data_manager_insert looks at: an inverse iterator    *)
(* starts with the first page and goes on with the last.                   *)
Candidates(g) ==
    <<g>> \o (IF header[g].previous = g THEN <<>> ELSE <<header[g].previous>>)
Target(g, t) == SelectInSeq(Candidates(g), LAMBDA p : FitsIn(t, data[p]))

(* page_data_manager_insert into a page with room or into a new one, called *)
(* by table_manager_insert for each record.  Bound: a record is stored once. *)
InsertIntoPage(g, t) ==
    LET p == Candidates(g)[Target(g, t)]
    IN  /\ data' = [data EXCEPT ![p] = ItemInserted(@, t)]
        /\ harmed' = (p \notin Range(chain[g]) \/ p \in sealed)
        /\ UNCHANGED <<groupVars, sealed>>

InsertIntoNewPage(g, t) ==
    /\ PG!AddPage(g)
    /\ data' = [data EXCEPT ![PG!NewPage] = ItemInserted(EmptyPage, t)]
    /\ harmed' = (damaged' \/ EntrySize(SizeOf[t]) > Capacity)
    /\ sealed' = sealed \ {PG!NewPage}

Insert(g, t) ==
    /\ Idle /\ \A o \in DOMAIN rows : t \notin rows[o]
    /\ SizeOf[t] <= MaxItemSize
    /\ IF Target(g, t) # 0 THEN InsertIntoPage(g, t) ELSE InsertIntoNewPage(g, t)
    /\ rows' = [rows EXCEPT ![g] = @ \cup {t}]
    /\ UNCHANGED <<control, scanning, vac>>

(* page_data_manager_create_group and page_data_manager_delete_group       *)
CreateGroup ==
    LET p == PG!NewPage
    IN  /\ Idle /\ Cardinality(DOMAIN rows) < MaxGroups
        /\ PG!CreateGroup
        /\ data' = [data EXCEPT ![p] = EmptyPage]
        /\ rows' = [g \in DOMAIN rows \cup {p} |-> IF g = p THEN {} ELSE rows[g]]
        /\ sealed' = sealed \ {p}
        /\ UNCHANGED <<control, scanning, vac, harmed>>

Forgotten(p) == [data EXCEPT ![p].ids = <<>>]

DeleteGroup(g) ==
    /\ Idle
    /\ PG!DeleteGroup(g)
    /\ rows' = [o \in DOMAIN rows \ {g} |-> rows[o]]
    /\ UNCHANGED <<data, control, scanning, vac, sealed, harmed>>

DeleteGroupStep ==
    /\ \/ PG!DeleteGroupTurn /\ data' = Forgotten(next_page_id)
       \/ PG!DeleteGroupReturn /\ UNCHANGED data
    /\ harmed' = damaged'
    /\ UNCHANGED <<control, scanning, vac, rows, sealed>>

Restart ==
    /\ Idle /\ Restarts
    /\ PG!Restart
    /\ UNCHANGED <<data, control, scanning, vac, rows, sealed, harmed>>
-----------------------------------------------------------------------------
(* item_iterator_preload_next_item, from item i of page p on, when the     *)
(* page iterator goes on with page n: the next item that is not deleted.   *)
(* The first item of a page is looked at even if the page has none.        *)
PreloadNextItem[at \in PG!Pages \X PG!PageIds \X (0 .. Capacity)] ==
    LET p == at[1]
        n == at[2]
        i == at[3]
    IN  IF i < data[p].item_amount
        THEN IF data[p].ids[i + 1].deleted THEN PreloadNextItem[<<p, n, i + 1>>]
             ELSE [page |-> p, next_page |-> n, index |-> i, is_empty |-> FALSE]
        ELSE IF n = NULL
        THEN [page |-> p, next_page |-> n, index |-> 0, is_empty |-> TRUE]
        ELSE IF data[n].ids[1].deleted THEN PreloadNextItem[<<n, header[n].next, 1>>]
        ELSE [page |-> n, next_page |-> header[n].next, index |-> 0, is_empty |-> FALSE]

Current == data[it.page].ids[it.index + 1]
Scanning == operation \in Scans /\ ~harmed

(* page_data_manager_get_items at the start of table_manager_update,       *)
(* table_manager_delete and find_first_maybe_delete.                       *)
ScanBegin(g, kind) ==
    /\ Idle
    /\ operation' = kind /\ group' = g
    /\ it' = PreloadNextItem[<<g, header[g].next, 0>>]
    /\ scanned' = rows[g]
    /\ visited' = <<>>
    /\ UNCHANGED <<groupVars, data, vacuums, vac, rows, sealed, harmed>>

(* Mutant: the index is counted up twice.                                  *)
NextItem_CountsTwice ==
    /\ Scanning /\ ~it.is_empty
    /\ it' = PreloadNextItem[<<it.page, it.next_page, it.index + 2>>]
    /\ visited' = Append(visited, Current.item)
    /\ UNCHANGED <<groupVars, scanned, sealed>>

(* item_iterator_next preloads the following item before it gives this     *)
(* one; the loop leaves it alone, ...                                      *)
NextItem ==
    /\ Scanning /\ ~it.is_empty
    /\ it' = PreloadNextItem[<<it.page, it.next_page, it.index + 1>>]
    /\ visited' = Append(visited, Current.item)
    /\ UNCHANGED <<groupVars, scanned, sealed>>

PassItem ==
    /\ NextItem
    /\ UNCHANGED <<data, control, vac, rows, harmed>>

(* ... writes a changed record over it, of whatever size, ...              *)
UpdateItem(t) ==
    /\ operation = "update" /\ NextItem
    /\ \A o \in DOMAIN rows : t \notin rows[o]
    /\ data' = [data EXCEPT ![it.page].ids =
                    Written(@, it.index + 1, [Current EXCEPT !.item = t], SizeOf[t])]
    /\ rows' = [rows EXCEPT ![group] = (@ \ {Current.item}) \cup {t}]
    /\ harmed' = (SizeOf[t] > Current.size)
    /\ UNCHANGED <<control, vac>>

(* ... or deletes it.                                                      *)
Deleted == [data EXCEPT ![it.page].ids[it.index + 1].deleted = TRUE]

DeleteItem ==
    /\ operation = "delete" /\ NextItem
    /\ data' = Deleted
    /\ rows' = [rows EXCEPT ![group] = @ \ {Current.item}]
    /\ UNCHANGED <<control, vac, harmed>>

(* The loop ends, and vacuum runs; a delete statement, unlike drop_table,  *)
(* runs it once more when it flushes the table.  An item that cannot be    *)
(* read, or a predicate that fails, ends the loop without.                 *)
VacuumsAfter(scan) ==
    CASE scan = "update" -> {1} [] scan = "delete" -> {1, 2}
      [] scan = "delete_first" -> {0}

FreshVacuum(g) == [NoVacuum EXCEPT !.src_next = g, !.dest_next = g]

RunVacuum(times) ==
    IF times = 0
    THEN operation' = "idle" /\ vacuums' = 0 /\ group' = NULL /\ vac' = NoVacuum
    ELSE /\ operation' = "vacuum" /\ vacuums' = times
         /\ vac' = FreshVacuum(group)
         /\ UNCHANGED group

EndScan ==
    /\ Scanning
    /\ it' = NoIterator /\ scanned' = {} /\ visited' = <<>>
    /\ UNCHANGED <<groupVars, sealed, harmed>>

ScanReturn ==
    /\ EndScan /\ it.is_empty
    /\ \E times \in VacuumsAfter(operation) : RunVacuum(times)
    /\ UNCHANGED <<data, rows>>

ScanFails ==
    /\ EndScan /\ ~it.is_empty
    /\ RunVacuum(0)
    /\ UNCHANGED <<data, rows>>

(* find_first_maybe_delete runs vacuum after the one item it deletes.      *)
DeleteFirst ==
    /\ operation = "delete_first" /\ EndScan /\ ~it.is_empty
    /\ data' = Deleted
    /\ rows' = [rows EXCEPT ![group] = @ \ {Current.item}]
    /\ RunVacuum(1)
-----------------------------------------------------------------------------
(* vacuum.  A source page and the number of ids it will look at; the       *)
(* destination goes along until the first deleted item.                    *)
Vacuuming == operation = "vacuum" /\ ~harmed
PageDone == vac.index = vac.ids

(* Mutant: page_iterator_next leaves next_page_id where it was.            *)
VacuumPage_Stays ==
    LET p == vac.src_next
        next == [vac EXCEPT !.src = p, !.index = 0, !.ids = data[p].start,
                     !.age = @ + 1]
    IN  /\ Vacuuming /\ PageDone /\ p # NULL
        /\ vac' = IF vac.started THEN next
                  ELSE [next EXCEPT !.dest = vac.dest_next, !.age = 0]
        /\ harmed' = (vac.started /\ p \in sealed)
        /\ UNCHANGED <<groupVars, data, control, scanning, rows, sealed>>

VacuumPage ==
    LET p == vac.src_next
        next == [vac EXCEPT !.src = p, !.src_next = header[p].next,
                     !.index = 0, !.ids = data[p].start, !.age = @ + 1]
    IN  /\ Vacuuming /\ PageDone /\ p # NULL
        /\ vac' = IF vac.started THEN next
                  ELSE [next EXCEPT !.dest = vac.dest_next,
                            !.dest_next = header[vac.dest_next].next, !.age = 0]
        /\ harmed' = (vac.started /\ p \in sealed)
        /\ UNCHANGED <<groupVars, data, control, scanning, rows, sealed>>

(* One id of the source page.  A deleted item is counted off.              *)
SourceId == data[vac.src].ids[vac.index + 1]
Counted_Every ==  \* mutants: every item is counted off, or none
    [data EXCEPT ![vac.src].item_amount = @ - 1]
Counted_None == data

Counted ==
    IF SourceId.deleted THEN [data EXCEPT ![vac.src].item_amount = @ - 1] ELSE data
HasRoom == EntrySize(SourceId.size) <= vac.dest_data - vac.dest_id

VacuumItem ==
    /\ Vacuuming /\ ~PageDone
    /\ UNCHANGED <<groupVars, control, scanning, rows>>

VacuumStarts ==
    /\ VacuumItem /\ ~vac.started /\ SourceId.deleted
    /\ data' = Counted
    /\ vac' = [vac EXCEPT !.started = TRUE, !.index = @ + 1,
                   !.dest_id = vac.index,
                   !.dest_data = SourceId.offset + SourceId.size]
    /\ UNCHANGED <<sealed, harmed>>

VacuumSkips ==
    /\ VacuumItem /\ vac.started = SourceId.deleted
    /\ data' = Counted
    /\ vac' = [vac EXCEPT !.index = @ + 1]
    /\ UNCHANGED <<sealed, harmed>>

(* The item goes to the end of the free space of page dest, below "end":   *)
(* first the data, then the offset in its id, then the id.                 *)
Moved(pages, dest, dest_id, end) ==
    LET p == vac.src
        id == [SourceId EXCEPT !.offset = end - SourceId.size]
        renamed == [pages EXCEPT ![p].ids[vac.index + 1] = id]
        moved == [renamed EXCEPT ![dest].ids = Written(@, dest_id + 1, id, id.size)]
    IN  IF p = dest THEN moved
        ELSE [moved EXCEPT ![dest].item_amount = @ + 1, ![p].item_amount = @ - 1]

AfterMove(dest_id, end) ==
    [vac EXCEPT !.index = @ + 1, !.dest_id = dest_id + 1,
        !.dest_data = end - SourceId.size, !.age = 0]

VacuumMoves ==
    /\ VacuumItem /\ vac.started /\ ~SourceId.deleted /\ HasRoom
    /\ data' = Moved(data, vac.dest, vac.dest_id, vac.dest_data)
    /\ vac' = AfterMove(vac.dest_id, vac.dest_data)
    /\ UNCHANGED <<sealed, harmed>>

(* The free space of the destination, written through a pointer that is as *)
(* old as the pages loaded since.                                          *)
FirstN(s, n) == SubSeq(s, 1, Min({n, Len(s)}))

Closed_KeepsEnd ==  \* mutant: the end of the free space is not written
    [data EXCEPT ![vac.dest] = [@ EXCEPT !.start = vac.dest_id,
        !.ids = FirstN(data[vac.dest].ids,
                       Max({1, vac.dest_id, data[vac.dest].item_amount}))]]

Closed ==
    [data EXCEPT ![vac.dest] = [@ EXCEPT !.start = vac.dest_id, !.end = vac.dest_data,
        !.ids = FirstN(data[vac.dest].ids,
                       Max({1, vac.dest_id, data[vac.dest].item_amount}))]]

CloseDest ==
    /\ sealed' = IF data[vac.dest].item_amount = vac.dest_id
                 THEN sealed \ {vac.dest} ELSE sealed \cup {vac.dest}
    /\ harmed' = (vac.age >= CacheSize)

NoRoom ==
    /\ VacuumItem /\ vac.started /\ ~SourceId.deleted /\ ~HasRoom
    /\ CloseDest

(* The item opens the next page, unless it is the first one there already: *)
(* then it stays, and so does dest_item_index.                             *)
StaysFirst == vac.index = 0 /\ vac.dest_next = vac.src
OnNextDest ==
    [vac EXCEPT !.dest = vac.dest_next, !.dest_next = header[vac.dest_next].next,
        !.dest_id = 0, !.age = 0]

VacuumMovesOn ==
    /\ NoRoom /\ ~StaysFirst
    /\ data' = Moved(Closed, vac.dest_next, 0, Capacity)
    /\ vac' = [AfterMove(0, Capacity) EXCEPT !.dest = OnNextDest.dest,
                   !.dest_next = OnNextDest.dest_next]

VacuumGivesUp ==
    /\ NoRoom /\ StaysFirst
    /\ data' = Closed
    /\ vac' = [OnNextDest EXCEPT !.started = FALSE, !.index = @ + 1]

StillToRun == vacuums - 1

(* No source page is left: the pages behind the destination are freed, and *)
(* vacuum returns.                                                         *)
VacuumEnd ==
    /\ Vacuuming /\ PageDone /\ vac.src_next = NULL
    /\ data' = Closed
    /\ CloseDest
    /\ IF vac.dest_next # NULL
       THEN /\ PG!FreeRest(group, vac.dest)
            /\ operation' = "free"
            /\ UNCHANGED <<vacuums, group, vac>>
       ELSE RunVacuum(StillToRun) /\ UNCHANGED groupVars
    /\ UNCHANGED <<scanning, rows>>

FreePage ==
    /\ operation = "free" /\ ~harmed
    /\ PG!FreePageCurrent
    /\ data' = Forgotten(next_page_id)
    /\ harmed' = damaged'
    /\ UNCHANGED <<control, scanning, vac, rows, sealed>>

FreeReturn ==
    /\ operation = "free" /\ ~harmed
    /\ PG!FreeRestReturn
    /\ RunVacuum(StillToRun)
    /\ UNCHANGED <<data, scanning, rows, sealed, harmed>>

ScanStep ==
    \/ PassItem
    \/ \E t \in Items : UpdateItem(t)
    \/ DeleteItem
    \/ DeleteFirst
    \/ ScanReturn
    \/ ScanFails

VacuumStep ==
    \/ VacuumPage
    \/ VacuumStarts
    \/ VacuumSkips
    \/ VacuumMoves
    \/ VacuumMovesOn
    \/ VacuumGivesUp
    \/ VacuumEnd
    \/ FreePage
    \/ FreeReturn

Running == ScanStep \/ VacuumStep \/ DeleteGroupStep

Next ==
    \/ CreateGroup
    \/ \E g \in PG!Groups : DeleteGroup(g)
    \/ \E g \in PG!Groups, t \in Items : Insert(g, t)
    \/ \E g \in PG!Groups, kind \in Scans : ScanBegin(g, kind)
    \/ Running
    \/ Restart

Spec == Init /\ [][Next]_vars

(* One thread runs a call to its end.                                      *)
FairSpec == Spec /\ WF_vars(Running)
-----------------------------------------------------------------------------
TypeOK ==
    /\ PG!TypeOK
    /\ DOMAIN data = PG!Pages
    /\ \A p \in PG!Pages :
        /\ data[p].item_amount \in 0 .. Capacity
        /\ data[p].start \in 0 .. Capacity
        /\ data[p].end \in -HeaderSize .. Capacity
        /\ Len(data[p].ids) <= Capacity
    /\ operation \in Scans \cup {"idle", "vacuum", "free"}
    /\ vacuums \in 0 .. 2
    /\ group \in PG!PageIds
    /\ it \in [page : PG!PageIds, next_page : PG!PageIds, index : Nat,
               is_empty : BOOLEAN]
    /\ vac \in [src : PG!PageIds, src_next : PG!PageIds, index : Nat, ids : Nat,
                dest : PG!PageIds, dest_next : PG!PageIds, dest_id : Nat,
                dest_data : Nat, started : BOOLEAN, age : Nat]
    /\ DOMAIN rows \subseteq PG!Groups
    /\ \A g \in DOMAIN rows : rows[g] \subseteq Items
    /\ scanned \subseteq Items
    /\ sealed \subseteq PG!Pages
    /\ harmed \in BOOLEAN

(* Between the steps of vacuum, and while the model follows the code.      *)
Settled == operation # "vacuum" /\ ~harmed
PagesOf(g) == Range(chain[g])
IdsOf(p) == 1 .. data[p].item_amount
IdAt(p, i) == data[p].ids[i]

(* The data of a page's items lies behind its ids, without gaps and in     *)
(* their order, whatever was inserted, deleted, changed and moved; and the *)
(* free space is what is left between, except in the pages a vacuum that   *)
(* had no free space to fill has sealed.                                   *)
PagesPacked ==
    Settled => \A g \in DOMAIN rows : \A p \in PagesOf(g) :
        LET amount == data[p].item_amount
            end(i) == IdAt(p, i).offset + IdAt(p, i).size
        IN  /\ \A i \in IdsOf(p) :
                /\ IdAt(p, i).offset >= amount
                /\ IF i = 1 THEN end(i) <= Capacity ELSE end(i) = IdAt(p, i - 1).offset
            /\ p \notin sealed /\ operation # "free" =>
                /\ data[p].start = amount
                /\ amount # 0 => data[p].end = IdAt(p, amount).offset

(* A group holds exactly the records that were put into it and neither     *)
(* changed nor deleted since, each once and with its data, through every   *)
(* insert, update, delete and vacuum.                                      *)
Present(g) ==
    {x \in PagesOf(g) \X (1 .. Capacity) :
        x[2] \in IdsOf(x[1]) /\ ~IdAt(x[1], x[2]).deleted}
RowsKept ==
    Settled => \A g \in DOMAIN rows :
        /\ {IdAt(x[1], x[2]).item : x \in Present(g)} = rows[g]
        /\ Cardinality(Present(g)) = Cardinality(rows[g])

(* A scan gives every record that was there when it began, once, although  *)
(* it deletes and changes records on its way.                              *)
ScanOnce ==
    Scanning =>
        /\ Range(visited) \subseteq scanned
        /\ Cardinality(Range(visited)) = Len(visited)
        /\ it.is_empty => Range(visited) = scanned

NoneDeleted(g, skipped) ==
    \A p \in PagesOf(g) \ skipped : \A i \in IdsOf(p) : ~IdAt(p, i).deleted

(* When an update or a delete is over, no page of its group has a deleted  *)
(* item left, but in pages that a vacuum had sealed before.                *)
VacuumReclaims ==
    [][\A g \in DOMAIN rows, skipped \in {sealed} :
          /\ g = group /\ operation \in {"vacuum", "free"}
          /\ operation' = "idle" /\ ~harmed'
          => NoneDeleted(g, skipped)']_vars

(* Every call returns: neither the scans, which run over pages that may be *)
(* added to or emptied, nor vacuum, which runs behind itself, go on        *)
(* forever.                                                                *)
CallsReturn ==
    operation # "idle" \/ phase # "idle" ~> Idle \/ harmed

(* "iterate over all items in src_page", says vacuum of its inner loop.    *)
VacuumSeesAllItems ==
    operation = "vacuum" /\ vac.src # NULL /\ vac.index = 0 =>
        vac.ids >= data[vac.src].item_amount

(* page_data_manager_insert refuses an item that exceeds the size of a     *)
(* page: what it takes has room beside the ids.                            *)
InsertedItemsFit ==
    Settled \/ harmed => \A g \in DOMAIN rows : \A p \in PagesOf(g) :
        data[p].start <= data[p].end
=============================================================================
