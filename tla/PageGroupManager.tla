-------------------------- MODULE PageGroupManager --------------------------
(***************************************************************************)
(* Page groups and the free list, page_group_manager.c.                    *)
(*                                                                         *)
(* A group is a list of pages linked by the page headers: its first page   *)
(* names it and has in "previous" the group's last page.  The free list    *)
(* runs from first_free_page to last_free_page of the application header.  *)
(* The page headers are what page_manager_get_page shows (PageManager says *)
(* when that is what was written last); a restart is a clean one, which    *)
(* keeps every page and, of the application header, what was flushed.      *)
(*                                                                         *)
(* History variables: "chain" and "free" hold the pages each group and the *)
(* free list were given, "leaked" those that nothing reaches any more,     *)
(* "shortened" the groups whose last page was freed, and "damaged" becomes *)
(* true at a step that links a page into a list it does not belong to:     *)
(* a page added to a shortened group, or one freed behind a last free page *)
(* that is in use since a restart.                                         *)
(***************************************************************************)
EXTENDS Naturals, Sequences, SequencesExt

CONSTANT MaxPage    \* bound: how many pages are ever created

ASSUME GroupAssumption == MaxPage \in Nat \ {0}

VARIABLES
    page_amount,
    header,       \* struct page_header of every page
    app,          \* the application header in memory
    saved_app,    \* ... and in the file
    phase,        \* the loop that is running: delete_group or vacuum's last
    loop_group,   \* the group it runs over
    next_page_id, \* the page of its next turn
    chain, free, leaked, shortened, damaged

links == <<page_amount, header>>
loop == <<phase, loop_group, next_page_id>>
history == <<chain, free, leaked, shortened, damaged>>
vars == <<links, app, saved_app, loop, history>>

Pages == 1 .. MaxPage
PAGE_ID_NULL == 0
PageIds == Pages \cup {PAGE_ID_NULL}
PageHeader == [previous : PageIds, next : PageIds]
ApplicationHeader ==
    [meta_page : PageIds, first_free_page : PageIds, last_free_page : PageIds]

NullHeader == [previous |-> PAGE_ID_NULL, next |-> PAGE_ID_NULL]
DefaultHeader == [meta_page |-> PAGE_ID_NULL, first_free_page |-> PAGE_ID_NULL,
                  last_free_page |-> PAGE_ID_NULL]

Groups == DOMAIN chain
(* A page leaves a list, in which it is only once.                         *)
Without(s, p) == RemoveFirst(s, p)

Init ==
    /\ page_amount = 0
    /\ header = [p \in Pages |-> NullHeader]
    /\ app = DefaultHeader
    /\ saved_app = DefaultHeader
    /\ phase = "idle"
    /\ loop_group = PAGE_ID_NULL
    /\ next_page_id = PAGE_ID_NULL
    /\ chain = <<>>
    /\ free = <<>>
    /\ leaked = {}
    /\ shortened = {}
    /\ damaged = FALSE
-----------------------------------------------------------------------------
(* Calls follow each other in one thread.  What they do behind a damaged   *)
(* list is not followed any further.                                       *)
Idle == phase = "idle" /\ ~damaged

(* get_new_page and create_page: the first free page, or a new one when    *)
(* there is none.                                                          *)
HasFreePage == app.first_free_page # PAGE_ID_NULL
NewPage_OldAmount ==  \* mutant: the id is read before it is counted up
    IF HasFreePage THEN app.first_free_page ELSE page_amount
NewPage == IF HasFreePage THEN app.first_free_page ELSE page_amount + 1

CreatedHeader ==
    LET second == header[app.first_free_page].next
        moved == IF HasFreePage /\ second # PAGE_ID_NULL
                 THEN [header EXCEPT ![second].previous = PAGE_ID_NULL]
                 ELSE header
    IN  [moved EXCEPT ![NewPage] = NullHeader]

TakePage_KeepsFirst ==  \* mutant: the free list keeps the page
    IF HasFreePage THEN UNCHANGED <<page_amount, app, saved_app, free, leaked>>
    ELSE /\ page_amount < MaxPage
         /\ page_amount' = page_amount + 1
         /\ UNCHANGED <<app, saved_app, free, leaked>>

TakePage ==
    IF HasFreePage
    THEN LET second == header[app.first_free_page].next
         IN  /\ app' = [app EXCEPT !.first_free_page = second,
                    !.last_free_page = IF second = PAGE_ID_NULL
                                       THEN PAGE_ID_NULL ELSE @]
             /\ saved_app' = app'
             /\ free' = Without(free, app.first_free_page)
             /\ leaked' = leaked \ {app.first_free_page}
             /\ UNCHANGED page_amount
    ELSE /\ page_amount < MaxPage
         /\ page_amount' = page_amount + 1
         /\ UNCHANGED <<app, saved_app, free, leaked>>

(* page_group_manager_create_group                                         *)
CreateGroup ==
    /\ Idle
    /\ TakePage
    /\ header' = [CreatedHeader EXCEPT ![NewPage].previous = NewPage]
    /\ chain' = [g \in Groups \cup {NewPage} |->
                    IF g = NewPage THEN <<g>> ELSE chain[g]]
    /\ shortened' = shortened \ {NewPage}
    /\ UNCHANGED <<loop, damaged>>

(* Mutants: the first page does not learn its new last page; the new page  *)
(* goes behind the newest page, whosever it is.                            *)
AddPage_KeepsTail(g) ==
    LET n == NewPage
        old == CreatedHeader[g].previous
        new == [CreatedHeader EXCEPT ![n] = [previous |-> old, next |-> PAGE_ID_NULL]]
    IN  /\ Idle
        /\ TakePage
        /\ old # PAGE_ID_NULL
        /\ header' = [new EXCEPT ![old].next = n]
        /\ chain' = [chain EXCEPT ![g] = Append(@, n)]
        /\ damaged' = (damaged \/ g \in shortened)
        /\ UNCHANGED <<loop, shortened>>

AddPage_BehindNewest(g) ==
    LET n == NewPage
        first == [CreatedHeader EXCEPT ![g].previous = n]
        new == [first EXCEPT ![n] = [previous |-> page_amount, next |-> PAGE_ID_NULL]]
    IN  /\ Idle
        /\ TakePage
        /\ header' = [new EXCEPT ![page_amount].next = n]
        /\ chain' = [chain EXCEPT ![g] = Append(@, n)]
        /\ damaged' = (damaged \/ g \in shortened)
        /\ UNCHANGED <<loop, shortened>>

(* page_group_manager_add_page.  The last page is read from the first one  *)
(* after the new page was taken; the four writes may meet in one page.     *)
AddPage(g) ==
    LET n == NewPage
        old == CreatedHeader[g].previous
        first == [CreatedHeader EXCEPT ![g].previous = n]
        new == [first EXCEPT ![n] = [previous |-> old, next |-> PAGE_ID_NULL]]
    IN  /\ Idle
        /\ TakePage
        /\ old # PAGE_ID_NULL
        /\ header' = [new EXCEPT ![old].next = n]
        /\ chain' = [chain EXCEPT ![g] = Append(@, n)]
        /\ damaged' = (damaged \/ g \in shortened)
        /\ UNCHANGED <<loop, shortened>>

(* page_group_manager_set_meta_group_id                                    *)
SetMetaGroup(g) ==
    /\ Idle /\ app.meta_page = PAGE_ID_NULL
    /\ app' = [app EXCEPT !.meta_page = g]
    /\ saved_app' = app'
    /\ UNCHANGED <<links, loop, history>>

(* Mutant: the last free page is not linked to the new one.                *)
FreedHeader_NoNext(h, p) ==
    [h EXCEPT ![p] = [previous |-> app.last_free_page, next |-> PAGE_ID_NULL]]

(* page_group_manager_free_page on page p, with the page headers h.  The   *)
(* application header is changed in memory only, and "next" of a page that *)
(* joins others is left alone.                                             *)
FreedHeader(h, p) ==
    LET last == app.last_free_page
    IN  IF last = PAGE_ID_NULL
        THEN [h EXCEPT ![p] = NullHeader]
        ELSE [[h EXCEPT ![last].next = p] EXCEPT ![p].previous = last]

PagesTo(p) ==
    SubSeq(free, 1, CHOOSE i \in DOMAIN free : free[i] = p)

FreePage(h, p) ==
    LET last == app.last_free_page
    IN  /\ header' = FreedHeader(h, p)
        /\ app' = [app EXCEPT !.last_free_page = p,
              !.first_free_page = IF last = PAGE_ID_NULL THEN p ELSE @]
        /\ IF last = PAGE_ID_NULL \/ last \in Range(free)
           THEN LET kept == IF last = PAGE_ID_NULL THEN <<>> ELSE PagesTo(last)
                IN  /\ free' = Append(kept, p)
                    /\ leaked' = leaked \cup (Range(free) \ Range(kept))
                    /\ UNCHANGED damaged
           ELSE /\ leaked' = leaked \cup {p}
                /\ damaged' = TRUE
                /\ UNCHANGED free
        /\ UNCHANGED <<page_amount, saved_app>>

(* page_group_manager_delete_group frees the pages from the first one on   *)
(* and then flushes the application header.                                *)
DeleteGroup(g) ==
    /\ Idle /\ g # app.meta_page
    /\ phase' = "delete" /\ loop_group' = g /\ next_page_id' = g
    /\ UNCHANGED <<links, app, saved_app, history>>

DeleteGroupTurn ==
    LET p == next_page_id
    IN  /\ phase = "delete" /\ p # PAGE_ID_NULL
        /\ next_page_id' = header[p].next
        /\ FreePage(header, p)
        /\ chain' = [chain EXCEPT ![loop_group] = Without(@, p)]
        /\ UNCHANGED <<phase, loop_group, shortened>>

(* Mutant: the end of the list is taken for that of an inverse iterator.   *)
DeleteGroupReturn_AtFirst ==
    /\ phase = "delete" /\ next_page_id = loop_group
    /\ saved_app' = app
    /\ phase' = "idle" /\ loop_group' = PAGE_ID_NULL
    /\ UNCHANGED <<links, app, next_page_id, history>>

DeleteGroupReturn ==
    /\ phase = "delete" /\ next_page_id = PAGE_ID_NULL
    /\ saved_app' = app
    /\ phase' = "idle" /\ loop_group' = PAGE_ID_NULL
    /\ chain' = [g \in Groups \ {loop_group} |-> chain[g]]
    /\ shortened' = shortened \ {loop_group}
    /\ leaked' = leaked \cup Range(chain[loop_group])
    /\ UNCHANGED <<links, app, next_page_id, free, damaged>>

(* The loop that ends vacuum in page_data_manager.c: an iterator stands at *)
(* page p of the group, and page_group_manager_free_page_current frees     *)
(* each page it still finds behind p.                                      *)
FreeRest(g, p) ==
    /\ Idle /\ header[p].next # PAGE_ID_NULL
    /\ phase' = "vacuum" /\ loop_group' = g /\ next_page_id' = header[p].next
    /\ UNCHANGED <<links, app, saved_app, history>>

Unlinked_Not(p) == header  \* mutant: the pages around keep their links

(* page_group_manager_free_page_current links the pages around it, and     *)
(* leaves the first page's "previous" alone when the last page goes.       *)
Unlinked(p) ==
    LET before == header[p].previous
        after == header[p].next
        h == IF before = PAGE_ID_NULL THEN header
             ELSE [header EXCEPT ![before].next = after]
    IN  IF after = PAGE_ID_NULL THEN h ELSE [h EXCEPT ![after].previous = before]

FreePageCurrent ==
    LET p == next_page_id
    IN  /\ phase = "vacuum" /\ p # PAGE_ID_NULL
        /\ next_page_id' = header[p].next
        /\ FreePage(Unlinked(p), p)
        /\ chain' = [chain EXCEPT ![loop_group] = Without(@, p)]
        /\ shortened' = IF header[p].next = PAGE_ID_NULL
                        THEN shortened \cup {loop_group} ELSE shortened
        /\ UNCHANGED <<phase, loop_group>>

FreeRestReturn ==
    /\ phase = "vacuum" /\ next_page_id = PAGE_ID_NULL
    /\ phase' = "idle" /\ loop_group' = PAGE_ID_NULL
    /\ UNCHANGED <<links, app, saved_app, next_page_id, history>>

(* page_group_manager_destroy and a later page_group_manager_ctor: the     *)
(* pages are flushed, the application header is not.                       *)
Restart ==
    /\ Idle /\ app # saved_app
    /\ app' = saved_app
    /\ IF saved_app.first_free_page = PAGE_ID_NULL
       THEN free' = <<>> /\ leaked' = leaked \cup Range(free)
       ELSE UNCHANGED <<free, leaked>>
    /\ UNCHANGED <<links, saved_app, loop, chain, shortened, damaged>>

LoopStep ==
    \/ DeleteGroupTurn
    \/ DeleteGroupReturn
    \/ FreePageCurrent
    \/ FreeRestReturn

Next ==
    \/ CreateGroup
    \/ \E g \in Groups : AddPage(g)
    \/ \E g \in Groups : SetMetaGroup(g)
    \/ \E g \in Groups : DeleteGroup(g)
    \/ \E g \in Groups : \E p \in Range(chain[g]) : FreeRest(g, p)
    \/ LoopStep
    \/ Restart

Spec == Init /\ [][Next]_vars

(* The loops run inside one call and go on until they are done.            *)
FairSpec == Spec /\ WF_vars(LoopStep)
-----------------------------------------------------------------------------
TypeOK ==
    /\ page_amount \in 0 .. MaxPage
    /\ header \in [Pages -> PageHeader]
    /\ app \in ApplicationHeader
    /\ saved_app \in ApplicationHeader
    /\ phase \in {"idle", "delete", "vacuum"}
    /\ loop_group \in PageIds
    /\ next_page_id \in PageIds
    /\ Groups \subseteq 1 .. page_amount
    /\ \A g \in Groups : chain[g] \in Seq(Pages)
    /\ free \in Seq(Pages)
    /\ leaked \subseteq Pages
    /\ shortened \subseteq Groups
    /\ damaged \in BOOLEAN

(* The pages of s are linked forward, and the last one ends the list.      *)
Linked(s) ==
    \A i \in DOMAIN s :
        header[s[i]].next = IF i = Len(s) THEN PAGE_ID_NULL ELSE s[i + 1]
LinkedBack(s) ==
    \A i \in 2 .. Len(s) : header[s[i]].previous = s[i - 1]

Settled == {g \in Groups : g # loop_group \/ phase = "vacuum"}

(* Walking a group from its first page meets exactly the pages it was      *)
(* given and was not relieved of, whatever other groups and the free list  *)
(* went through, while a loop runs as between calls.                       *)
GroupsLinked ==
    ~damaged => \A g \in Settled :
        /\ chain[g] # <<>> /\ chain[g][1] = g
        /\ Linked(chain[g]) /\ LinkedBack(chain[g])

(* The first page's "previous" is the group's last page, where add_page    *)
(* will link the next one; only a group that lost its last page breaks it. *)
TailKnown ==
    ~damaged => \A g \in Settled \ shortened :
        header[g].previous = Last(chain[g])

(* The free list is one list between the two ends in the application       *)
(* header.  After a restart the last end may be behind the list's, never   *)
(* outside of it as long as it is free.                                    *)
FreeListLinked ==
    ~damaged /\ phase = "idle" =>
        /\ free = <<>> => app.first_free_page = PAGE_ID_NULL
        /\ free # <<>> => app.first_free_page = free[1]
        /\ app.first_free_page = PAGE_ID_NULL <=> app.last_free_page = PAGE_ID_NULL
        /\ Linked(free)

(* No page is in two groups or in a group and free, and none is lost but   *)
(* through a restart.                                                      *)
Owners(p) ==
    {<<"group", g>> : g \in {g \in Groups : p \in Range(chain[g])}}
        \cup {<<"free">> : i \in {i \in DOMAIN free : free[i] = p}}
        \cup (IF p \in leaked THEN {<<"leaked">>} ELSE {})
OneOwner ==
    ~damaged => \A p \in 1 .. page_amount : \E o \in Owners(p) : Owners(p) = {o}

(* A step over one group leaves the headers of every other group's pages   *)
(* as they were: tables do not disturb each other.                         *)
OthersUntouched ==
    [][~damaged' => \A g \in Groups \cap DOMAIN chain' :
          chain'[g] = chain[g] /\ g # loop_group =>
              \A p \in Range(chain[g]) : header'[p] = header[p]]_vars

(* delete_group and the end of vacuum come to an end: neither walks in a   *)
(* circle.                                                                 *)
LoopsEnd == phase # "idle" /\ ~damaged ~> phase = "idle" \/ damaged
=============================================================================
