---------------------------- MODULE TableManager ----------------------------
(***************************************************************************)
(* The catalogue of table_manager.c: TABLE_DATA_TABLE and                  *)
(* TABLE_COLUMNS_TABLE, the meta page with the next table id, and the page *)
(* groups the tables own.  One action is one call into page_data_manager,  *)
(* because each of them may fail and nothing that was done before is       *)
(* undone; calls do not overlap.                                           *)
(*                                                                         *)
(* A catalogue table is a set of records.  The cache saves a page that it  *)
(* has marked altered, and page_manager_get_page marks a page only when it *)
(* finds it cached.  A scan gets each page twice, to go to it and to look  *)
(* at it, and create_table and drop_table scan TABLE_DATA_TABLE and the    *)
(* meta page before they write to them; but a record is inserted into      *)
(* TABLE_COLUMNS_TABLE through pages that may have been got once.  "mark"  *)
(* follows the two pages an insert looks at, "unsaved" the records on one  *)
(* that is not marked, and "faded" those that were lost with it.  In the   *)
(* same way free_page gets the last free page once, to link the next one   *)
(* to it: "unlinked" are the groups behind such a link.                    *)
(*                                                                         *)
(* What a call that stops half-way leaves behind has a name: "orphans" are *)
(* page groups nothing refers to, "unfinished" the ids of tables that were *)
(* not created or dropped to the end, and "unborn" says that the           *)
(* application header names a meta page that was never written.            *)
(***************************************************************************)
EXTENDS Integers, Sequences, FiniteSets

CONSTANTS
    Names,       \* table names, sequences of letters
    Schemas,     \* what tables are created with: lists of column names
    Oversized,   \* names of tables and columns whose record exceeds a page
    Groups,      \* page groups
    MaxId,       \* bound: table ids
    IOErrors,    \* calls into page_data_manager may fail
    Crashes,     \* the process may die (bound: once)
    NULL

ASSUME TableAssumption ==
    /\ Names \subseteq Seq(Nat)
    /\ Schemas \subseteq Seq(Seq(Nat))
    /\ NULL \notin Groups
    /\ MaxId \in Nat
    /\ IOErrors \in BOOLEAN /\ Crashes \in BOOLEAN

VARIABLES
    phase,        \* closed, starting, open
    meta_group,   \* of the application header, which is written at once
    next_table_id,\* of the meta page; 0 if the page has no contents
    tables,       \* the records of TABLE_DATA_TABLE
    columns,      \* the records of TABLE_COLUMNS_TABLE
    allocated,    \* the page groups that are not free
    own,          \* the groups of the meta page and the catalogue tables
    flushed,      \* all of this when the cache was last flushed
    call,         \* the running call
    mark,         \* of the first and the last page of TABLE_COLUMNS_TABLE
    unsaved,      \* the column records on each of them while it is clean
    unlinked,     \* free groups behind a link on a page that is clean
    orphans, unfinished, faded, unborn, crashed

catalogue == <<meta_group, next_table_id, tables, columns, allocated, own>>
cached == <<mark, unsaved, unlinked>>
named == <<orphans, unfinished, faded, unborn, crashed>>
vars == <<phase, catalogue, flushed, call, cached, named>>

Ids == 1 .. MaxId
TableRecords == [id : Ids, name : Names, group : Groups, columns_amount : Nat]
ColumnRecords == [id : Ids, index : Nat, name : Seq(Nat)]

NoCall == [op |-> "none", step |-> "done"]

(* A page is not there yet, not cached, or cached and marked or not.       *)
Places == {"first", "last"}
Marks == {"none", "away", "clean", "altered"}
AllSaved == [p \in Places |-> {}]
Unsaved == unsaved["first"] \cup unsaved["last"]

(* strncmp over the length of the shorter string.                          *)
str_eq(a, b) ==
    LET limit == IF Len(a) < Len(b) THEN Len(a) ELSE Len(b)
    IN  \A k \in 1 .. limit : a[k] = b[k]

Matching_Whole(name) == {t \in tables : t.name = name}
Matching(name) == {t \in tables : str_eq(t.name, name)}
ColumnsOf(id) == {c \in columns : c.id = id}
FadedOf(id) == {c \in faded : c.id = id}

Fail(op) == call.op = op /\ IOErrors
Return == call' = NoCall
Goto(step) == call' = [call EXCEPT !.step = step]
-----------------------------------------------------------------------------
Init ==
    /\ phase = "closed"
    /\ meta_group = NULL
    /\ next_table_id = 0
    /\ tables = {} /\ columns = {}
    /\ allocated = {} /\ own = {}
    /\ flushed = [next_table_id |-> 0, tables |-> {}, columns |-> {},
                  allocated |-> {}]
    /\ call = NoCall
    /\ mark = [p \in Places |-> "none"] /\ unsaved = AllSaved
    /\ unlinked = {}
    /\ orphans = {} /\ unfinished = {} /\ faded = {}
    /\ unborn = FALSE /\ crashed = FALSE
-----------------------------------------------------------------------------
(* page_manager_get_page: a page that is cached is marked, one read from   *)
(* the file has the mark of the entry it comes into.                       *)
AfterGet_NotMarked(m) ==  \* mutant: load_page_from_cache marks nothing
    IF m \in {"clean", "altered"} THEN {m}
    ELSE IF m = "away" THEN {"clean", "altered"} ELSE {"none"}

AfterGet(m) ==
    IF m \in {"clean", "altered"} THEN {"altered"}
    ELSE IF m = "away" THEN {"clean", "altered"} ELSE {"none"}

Get(places) ==
    /\ mark' \in [Places -> Marks]
    /\ \A p \in Places :
          IF p \in places THEN mark'[p] \in AfterGet(mark[p]) ELSE mark'[p] = mark[p]

(* A loop over the group gets each page twice, from the first one on.      *)
Prefixes == {{}, {"first"}, Places}
GetTwice(places) ==
    mark' = [p \in Places |->
        IF p \in places /\ mark[p] # "none" THEN "altered" ELSE mark[p]]

(* A page that is marked will be saved with all that is on it.             *)
StillUnsaved == [p \in Places |-> IF mark'[p] = "clean" THEN unsaved[p] ELSE {}]

Away(places) ==
    [p \in Places |-> IF p \in places /\ mark[p] # "none" THEN "away" ELSE mark[p]]

(* page_manager_flush and the end of the process: what is on a clean page  *)
(* stays in the cache, and is gone with it.                                *)
Flush ==
    /\ flushed' = [next_table_id |-> next_table_id, tables |-> tables,
                   columns |-> columns \ Unsaved, allocated |-> allocated \cup unlinked]
    /\ mark' = Away({p \in Places : mark[p] = "altered"})
    /\ UNCHANGED <<columns, allocated, unsaved, unlinked, faded>>

Close ==
    /\ columns' = columns \ Unsaved /\ faded' = faded \cup Unsaved
    /\ allocated' = allocated \cup unlinked
    /\ flushed' = [next_table_id |-> next_table_id, tables |-> tables,
                   columns |-> columns', allocated |-> allocated']
    /\ mark' = Away(Places) /\ unsaved' = AllSaved /\ unlinked' = {}
-----------------------------------------------------------------------------
(* table_manager_ctor                                                      *)
Start ==
    /\ phase = "closed"
    /\ meta_group = NULL
    /\ phase' = "starting"
    /\ call' = [op |-> "start", step |-> "groups"]
    /\ UNCHANGED <<catalogue, flushed, cached, named>>

(* The meta page has its item.                                             *)
StartAgain ==
    /\ phase = "closed"
    /\ meta_group # NULL
    /\ next_table_id > 0
    /\ phase' = "open"
    /\ UNCHANGED <<catalogue, flushed, call, cached, named>>

(* META_PAGE_CONTENTS_MISSING, now and at every later start.               *)
StartFindsNothing ==
    /\ phase = "closed"
    /\ meta_group # NULL
    /\ next_table_id = 0
    /\ UNCHANGED vars

InitializeGroup ==
    /\ call.op = "start" /\ call.step = "groups"
    /\ Cardinality(own) < 3
    /\ \E g \in Groups \ allocated :
          /\ allocated' = allocated \cup {g}
          /\ own' = own \cup {g}
    /\ IF Cardinality(own) = 2
       THEN Goto("header") /\ mark' = [mark EXCEPT !["first"] = "altered"]
       ELSE Goto("groups") /\ UNCHANGED mark
    /\ UNCHANGED <<phase, meta_group, next_table_id, tables, columns, flushed,
                   unsaved, unlinked, named>>

InitializeHeader ==
    /\ call.op = "start" /\ call.step = "header"
    /\ \E g \in own : meta_group' = g
    /\ unborn' = TRUE
    /\ Goto("item")
    /\ UNCHANGED <<phase, next_table_id, tables, columns, allocated, own,
                   flushed, cached, orphans, unfinished, faded, crashed>>

InitializeItem_Zero ==
    /\ call.op = "start" /\ call.step = "item"
    /\ next_table_id' = 0
    /\ phase' = "open"
    /\ Return
    /\ UNCHANGED <<meta_group, tables, columns, allocated, own, flushed, cached,
                   named>>

InitializeItem ==
    /\ call.op = "start" /\ call.step = "item"
    /\ next_table_id' = 1
    /\ phase' = "open"
    /\ Return
    /\ UNCHANGED <<meta_group, tables, columns, allocated, own, flushed, cached,
                   named>>

(* The groups made so far stay; destroy writes what there is.              *)
StartFails ==
    /\ Fail("start")
    /\ phase' = "closed"
    /\ IF meta_group = NULL
       THEN own' = {} /\ orphans' = orphans \cup own
       ELSE UNCHANGED <<own, orphans>>
    /\ Close
    /\ Return
    /\ UNCHANGED <<meta_group, next_table_id, tables, unfinished, unborn, crashed>>
-----------------------------------------------------------------------------
Idle == phase = "open" /\ call.op = "none" /\ ~crashed

(* table_manager_create_table                                              *)
CreateTable(name, schema) ==
    /\ Idle
    /\ Matching(name) = {}
    /\ call' = [op |-> "create", step |-> "group", name |-> name,
                schema |-> schema, group |-> NULL, id |-> 0, index |-> 0]
    /\ UNCHANGED <<phase, catalogue, flushed, cached, named>>

CreateGroup ==
    /\ call.op = "create" /\ call.step = "group"
    /\ \E g \in Groups \ allocated :
          /\ allocated' = allocated \cup {g}
          /\ call' = [call EXCEPT !.group = g, !.step = "id"]
          /\ unlinked' \in {{}} \cup (IF g \in unlinked THEN {} ELSE {unlinked})
    /\ UNCHANGED <<phase, meta_group, next_table_id, tables, columns, own,
                   flushed, mark, unsaved, named>>

GetNextTableId ==
    /\ call.op = "create" /\ call.step = "id"
    /\ next_table_id <= MaxId
    /\ call' = [call EXCEPT !.id = next_table_id, !.step = "table"]
    /\ next_table_id' = next_table_id + 1
    /\ UNCHANGED <<phase, meta_group, tables, columns, allocated, own, flushed,
                   cached, named>>

InsertTableRecord ==
    /\ call.op = "create" /\ call.step = "table"
    /\ call.name \notin Oversized
    /\ tables' = tables \cup
          {[id |-> call.id, name |-> call.name, group |-> call.group,
            columns_amount |-> Len(call.schema)]}
    /\ unfinished' = unfinished \cup {call.id}
    /\ Goto("columns")
    /\ UNCHANGED <<phase, meta_group, next_table_id, columns, allocated, own,
                   flushed, cached, orphans, faded, unborn, crashed>>

(* page_data_manager_insert gets the first page of the group and, when     *)
(* there is no room, the last one; or it adds a page, for which it gets    *)
(* both again and the new one too.                                         *)
PutOn(place, record) ==
    /\ mark[place] # "none"
    /\ Get(IF place = "first" THEN {"first"} ELSE Places)
    /\ unsaved' = IF mark'[place] = "clean"
                  THEN [StillUnsaved EXCEPT ![place] = @ \cup {record}]
                  ELSE StillUnsaved

PutOnNewPage ==
    /\ mark' = [p \in Places |-> "altered"]
    /\ unsaved' = AllSaved

ColumnRecord == [id |-> call.id, index |-> call.index + 1,
                 name |-> call.schema[call.index + 1]]

InsertColumnRecord ==
    /\ call.op = "create" /\ call.step = "columns"
    /\ call.index < Len(call.schema)
    /\ ColumnRecord.name \notin Oversized
    /\ columns' = columns \cup {ColumnRecord}
    /\ PutOnNewPage \/ \E place \in Places : PutOn(place, ColumnRecord)
    /\ call' = [call EXCEPT !.index = @ + 1]
    /\ UNCHANGED <<phase, meta_group, next_table_id, tables, allocated, own,
                   flushed, unlinked, named>>

CreateReturns ==
    /\ call.op = "create" /\ call.step = "columns"
    /\ call.index = Len(call.schema)
    /\ unfinished' = unfinished \ {call.id}
    /\ Return
    /\ UNCHANGED <<phase, catalogue, flushed, cached, orphans, faded, unborn,
                   crashed>>

(* ITEM_SIZE_EXCEEDED, or the file: nothing is taken back.                 *)
CreateFails ==
    /\ call.op = "create"
    /\ \/ IOErrors
       \/ call.step = "table" /\ call.name \in Oversized
       \/ /\ call.step = "columns" /\ call.index < Len(call.schema)
          /\ call.schema[call.index + 1] \in Oversized
    /\ call.step = "columns" => call.index < Len(call.schema)
    /\ orphans' = orphans \cup
          (IF call.step \in {"id", "table"} THEN {call.group} ELSE {})
    /\ \E places \in Prefixes :
          /\ places # {} => IOErrors /\ call.step = "columns"
          /\ Get(places)
    /\ unsaved' = StillUnsaved
    /\ Return
    /\ UNCHANGED <<phase, catalogue, flushed, unlinked, unfinished, faded, unborn,
                   crashed>>
-----------------------------------------------------------------------------
(* table_manager_get_table: any record whose name matches, and the columns *)
(* with its id; it leaves nothing but marks.                               *)
GetTable(name) ==
    /\ Idle
    /\ Matching(name) # {}
    /\ GetTwice(Places)
    /\ unsaved' = StillUnsaved
    /\ UNCHANGED <<phase, catalogue, flushed, call, unlinked, named>>

(* table_manager_drop_table                                                *)
DropTable(name) ==
    /\ Idle
    /\ \E t \in Matching(name) :
          /\ tables' = tables \ {t}
          /\ call' = [op |-> "drop", step |-> "columns", id |-> t.id,
                      group |-> t.group]
          /\ unfinished' = unfinished \cup {t.id}
    /\ UNCHANGED <<phase, meta_group, next_table_id, columns, allocated, own,
                   flushed, cached, orphans, faded, unborn, crashed>>

(* The records are deleted in a loop over the group, and vacuum may leave  *)
(* the first page alone.                                                   *)
DeleteColumns ==
    /\ call.op = "drop" /\ call.step = "columns"
    /\ columns' = columns \ ColumnsOf(call.id)
    /\ faded' = faded \ FadedOf(call.id)
    /\ \/ GetTwice(Places)
       \/ mark' = [p \in Places |-> IF p = "first" THEN "altered" ELSE "none"]
    /\ unsaved' = StillUnsaved
    /\ Goto("group")
    /\ UNCHANGED <<phase, meta_group, next_table_id, tables, allocated, own,
                   flushed, unlinked, orphans, unfinished, unborn, crashed>>

DeleteGroup_Not ==
    /\ call.op = "drop" /\ call.step = "group"
    /\ unfinished' = unfinished \ {call.id}
    /\ Return
    /\ UNCHANGED <<phase, catalogue, flushed, cached, orphans, faded, unborn,
                   crashed>>

(* page_group_manager_delete_group: a group that is not alone in the list  *)
(* of free pages is linked to the last one of them.                        *)
DeleteGroup ==
    /\ call.op = "drop" /\ call.step = "group"
    /\ allocated' = allocated \ {call.group}
    /\ unlinked' \in {unlinked \cup {call.group}}
                      \cup (IF unlinked = {} THEN {{}} ELSE {})
    /\ unfinished' = unfinished \ {call.id}
    /\ Return
    /\ UNCHANGED <<phase, meta_group, next_table_id, tables, columns, own,
                   flushed, mark, unsaved, orphans, faded, unborn, crashed>>

(* Some of the column records may be deleted already, on pages the loop    *)
(* has got.                                                                *)
DropFails ==
    /\ Fail("drop")
    /\ \E gone \in SUBSET ColumnsOf(call.id), places \in Prefixes :
          /\ call.step = "group" => gone = {} /\ places = {}
          /\ \A p \in Places \ places : gone \cap unsaved[p] = {}
          /\ columns' = columns \ gone
          /\ GetTwice(places)
    /\ unsaved' = StillUnsaved
    /\ orphans' = orphans \cup {call.group}
    /\ Return
    /\ UNCHANGED <<phase, meta_group, next_table_id, tables, allocated, own,
                   flushed, unlinked, unfinished, faded, unborn, crashed>>
-----------------------------------------------------------------------------
(* Between the calls statements get other pages: an entry is reused, and a *)
(* clean page leaves the cache as it was read.                             *)
Evict(place) ==
    /\ Idle
    /\ mark[place] \in {"clean", "altered"}
    /\ mark' = Away({place})
    /\ unsaved' = StillUnsaved
    /\ columns' = columns \ unsaved[place]
    /\ faded' = faded \cup unsaved[place]
    /\ UNCHANGED <<phase, meta_group, next_table_id, tables, allocated, own,
                   flushed, call, unlinked, orphans, unfinished, unborn, crashed>>

(* The free page with the link is got again for a page of some table, or   *)
(* leaves the cache, and no group behind the link is ever used again.      *)
EvictFree ==
    /\ Idle
    /\ unlinked # {}
    /\ unlinked' = {}
    /\ \/ UNCHANGED <<allocated, orphans>>
       \/ /\ allocated' = allocated \cup unlinked
          /\ orphans' = orphans \cup unlinked
    /\ UNCHANGED <<phase, meta_group, next_table_id, tables, columns, own, flushed,
                   call, mark, unsaved, unfinished, faded, unborn, crashed>>

(* A delete statement flushes the cache when it is done.                   *)
FlushTable ==
    /\ Idle
    /\ Flush
    /\ unborn' = FALSE
    /\ UNCHANGED <<phase, meta_group, next_table_id, tables, own, call, orphans,
                   unfinished, crashed>>

Destroy_NoFlush ==
    /\ phase = "open" /\ call.op = "none"
    /\ phase' = "closed"
    /\ next_table_id' = flushed.next_table_id
    /\ tables' = flushed.tables /\ columns' = flushed.columns
    /\ mark' = Away(Places) /\ unsaved' = AllSaved
    /\ unborn' = FALSE
    /\ UNCHANGED <<meta_group, allocated, own, flushed, call, unlinked, orphans,
                   unfinished, faded, crashed>>

(* table_manager_destroy                                                   *)
Destroy ==
    /\ phase = "open" /\ call.op = "none"
    /\ phase' = "closed"
    /\ Close
    /\ orphans' = orphans \cup unlinked
    /\ unborn' = FALSE
    /\ UNCHANGED <<meta_group, next_table_id, tables, own, call, unfinished, crashed>>

(* Each page is in the file as it was flushed or as it was evicted since,  *)
(* also when destroy runs into an error, which it ignores.                 *)
Between(old, new) == {s \in SUBSET (old \cup new) : old \cap new \subseteq s}

Crash ==
    /\ Crashes /\ ~crashed
    /\ phase # "closed"
    /\ phase' = "closed"
    /\ next_table_id' \in {flushed.next_table_id, next_table_id}
    /\ tables' \in Between(flushed.tables, tables)
    /\ columns' \in Between(flushed.columns, columns)
    /\ \E a \in Between(flushed.allocated, allocated) :
          allocated' = a \cap allocated
    /\ own' = IF meta_group = NULL THEN {} ELSE own
    /\ flushed' = [next_table_id |-> next_table_id', tables |-> tables',
                   columns |-> columns', allocated |-> allocated']
    /\ call' = NoCall
    /\ mark' = Away(Places) /\ unsaved' = AllSaved /\ unlinked' = {}
    /\ crashed' = TRUE
    /\ UNCHANGED <<meta_group, orphans, unfinished, faded, unborn>>

Next ==
    \/ Start \/ StartAgain \/ StartFindsNothing
    \/ InitializeGroup \/ InitializeHeader \/ InitializeItem \/ StartFails
    \/ \E name \in Names, schema \in Schemas : CreateTable(name, schema)
    \/ CreateGroup \/ GetNextTableId
    \/ InsertTableRecord \/ InsertColumnRecord
    \/ CreateReturns \/ CreateFails
    \/ \E name \in Names : GetTable(name) \/ DropTable(name)
    \/ DeleteColumns \/ DeleteGroup \/ DropFails
    \/ \E place \in Places : Evict(place)
    \/ EvictFree \/ FlushTable \/ Destroy \/ Crash

Spec == Init /\ [][Next]_vars
-----------------------------------------------------------------------------
CallRecords ==
    {NoCall}
    \cup [op : {"start"}, step : {"groups", "header", "item"}]
    \cup [op : {"create"}, step : {"group", "id", "table", "columns"},
          name : Names, schema : Schemas, group : Groups \cup {NULL},
          id : 0 .. MaxId, index : Nat]
    \cup [op : {"drop"}, step : {"columns", "group"}, id : Ids, group : Groups]

(* The types of the catalogue, of the call and of what is left behind.     *)
TypeOK ==
    /\ phase \in {"closed", "starting", "open"}
    /\ meta_group \in Groups \cup {NULL}
    /\ next_table_id \in 0 .. MaxId + 1
    /\ tables \subseteq TableRecords
    /\ columns \subseteq ColumnRecords
    /\ allocated \subseteq Groups /\ own \subseteq Groups
    /\ call \in CallRecords
    /\ call.op = "create" /\ call.step # "group" => call.group \in Groups
    /\ call.op = "create" /\ call.step \in {"table", "columns"} => call.id \in Ids
    /\ call.op = "create" => call.index \in 0 .. Len(call.schema)
    /\ orphans \subseteq Groups
    /\ mark \in [Places -> Marks]
    /\ unsaved \in [Places -> SUBSET ColumnRecords]
    /\ unlinked \subseteq Groups
    /\ unfinished \subseteq Ids /\ faded \subseteq ColumnRecords
    /\ unborn \in BOOLEAN /\ crashed \in BOOLEAN

(* A lookup compares over the shorter name, so it is unambiguous only      *)
(* because create_table looks the same way before it adds a name           *)
(* (table_manager.c:512): no name of the catalogue begins another one.     *)
NamesApart ==
    ~crashed => \A s, t \in tables : str_eq(s.name, t.name) => s = t

(* A table that was created to its end owns a page group and an id alone,  *)
(* and each column that columns_amount counts, for which get_table makes   *)
(* room, is in the catalogue, or it is the one column of the table that    *)
(* was lost with a page nobody had marked: the next get of the page in the *)
(* same create_table marks it.                                             *)
TablesComplete ==
    ~crashed =>
        \A t \in tables \ {s \in tables : s.id \in unfinished} :
            /\ t.group \in allocated \ (own \cup orphans)
            /\ {c.index : c \in ColumnsOf(t.id) \cup FadedOf(t.id)}
                  = 1 .. t.columns_amount
            /\ \A c, d \in FadedOf(t.id) : c = d
            /\ \A s \in tables \ {t} : s.id # t.id /\ s.group # t.group

(* Between calls every page group and every column record belongs to a     *)
(* table, except what a call that failed has left and the groups whose     *)
(* link in the free list was lost: drop_table itself leaves nothing.       *)
NothingLeft ==
    ~crashed /\ phase # "starting" /\ call.op = "none" =>
        /\ allocated = own \cup {t.group : t \in tables} \cup orphans
        /\ {c.id : c \in columns} \subseteq {t.id : t \in tables} \cup unfinished

(* The application header is written as soon as it names the meta page,    *)
(* the meta page when it is evicted or flushed.  Only a process that ended *)
(* before its first flush leaves a file that no later start can open; once *)
(* flushed, the catalogue is found again whatever happens.                 *)
OpensAgain ==
    phase = "closed" /\ meta_group # NULL /\ next_table_id = 0 => unborn
=============================================================================
