# Verification of the database

The repository is a small relational database in C: a single file of fixed-size
pages, a page cache, page groups, records in pages, tables, statements over
them, a parser for its query language, and a client and server that talk over
Thrift. This directory holds TLA+ modules of these parts, the TLC configurations
that check them on small instances, and proofs, checked by TLAPS, of what the
file, the cache, the pages, the catalogue, the statements and the service promise.

Paths below are relative to `src/database/src/` unless they start with `src/`.

## 1. Inventory

Inside the database every layer is called only by the one above it, by plain
function calls in one thread, without callbacks or locks. What makes this code
hard is not concurrency but *pointers into a cache that outlive their page*,
*steps that change several pages*, *state kept both in memory and in the file*,
*several owners of one piece of memory*, and loops that run over lists they
change. The service is several processes, with connections that break anywhere.

| component | state | operations | what makes it correct |
|---|---|---|---|
| `file/file_manager.c` | a stdio stream; whether the file is new | open or create, read, write, close | a write is seen by later reads; what a crash leaves is a state between two writes |
| `file/page_resolver.c` | file header (page size, page count), altered flag, application header | new page id, read, write, flush application header | the header counts every page the file has; ids are not handed out twice; the file can be opened again |
| `file/page_manager.c` | cache entries (page, contents, altered, relevancy), counter, page accessed last | create, get, flush, destroy | one copy per page; a copy is never stale; pointers stay valid while they are used; flush saves |
| `storage/page_group_manager.c` | page headers (`previous`, `next`), application header (meta page, free list) | create group, add page, delete group, free the current page, meta group | lists stay lists; no page in two of them; groups do not disturb each other; loops end |
| `storage/page_data_manager.c` | per page: item amount, free space, item ids, item data | insert, iterate, delete item, vacuum, flush | a group has the records that were put in; iterators see each once; vacuum loses none and reclaims space |
| `database/table_manager.c` | catalogue tables, meta page with the next table id | first start, find, insert, update, delete; create, get, drop table | a name finds one table; a table has its id and its group alone and its columns, but for one that was put on an unmarked page; drop leaves nothing behind; a flushed database opens again |
| `database/domain/record/*`, `record_serialization.c`, `schema.c`, `join.c`, `predicate.c` | two record holders of a view over a scan | look-ahead over a scan, nested loop join, update, (de)serialisation | a view gives the rows of the query, and a row stays while it is read; stored items stay readable |
| `database/domain/expression/*` | none | evaluate and clone a tree | agrees with the operators' meaning |
| `database/domain/statement/*`, `database/database_manager.c` | current statement, its result, whether it succeeded | execute, finish | what a statement allocates is freed once, but for the strings of records, and not used after |
| `src/common/` | queue, strings, errors | push, get, iterate | the queue is a sequence |
| `src/parser/`, `src/parser_client/` | none that outlives a call | text to syntax tree | a statement's words stay in order; operators nest as declared; what follows an error is parsed anew |
| `src/transfer/` | what of a structure is set | generated reading and writing, client stub, processor | what is written is read again, by later versions too; half a request is not executed |
| `src/transfer_client/` | the typed text, the connection | parse, map, send, wait, quit | an answer is taken for the statement it belongs to |
| `src/transfer_server/` | one connection, a flag set by SIGINT | accept, read, execute, reply, stop | a client it has taken is answered or told |

`PROJECT.json` has the same list with the sources and modules of each component,
and under `hazards` every place where this code is hard to test, at its line,
with the properties that watch it, or a note why none does.

## 2. Modules

### PageResolver - the file and its header

`file_manager_read` and `file_manager_write` begin with `fseek`, which empties the
stream's buffer. So exactly the last `fwrite` may be missing from the operating
system's file. `file` is the file as the stream shows it, `disk` as the operating
system holds it; `Crash` leaves one of the two. One action per function of
`page_resolver.c`; the constructor is `CreateFile`, `CreateFileInterrupted`,
`OpenFile` and `OpenFileFails`. With `IOErrors` a write may fail before
anything was written, or between the header and the page. The history variable
`header_failed` remembers that `write_header` failed after it had cleared its
flag, the one way in which the header may fall behind.

### PageManager - the page cache

It takes PageResolver's actions and operators by INSTANCE and adds the cache. One
call is one action, but `page_manager_flush` goes entry by entry (`FlushBegin`,
`FlushEntry`, `FlushReturn`) because an error or a crash may stop it anywhere.
Callers are part of the model: `WriteThrough` writes through one of the last two
pointers handed out, whatever the entry holds by then, and changes `latest`,
which is what every page should contain. The code does not keep this promise in
general. The causes are named, each at the step where it happens: `risky` pages
were changed through a pointer to an unaltered entry, `lost` pages were hit by
one of the causes listed at the head of the module. `Coherent` says that nothing
*else* makes a page stale.

`GetAfterCreate` is what the storage layer does: `create_page` of
`page_group_manager.c` is always followed by a `page_manager_get_page` before the
next creation (`add_page` gets the first page, `create_group` is followed by
`initialize_page` through an iterator). Two creations in a row share one
relevancy value, and the second may take the entry of the first.

### PageStore - what the cache promises

The same without a cache: a value per page, what of it is in the file (`saved`)
and what of that outlives the process (`settled`), what a caller's newest
pointer shows (`seen`) and where a flush stands (`saving`). A write-back saves
whole pages with their last value, at any time, and `Flush` is done only when
all is saved. The exceptions are part of the promise, and each action says how
far they go: `undefined` are pages of which nothing is promised any more,
`unmarked` those with a change the store was not told of, `cut` those whose
pointer leads nowhere. Without failures (`Failures`) and a wrapping counter only
an unmarked change becomes undefined, and with `Careful` callers no pointer is
cut by a reuse of entries. `Store == INSTANCE PageStore WITH ...` in PageManager
is the refinement mapping: `latest` is the value, the pages of `file` and `disk`
what is saved and settled, `lost` and `risky` the exceptions; the entries,
relevancies, the flush's index and the file header have no counterpart.

### PageGroupManager - groups and the free list

Page headers are a function from pages to `previous` and `next`. `delete_group`
and the loop that ends vacuum free one page per step. The application header
exists twice, as in memory (`app`) and as in the file (`saved_app`): `Restart`, a
clean one, goes back to the latter. `chain` and `free` hold the lists as they
were built; the invariants compare them with what the links say. Two defects
of the code appear as exceptions with a name. `free_page_current` on the last
page of a group leaves the first page's `previous` at the freed page: these groups
are `shortened`, and `TailKnown` says that there are no others. A restart brings
back an older `last_free_page` than the links have. Where one of the two makes a
step link a page into a list it does not belong to, `damaged` becomes true and the
model follows the code no further.

### PageDataManager - items, scans, vacuum

It takes PageGroupManager by INSTANCE. Pages are rows of cells: an item id takes
one, a record the number `SizeOf` says. Offsets, free space and the item amount
are the code's, and ids and data that overlap or are written over become `Blank`.
`item_iterator_next` is `NextItem` with `PreloadNextItem`, which looks ahead before
the caller changes the item it was given. A scan of `table_manager.c` is
`ScanBegin`, then for each item `PassItem`, `UpdateItem`, `DeleteItem` or
`DeleteFirst`, whichever the predicate decides, and `ScanReturn` or
`ScanFails`. `vacuum` is one step per page (`VacuumPage`), per id (`VacuumStarts`,
`VacuumSkips`, `VacuumMoves`, `VacuumMovesOn`, `VacuumGivesUp`) and for its end
(`VacuumEnd`, `FreePage`, `FreeReturn`). A delete statement vacuums twice, once in
`table_manager_delete` and once in `table_manager_flush`; `drop_table` only once.

Left out because the code cannot reach it: `vacuum_page` (no caller) and the
branch of `table_manager_update` that deletes and inserts again
(`applicable_in_place` is always true), with the flag `new` that only this branch
sets.

`harmed` becomes true at a step that loses data in a way that is listed at the
head of the module; the model follows the code up to it. `sealed` are the pages
whose free space a vacuum with nothing to do has overwritten.

### TableManager - the catalogue

The two catalogue tables are sets of records, the meta page is the next table id,
and a page group is a member of `Groups` that is allocated or free. One action is
one call into `page_data_manager.c`, because each may fail and nothing is undone:
`CreateTable`, then `CreateGroup`, `GetNextTableId`, `InsertTableRecord` and one
`InsertColumnRecord` per column; `DropTable`, `DeleteColumns`, `DeleteGroup`; the
first start in three steps. What a call that stopped half-way has left is
remembered under a name: `orphans` (groups nothing refers to), `unfinished`
(tables that lack something), `unborn` (the application header names a meta page
that was not saved yet). `Crash` keeps the meta page and every record as it was
flushed or as it is now, in any combination, because evictions decide; the
application header is written at once and survives. Names are sequences and
`str_eq` compares up to the shorter one, as `strncmp` is called in the code.

`page_manager_flush` writes only entries marked `is_altered`, and
`page_manager_get_page` marks a page only when it finds it cached, not when it reads
it from the file. So neither `Flush` nor `Destroy` saves everything, and the module
follows which pages are marked, as far as the callers need it:

* A scan gets each page twice, once in `page_iterator_next` and once in
  `page_iterator_current`, and the second get marks it. `create_table` and
  `drop_table` scan TABLE_DATA_TABLE and the meta page before they write to them, and
  a page just created is marked; the records on these pages are saved (`GetTwice`).
* `page_data_manager_insert` gets the first page of the group and, when the record
  does not fit, the last one, once each. Nothing scans TABLE_COLUMNS_TABLE before
  `create_table` inserts into it. `mark` follows these two pages (not cached, cached
  and clean, cached and marked), `unsaved` is what was put on a clean one. The next get
  of a cached page marks it and saves what is on it (`PutOn`, `StillUnsaved`); so when a
  table has several columns only one record of it can be on a clean page at the end.
  A page that needs room for a record is added by `add_page`, which gets the first, the
  new and the old last page again and leaves all marked (`PutOnNewPage`).
* `Evict`, and the end of the process in `Close`, drop a clean page: its records
  are `faded`. A page that is read again has the mark of the entry it comes into,
  because `load_page_from_resolver` leaves `is_altered` as it was (`AfterGet`).
* `free_page` gets the last free page once, to link the next one behind it. When that
  page is clean the link is lost with it, and the groups behind it (`unlinked`) are
  neither free nor anybody's: `EvictFree` and `Destroy` make them orphans.

Evictions are between calls only. From its first column record on `create_table` gets
these two pages, over and over, and the pages `add_page` takes, and the cache has ten
entries, so the two are not dropped in the middle of a call.

### Records and Statements - rows, views, results

Records has no state: columns, values, serialisation into cells, expression
evaluation with its type checks, predicates and updates, as operators with errors as
values. Numbers wrap: an INT32 is one of `-Half .. Half - 1`, a UINT64 one of
`0 .. 2 * Half - 1` (of one width; nothing converts between them). `Typed` and
`IsRecord` say what `record_group_insert` lets into a record, and `AsDeclared` whether the columns of an
expression have the types it was made with: `column_expr` is told a type that nothing
compares with the table's.

Statements runs them. `rows` are the items of each table in the order of a scan;
a query makes a view with two holders, of which one is with the reader and the
other is filled in advance; an update rewrites items in place. Every pointer the
statement, its result, its tables and its view own is in `live`, and each error
path of `statements.c` frees what the code frees. The strings inside records are
pieces of their own, by where they come from: `names` (records of the catalogue, which
every statement looks into), `values` (copied by `record_group_insert` or
`record_set_value`) and `fields` (allocated by `deserialize_column` when a scan reads a
record). `clear_record_value` is called for them and destroys a string only when it is
null, so `StatementFrees` and `ViewFrees` free none of them and they stay in `live`. `wrong` collects what is freed
or followed although it is not live (a joined table that was never set, a string
with two owners, the clone function that logical operators lack) or written
over the item before (a longer string) or in the type of another column: nothing is defined from there on, and the
model stops. `foreign` are tables into which records of another schema were
inserted, which the code does not notice.

### Parser, Messages, Connections and Service - from text to an answer

Parser has the grammar of `parser.y` as rules and a recursive operator that
applies them, with the choices Bison makes: shift at an operator without
precedence, `%left` for the others, and where it goes on after an error. Tokens
come as the lexer returns them.

Messages has every structure of `service.thrift` with its fields and their
types, and one writer and one reader that stand for the generated functions; a wire is a sequence of units (field begin, value, list begin, stop),
which may end anywhere, and fields nobody knows are skipped.

Connections is the protocol: each client parses (`Parse`, `ParseFails`), sends and
receives, or is another program with a request of its own (`Prepare`); the server
takes a client, reads, executes and replies, one connection at a time. A connection
breaks at any unit (`Break`), SIGINT (`Stop_`) interrupts the server, and it may die
(`ServerDies`). The server's `map_stmt` ends without returning a value, so whether
the handler succeeds, fails or ends the process is a free choice and no request
reaches a statement. `sent`, `executed`, `told` and `errors` are history. What a
script parses and maps to, and how requests and answers are spelled on a wire, are
constant operators of Connections, which keeps it free of recursion and lets the
protocol be proved for any of them. `WorksAssumption` and `WireAssumption` say what it
needs: a request is read as it was written, no beginning of it can be read as one, and
only the whole answer to a success is one.

Service gives these operators their values, over Parser and Messages: the mapping
functions of `map_ast.c` (that of select, update and delete and of strings is
unfinished: a client that comes to it is followed no further), and the two ends of
`execute` in `database_service.c`. `MCService.cfg` assigns them, so TLC evaluates both
assumptions on the functions of the code, at every unit of every request and answer.

## 3. Runs

| run | instance | question |
|---|---|---|
| `page_resolver` | 3 pages, 2 headers, I/O errors, crashes | is the header ever behind the pages? can a file become unreadable? |
| `page_manager` | 2 entries, 3 pages, counter wraps at 4, crashes | is a page ever stale, double, or moved below its pointer? does the cache implement PageStore? |
| `page_manager_errors` | 2 entries, 3 pages, counter wraps at 3, I/O errors, crashes, creations back to back | what do failed evictions, reads and flushes leave? does a flush that returns without an error save all? |
| `page_groups` | 4 pages, clean restarts | do lists stay lists, and loops end? |
| `page_data` | 1 group, up to 3 pages of 5 cells, records of 1, 1 and 3 cells | are exactly the right records there, once each, after any calls? |
| `page_data_calls` | 2 groups, 2 pages | do calls return, on groups that share a free list, over restarts? |
| `catalogue` | 3 names, 2 schemas of two columns, 5 groups, 2 table ids, errors at every step, one crash | is every table found by its name alone and complete but for one column, and does a drop leave anything? |
| `statements` | tables of at most 3 and 1 rows, 9 queries, 6 inserts, 5 updates, 3 deletes, errors at any record | is a view the answer to its query, are items readable, what is freed, and once? |
| `service` | 2 clients, scripts and requests below, breaks, SIGINT, a server that dies | is what is executed what was sent and typed, and does the client know? |
| `flush_saves_every_change` | 2 entries, 2 pages, no I/O errors | *violated:* a change of a page that was not cached is not saved |
| `vacuum_sees_all_items` | 2 pages of 5 cells, restarts | *violated:* the second vacuum of a delete statement |
| `inserted_items_fit` | 2 pages of 3 cells, a header of 2 | *violated:* the largest item `max_item_size` allows |

The three violated properties are what a comment, a header file or an error
message of the repository says; `findings` in `PROJECT.json` quotes the lines.

**Bounds of the storage runs.** `MaxPage` (pages ever created) guards the actions that create pages.
Three pages over two cache entries are enough for a page to be evicted, read
again, changed and evicted again while another stays; the wrap of the counter is
at `RelevancyMax` = 3, 4 or 5 instead of `SIZE_MAX`, so that it happens several times
in a behaviour. With errors, the same three pages let the victim of a failed eviction be an
altered page that no cause has hit; `MostNotLost` ends a behaviour when two of the three
pages are `lost`, of which `Coherent` says nothing any more. Four pages allow two groups of two, a group and a free list of
two, and a page that goes from one to the other and back. In `page_data` a page
of five cells holds two small records, or one of three cells and no other (an
insertion asks for strictly more than it needs), so vacuum moves records within a page, to the page
before, over a page, and gives up at a page that is full; three pages are needed
for the destination to be neither the source nor the page before it. A record
is stored once at a time (`Insert`, `UpdateItem`), which bounds the rows and lets
`RowsKept` tell records apart. `MaxGroups` bounds the groups that exist at a time.
`Restarts` is off in `page_data`, whose question is one table's pages, and on in
`page_data_calls` and `page_groups`.
`CacheSize` is 10 as in the code, more than the pages there are: a destination
pointer of vacuum that outlived its page is marked but not reached. The two records of one cell
are interchangeable (symmetry `SmallRecords`), used only in a run without
liveness. `HeaderSize` is 0 where `InsertedItemsFit` is not the question: then
`max_item_size` is right and everything else can be examined.

**Bounds of the catalogue.** One of the three names begins another, so that a
lookup can take one for the other, and one is too long for a page, as is a column
name of the second schema: insertions then fail after the group and the id are
taken. Two ids are two tables at a time and, with a drop between them, a table
made after another; five groups are three for the catalogue itself and one per
table, so that they also run out. Groups are interchangeable (`GroupsAlike`; the
run has no liveness). One crash, because the invariants speak of what was before
it, and of `OpensAgain` behind it.

**Bounds of the statements.** Three rows against one give a join with a partner
and without; `Half` = 2 lets sums wrap. The expressions have a column that does
not exist, one that is declared with a type it does not have (`Misread`), operands of
two types, a logical operator, a predicate that is a column, and a string that begins
another; the updates include a shorter and a longer string and a value of another type. The string column comes first in its
table, so that what is behind it moves with its size.

**Bounds of the service.** The scripts have every kind of statement the client
can map and each it cannot, a list of values shorter and one longer than the
names, a query whose operators bind in all four ways, a NOT behind a comparison, one
sum in parentheses (without them Bison's shifts decide, which `Nests` leaves out), and an error whose rest is a
statement. The requests of other programs have optional fields set and not set,
nested structures, lists, and fields of a later version. Two clients are enough
for one to wait while the other is served; any number is what ConnectionsProofs is about. The ASSUME of MCService compares the
reader with the writer on every structure of `service.thrift`.

**Deadlock** is not checked where the bounds, `damaged`, `wrong` or a crash that
is not followed by a start stop the system, or where all clients have ended: then
no call may be possible. The two runs of the page cache and the one of the file
check it.

**Fairness.** `WF_vars(LoopStep)` in PageGroupManager and `WF_vars(Running)` in
PageDataManager: the steps of a call that is running. The engine has one thread
and the loops wait for nothing, so a call that can take a step takes it. Connections
has weak fairness of the server's step and of each client's `Receive`, written as
`[]<>~ServerCan \/ []<><<ServerStep>>_vars` and the same with `ReceiveCan(c)`: the
conditions spell out when the steps are enabled, since TLC would have to read the
wires to find out. Both processes block only on their wire. No fairness is
assumed of callers, users, connections or of the server's `accept`: a client
that waits to be taken while another stays connected may wait for ever, which is
how the server is written. `CallsReturn`, `LoopsEnd` and `Answered` use these.

## 4. Proofs

Proved by TLAPS for every value of the constants that satisfies the named
assumptions (`ResolverAssumption`, `CacheAssumption`, `NoneAssumption`,
`GroupAssumption`, `DataAssumption`, `TableAssumption`, `RecordsAssumption`,
`StatementsAssumption`, `WorksAssumption`, `WireAssumption`), each of which a run evaluates.

**PageResolverProofs.** `TypeCorrect`, `HeaderCurrent`, `HeaderCovers`,
`PageAmountGrows`, `OpenableForever`. `HeaderCoversPages` alone is not inductive: while the flag is up
the header in the file is older than the one in memory. The invariant adds that
with the flag down the two agree (`HeaderUpToDate`) and the order between the
three headers (`HeaderOrder`): the disk's never ahead of the stream's, the stream's
never ahead of the one in memory, both there as long as the file is open, and
nothing left in the stream once it is closed.

**PageManagerProofs.** `TypeCorrect`, `OneCopy`, `CacheCoherent`, `FlushIsComplete`,
over the same invariants of the file below. `Coherent` is inductive together with
`SingleCopy` (otherwise an eviction could bring an older copy to the file),
`EntriesNamePages` (an altered entry that a get no longer finds was hidden by a
reset, and is `lost`), `HeaderWithinAmount`, and `FlushProgress` (what the flush has
passed is clean, so that `destroy` forgets nothing). `FlushSaves` is an action
property that follows from these at the step in which the flush returns.
The second part, `HeldPointers`, says that under `GetAfterCreate` the last two pages
handed out are never chosen for reuse. The argument is the order of relevancies:
no value is above the counter (`RelevancyOrder`), the page handed out last has the
counter's value (`NewestIsTop`) and is the only one, so the least relevant of two
or more entries is another one. The page before it may be reused only by a call
that hands out a third page, and with that stops being one of the last two
(`HeldOrder`, `ReuseKeepsPointers`).
The third part is the refinement. `HeaderBeforePages` carries the resolver's invariants into the
cache, where evictions choose the order of writes (`HeaderInv`).
`CacheImplementsStore`: PageManager implements PageStore. The initial states map to
initial states; then there is one lemma per action of PageManager, each ending in
the action of PageStore it maps to, or a stutter. The abstract obligations follow
from the invariants above: that a get shows the last value from `Coherent` and
`SingleCopy`, that write-backs are whole and current from what the file's pages are
after one write (`WrittenExactly`), that a flush is done only when all is saved
from `FlushProgress`, that no pointer is cut from the order of relevancies, that the
page count covers every saved page from `HeaderFirst`.

**PageGroupManagerProofs.** `TypeCorrect`, `GroupsStayLinked`, `TailStaysKnown`,
`FreeListStaysLinked`, `OneOwnerEver`, `OthersStayUntouched`, for any number of pages
(`GroupAssumption`: at least one). The properties of the links hold as long as no step
has linked a page into a list it does not belong to (`damaged`, which names the two
steps of the code that do). They are not inductive without what a loop has half
changed: `Deleting` says that delete_group stands at the first page it has not freed
and that the rest is still linked forward (its back links are gone, which is why
`GroupsLinked` leaves out the group being deleted), `Vacuuming` that the other loop
stands behind the first page. `FreeChained` lets the last free page still name the
page of the loop's next turn, as free_page leaves "next" alone, so that
`FreeListLinked` holds only between calls. `FreeEnds` speaks of the header in the file
too, for a restart returns to it: it may have an older last end, but the same first
one. `Apart` and `Whole` are `OneOwner` as a relation of sets. `Distinct`, that no page
is in a group twice, is kept behind damage as well, where the loop that has done it
goes on freeing and the types are still to be proved. A step is taken apart into what
it does to the links of one list (a page appended, a page taken from a place in the
middle, a page freed behind the last) as facts about sequences and headers, and the
argument that it does not touch the others: no page is in two lists.

**PageDataManagerProofs.** `TypeCorrect`, `PagesStayPacked`, `VacuumReclaimed` and
`GroupsImplemented`, for any number of pages and cells, any records and any sizes of
at least one cell (`DataAssumption`). `IInv` has four parts: the invariant of
PageGroupManagerProofs, the types (`Kinds`), which call runs and what it has done to
the groups (`Phases`), and, until `harmed`, what is in the pages (`Sound`).
`PagesPacked` alone is not inductive: it says nothing of pages during vacuum, where
ids are turned over and moved while items still lie across the old ones. `Tidy`
says what a page outside of vacuum looks like, `VacuumAt` what the group looks like
while vacuum stands at destination `kd` and source `ks`: tidy and rid of deleted items
in front of the destination, emptied between the two, untouched behind the source,
and at the place itself one of three cases (`Searching`: nothing was moved yet;
`OnePage`: filled and source part of one page, with what was moved between; `TwoPages`).
`FreeingAt` is the same for the loop that frees the pages behind. `Half` (the ids
take at most half a page, as each has at least one cell of data) bounds what
vacuum counts with.
`ScanAt` says that the iterator stands at an item that is there and not deleted;
`item_iterator_next` looks over any number of pages for it, so `PreloadNextItem` is
taken as the recursive function it is: that one exists which goes from place to place
until it stops, whether or not it ever does, is `WalkExists`; what it returns
is shown by going back from the last item of the last page (`Found`). The steps themselves are facts about one or
two pages: an id moved within a page or to another one keeps the rows of both
(`Moves`, `MovableOver`), from which each action of vacuum leads from one place to the
next. `VacuumReclaims` is then what `VacuumAt` says at the last source page and
`FreeingAt` at the last free; `GroupsImplemented` lets every theorem about the groups
be used here.

**PageDataRowsProofs.** `RowsStay` and `ScansSeeAllOnce`, the theorems that no record is
lost, doubled or made up, and that a scan meets each once. `IInv` above follows the room
items take and not what they are; `RowsKept` says what they are, but only outside of
vacuum, and is not inductive either: in the middle of vacuum a moved item's old id still
stands in its page, and ids behind the destination are written over. `RInv` is `IInv`
with `Held`: a page holds what lies at its live places (`Stored`), all of them (`Whole`)
or, in the page vacuum empties, those in front of `dest_id` and behind the index it reads
(`LeftOf`), and of every group's pages these are exactly its records, no record at two
places (`Keeps`). Every step is then one of four things done to one or two such sets:
one more (`Gets`), one less (`Loses`), one in place of another (`Turns`), one moved to
another page (`Passes`). That `insert_item`, an update in place, and the moves write over
no other record comes from the rows of `IInv` (`WrittenOver`, `MovesWithin`).
`SInv` adds `ScanSeen`: what a scan has given and what lies behind the place it looks at
(`Remains`) are together what the group held at the beginning, and have nothing in
common. What `item_iterator_preload_next_item` passes on its way is deleted (`Found`, in
PageDataManagerProofs), so nothing drops out (`NoneSkipped`); the caller changes only the
place behind the iterator, so nothing comes back (`SameBehind`).

**TableManagerProofs.** `TypeCorrect`, `LookupsUnambiguous`, `CreatedTablesComplete`,
`DropLeavesNothing`, `FlushedOpensAgain`, over errors at every step, restarts and a
crash. `NamesApart` holds because `create_table` looks the name up the way every
later lookup will, and the comparison is symmetric (`EqualBothWays`); `NewName`
carries this check over the steps between it and the insertion. `Accounted` says of
every allocated group and every column record who has it, the running call
(`Taken`) included, `Distinct` that no two tables have an id or a group in common,
`UnderWay` what the running call has done so far, and `Complete` that the columns
are there or among the `faded`. That at most one of a table is faded does not follow
from this alone: `Saving` says that only a clean page has unsaved records, that all of
them together are at most one of each table, and none of a table that has lost one;
each insertion gets the first page again and so marks what the one before has left on
it (`InsertedUnsaved`, `FewerUnsaved`). With no call running, `Taken` is empty and `NothingLeft` follows. `Born`,
with `Phases`, is the argument for `OpensAgain`: behind the first flush the meta
page has its item both in memory and in the file, so no crash chooses an empty one.

**StatementsProofs.** `TypeCorrect`, `QueriesAnswered`, `OnlyRecordStringsStay`, for any
tables, joins, predicates and statements. These three leave open what records and
expressions evaluate to, so `QueryRight` holds whatever they do, errors included. The answer is a recursive function over the main table and a joined record
one over the joins. An induction theorem takes an operator and cannot be cited, but
that a nonempty set of numbers has a least one (`LeastOf`, from the well-foundedness
of Nat) can, and serves as well: the least number for which such a function would not
exist, or for which two would differ, leads to a contradiction. `FindOneFacts` is the
step for one table (the code stops at the first record that holds or fails, the answer
asks for the first that holds), `JoinedIsChain` the one over the joins, and
`LookedAhead` says that one turn of `record_view_next` prolongs the answer by at most
the record it leaves in the second holder. `Answering` is `QueryRight` with the types
this needs; `Allocated` says exactly what is alive between two calls apart from the
strings of records (`Owned`), which no call frees: `FreedOnce` follows, that they and
nothing else stay behind.

`ItemsStayReadable` (`RowsReadable`) is about what they do evaluate to, for any schemas,
records and expressions and any `Half`. It assumes what the constructors ensure: a
literal is of its type, an operator is made of two expressions that exist (so `Depth`
falls towards them) and has the type of its result (`RecordsAssumption`); inserted
values are typed, as `record_group_insert` compares (`StatementsAssumption`). The
invariant `RInv` is `IInv` and, for every stored item, that it is a sequence of numbers
that reads back as a typed record whose cells it begins with. An insert needs `ReadBack`:
columns written one behind the other are read one behind the other, a string's size
saying where the next begins, whatever cells follow; hence also the shorter string that
an update leaves before the rest of a longer one. An update needs `ValueTyped`, that an
expression whose columns are as declared gives a value of its type or an error, and
`UpdatedTyped`, that the record stays typed while one column is set after another. Both
are recursive functions, over the columns and over the trees of expressions; they are
shown to exist, and to be what they are, by the least column, or the least `Depth`, for
which they would not.

**ConnectionsProofs.** `ServiceTypes`, `RequestsIntact`, `ClientsKnow`, for any number of
clients, any scripts and requests, and any operators that satisfy the two assumptions.
The two properties speak of histories only, and break in the next step if the server
could read a request a second time or an answer were another statement's. `CInv` says
where the last request of each client is (`Way`): a beginning of it on the wire to the
server, in the handler, being answered, or a beginning of its answer on the way back, in
at most one of these places, and only while the client waits or has ended; and how the
histories agree (`Account`): the server is behind the client by at most the last
statement, and not at all once the client goes on. A break leaves beginnings of
beginnings (`BeginningOfBeginning`), a request that can be read is whole and is the
one that is due (`ReadWay`), and a success can only be the answer to the last one, with
nothing behind it (`ReceivedWay`). Each step touches one client; the others keep their
place because the server is busy with one at a time (`OneKept`).

**Only model-checked:** `Understood`, which is about what the operators of
Parser, Messages and Service compute, all of them RECURSIVE (for the same reason that
they satisfy the assumptions of Connections is evaluated on the requests of the run and
not proved); liveness (`LoopsEnd`, `CallsReturn`, `Answered`),
which is out of the prover's reach; and the violated properties.

## 5. Not modelled

* I/O errors and crashes inside PageGroupManager and PageDataManager: they
  see pages as PageManager shows them when no named cause has hit them. What a
  failed call leaves in the catalogue is in TableManager.
* The 32-bit page offset (`page_resolver.c:20`), and the constructor that goes on
  with what it has freed (`page_resolver.c:131`).
* The chunked queue of `src/common/`: to its callers it is a sequence.
* Floating point and division; `record_clone` and the operations of
  `record_group` that only callers outside statements use; the order of bytes in
  a record.
* How the lexer makes tokens of characters; printing and comparing of trees;
  `src/parser_client/`, which only prints them.
* The GObject property code beyond setting a field, and how the binary protocol
  spells a unit: generated code.
* The client's mapping of select, update and delete, and the server's of every
  statement, which the code has not finished (no value is returned).

## 6. Plan

Done: PageResolver, PageManager, PageStore, PageGroupManager, PageDataManager,
TableManager, Records and Statements, Parser, Messages, Connections, Service; proofs
of the file, the cache, its refinement, the page groups, the items in the pages, the
records through scans and vacuum, the catalogue, the life of a statement, what its
tables store and the protocol of the service.

Next, the most important first:

1. **GroupsOverCache**: PageGroupManager's operations as sequences of calls of
   PageStore, with crashes and I/O errors between them; which damage of the lists a
   restart can find.
2. **Queue** against a sequence.
