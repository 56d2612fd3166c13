------------------------- MODULE TableManagerProofs -------------------------
(***************************************************************************)
(* Proofs about the catalogue: its names are unambiguous, its tables are   *)
(* complete, nothing is left behind and it opens again, for all names,     *)
(* schemas, page groups and numbers of tables, over errors, restarts and a *)
(* crash.                                                                  *)
(***************************************************************************)
EXTENDS TableManager, TLAPS

StartCalls == [op : {"start"}, step : {"groups", "header", "item"}]
CreateCalls ==
    [op : {"create"}, step : {"group", "id", "table", "columns"},
     name : Names, schema : Schemas, group : Groups \cup {NULL},
     id : 0 .. MaxId, index : Nat]
DropCalls == [op : {"drop"}, step : {"columns", "group"}, id : Ids, group : Groups]

FlushedType ==
    /\ flushed.next_table_id \in 0 .. MaxId + 1
    /\ flushed.tables \subseteq TableRecords
    /\ flushed.columns \subseteq ColumnRecords
    /\ flushed.allocated \subseteq Groups

(* What runs while the manager is closed, starting and open, and that      *)
(* nothing is in a catalogue whose meta page has no contents.              *)
Phases ==
    /\ phase = "closed" => call.op = "none"
    /\ phase = "starting" <=> call.op = "start"
    /\ phase = "starting" /\ call.step # "item" => meta_group = NULL
    /\ phase = "starting" /\ call.step = "item" => meta_group # NULL /\ unborn
    /\ phase = "open" => next_table_id > 0 /\ meta_group # NULL
    /\ meta_group = NULL \/ phase = "starting" =>
          /\ next_table_id = 0 /\ flushed.next_table_id = 0
          /\ tables = {} /\ flushed.tables = {}
          /\ columns = {} /\ flushed.columns = {}
          /\ unsaved = AllSaved /\ faded = {} /\ unlinked = {}

(* Only the first flush or a crash before it decides whether the meta page *)
(* is in the file.                                                         *)
Born ==
    meta_group # NULL /\ ~unborn => next_table_id > 0 /\ flushed.next_table_id > 0

(* A name that is about to be added matches none that is there.            *)
NewName ==
    ~crashed /\ call.op = "create" /\ call.step # "columns" =>
        Matching(call.name) = {}

(* The group that create_table has made and not recorded yet, or that      *)
(* drop_table has not deleted yet.                                         *)
Taken ==
    IF \/ call.op = "create" /\ call.step \in {"id", "table"}
       \/ call.op = "drop"
    THEN {call.group} ELSE {}
GroupsOfTables == {t.group : t \in tables}

(* Ids are below the next one, and groups and ids of tables are their own. *)
Distinct ==
    ~crashed =>
        /\ \A t \in tables : t.id < next_table_id
        /\ \A c \in columns \cup faded : c.id < next_table_id
        /\ \A s, t \in tables : s.id = t.id \/ s.group = t.group => s = t
        /\ GroupsOfTables \cap (own \cup orphans \cup Taken) = {}
        /\ Taken \cap (own \cup orphans) = {}

(* Only a page that is clean has unsaved records, and of one table at most *)
(* one record is unsaved or lost; groups behind a lost link are free.      *)
Saving ==
    ~crashed =>
        /\ \A p \in Places : unsaved[p] # {} => mark[p] = "clean"
        /\ Unsaved \subseteq columns
        /\ unsaved["first"] \cap unsaved["last"] = {}
        /\ \A c, d \in Unsaved \cup faded : c.id = d.id => c = d
        /\ unlinked \cap allocated = {}

(* Every group is accounted for, and every column has a table.             *)
Accounted ==
    ~crashed =>
        /\ allocated = own \cup GroupsOfTables \cup orphans \cup Taken
        /\ \A c \in columns : c.id \in unfinished \/ \E t \in tables : t.id = c.id

(* How far create_table and drop_table have come.                          *)
UnderWay ==
    ~crashed =>
        /\ call.op = "create" /\ call.step # "columns" => call.index = 0
        /\ call.op = "create" /\ call.step = "table" =>
              /\ call.id < next_table_id
              /\ \A t \in tables : t.id # call.id
              /\ \A c \in columns \cup faded : c.id # call.id
        /\ call.op = "create" /\ call.step = "columns" =>
              /\ call.id \in unfinished
              /\ \E t \in tables : t.id = call.id /\ t.columns_amount = Len(call.schema)
              /\ {c.index : c \in ColumnsOf(call.id)} = 1 .. call.index
              /\ FadedOf(call.id) = {}
              /\ call.index > 0 => mark["first"] # "away"
        /\ call.op = "drop" =>
              /\ call.id \in unfinished
              /\ \A t \in tables : t.id # call.id
              /\ call.step = "group" => ColumnsOf(call.id) = {}

(* The columns of a table that are there or were lost.                     *)
Complete ==
    ~crashed =>
        \A t \in tables : t.id \in unfinished
            \/ {c.index : c \in {c \in columns \cup faded : c.id = t.id}}
                  = 1 .. t.columns_amount
-----------------------------------------------------------------------------
LEMMA EqualBothWays == \A a, b \in Seq(Nat) : str_eq(a, b) => str_eq(b, a)
BY DEF str_eq

(* A call with an operation is a record of that operation.                 *)
LEMMA CallOfItsKind ==
    ASSUME call \in CallRecords
    PROVE  /\ call.op = "none" => call = NoCall
           /\ call.op = "start" => call \in StartCalls
           /\ call.op = "create" => call \in CreateCalls
           /\ call.op = "drop" => call \in DropCalls
           /\ call.op \in {"none", "start", "create", "drop"}
BY DEF CallRecords, StartCalls, CreateCalls, DropCalls, NoCall

LEMMA CallsAreCalls ==
    CallRecords = {NoCall} \cup StartCalls \cup CreateCalls \cup DropCalls
BY DEF CallRecords, StartCalls, CreateCalls, DropCalls

(* TypeOK in parts: the call, and the rest of the state.                   *)
CallType ==
    /\ call \in CallRecords
    /\ call.op = "create" /\ call.step # "group" => call.group \in Groups
    /\ call.op = "create" /\ call.step \in {"table", "columns"} => call.id \in Ids
    /\ call.op = "create" => call.index \in 0 .. Len(call.schema)

CatalogueType ==
    /\ phase \in {"closed", "starting", "open"}
    /\ meta_group \in Groups \cup {NULL}
    /\ next_table_id \in 0 .. MaxId + 1
    /\ tables \subseteq TableRecords
    /\ columns \subseteq ColumnRecords
    /\ allocated \subseteq Groups /\ own \subseteq Groups
    /\ orphans \subseteq Groups
    /\ unfinished \subseteq Ids
    /\ unborn \in BOOLEAN /\ crashed \in BOOLEAN

CachedType ==
    /\ mark \in [Places -> Marks]
    /\ unsaved \in [Places -> SUBSET ColumnRecords]
    /\ unlinked \subseteq Groups
    /\ faded \subseteq ColumnRecords

LEMMA TypeInParts == TypeOK <=> CallType /\ CatalogueType /\ CachedType
BY Zenon DEF TypeOK, CallType, CatalogueType, CachedType

LEMMA TypeInit == Init => CallType /\ CatalogueType /\ CachedType /\ FlushedType
<1> SUFFICES ASSUME Init PROVE CallType /\ CatalogueType /\ CachedType /\ FlushedType
  OBVIOUS
<1>1. CallType
  BY DEF Init, CallType, CallRecords, NoCall
<1>2. next_table_id \in 0 .. MaxId + 1 /\ 0 \in 0 .. MaxId + 1
  BY TableAssumption DEF Init
<1>3. CatalogueType
  BY <1>2 DEF Init, CatalogueType
<1>4. FlushedType
  BY <1>2 DEF Init, FlushedType
<1>5. CachedType
  BY DEF Init, CachedType, AllSaved, Places, Marks
<1> QED  BY <1>1, <1>3, <1>4, <1>5

(* What the calls are while the manager is open.                           *)
LEMMA OpenCalls ==
    ASSUME CallType, CatalogueType, Phases
    PROVE  call.op \in {"create", "drop"} => phase = "open" /\ next_table_id > 0
BY DEF CallType, CatalogueType, Phases

LEMMA CallTypeStep ==
    ASSUME CallType, CatalogueType, Phases, [Next]_vars
    PROVE  CallType'
<1> USE TableAssumption
<1>0. /\ call.op = "none" => call = NoCall
      /\ call.op = "start" => call \in StartCalls
      /\ call.op = "create" => call \in CreateCalls
      /\ call.op = "drop" => call \in DropCalls
      /\ call.op \in {"none", "start", "create", "drop"}
  BY CallOfItsKind DEF CallType
<1>1. CASE UNCHANGED call
  BY <1>1 DEF CallType
<1>2. CASE Return
  BY <1>2 DEF Return, CallType, CallRecords, NoCall
<1>3. CASE Start
  BY <1>3, CallsAreCalls DEF Start, CallType, StartCalls
<1>4. CASE InitializeGroup \/ InitializeHeader
  <2>1. call \in StartCalls /\ call' \in StartCalls
    BY <1>4, <1>0 DEF InitializeGroup, InitializeHeader, Goto, StartCalls
  <2> QED  BY <2>1, CallsAreCalls DEF CallType, StartCalls
<1>5. ASSUME NEW name \in Names, NEW schema \in Schemas, CreateTable(name, schema)
      PROVE  CallType'
  <2>1. call' \in CreateCalls
    BY <1>5 DEF CreateTable, CreateCalls
  <2>2. call'.step = "group" /\ call'.index = 0 /\ call'.schema \in Schemas
    BY <1>5 DEF CreateTable
  <2>3. Len(call'.schema) \in Nat
    BY <2>2
  <2> QED  BY <2>1, <2>2, <2>3, CallsAreCalls DEF CallType
<1>6. CASE CreateGroup
  <2>1. PICK g \in Groups : call' = [call EXCEPT !.group = g, !.step = "id"]
    BY <1>6 DEF CreateGroup
  <2>2. call \in CreateCalls
    BY <1>6, <1>0 DEF CreateGroup
  <2>3. call' \in CreateCalls /\ call'.group = g /\ call'.step = "id"
        /\ call'.index = call.index /\ call'.schema = call.schema
    BY <2>1, <2>2 DEF CreateCalls
  <2>4. call.index \in 0 .. Len(call.schema)
    BY <1>6 DEF CreateGroup, CallType
  <2> QED  BY <2>3, <2>4, CallsAreCalls DEF CallType
<1>7. CASE GetNextTableId
  <2>1. call \in CreateCalls
    BY <1>7, <1>0 DEF GetNextTableId
  <2>2. next_table_id \in Ids
    BY <1>7, OpenCalls DEF GetNextTableId, CatalogueType, Ids
  <2> DEFINE id == next_table_id
  <2>5. call' = [call EXCEPT !.id = id, !.step = "table"] /\ id \in 0 .. MaxId
    BY <1>7, <2>2 DEF GetNextTableId, Ids
  <2> HIDE DEF id
  <2>6. call' \in CreateCalls
    BY <2>1, <2>5 DEF CreateCalls
  <2>7. call'.group = call.group /\ call'.id = id /\ call'.step = "table"
        /\ call'.index = call.index /\ call'.schema = call.schema
    BY <2>1, <2>5 DEF CreateCalls
  <2>3. call' \in CreateCalls /\ call'.group = call.group /\ call'.id = next_table_id
        /\ call'.step = "table"
        /\ call'.index = call.index /\ call'.schema = call.schema
    BY <2>6, <2>7 DEF id
  <2>4. call.index \in 0 .. Len(call.schema) /\ call.group \in Groups
    BY <1>7 DEF GetNextTableId, CallType
  <2> QED  BY <2>2, <2>3, <2>4, CallsAreCalls DEF CallType
<1>8. CASE InsertTableRecord
  <2>1. call \in CreateCalls
    BY <1>8, <1>0 DEF InsertTableRecord
  <2>2. call' \in CreateCalls /\ call'.group = call.group /\ call'.id = call.id
        /\ call'.step = "columns"
        /\ call'.index = call.index /\ call'.schema = call.schema
    BY <1>8, <2>1 DEF InsertTableRecord, Goto, CreateCalls
  <2>3. call.index \in 0 .. Len(call.schema) /\ call.group \in Groups /\ call.id \in Ids
    BY <1>8 DEF InsertTableRecord, CallType
  <2> QED  BY <2>2, <2>3, CallsAreCalls DEF CallType
<1>9. CASE InsertColumnRecord
  <2>1. call \in CreateCalls
    BY <1>9, <1>0 DEF InsertColumnRecord
  <2>2. call.index \in 0 .. Len(call.schema) /\ call.index < Len(call.schema)
        /\ call.group \in Groups /\ call.id \in Ids /\ Len(call.schema) \in Nat
    BY <1>9, <2>1 DEF InsertColumnRecord, CallType, CreateCalls
  <2>3. call' = [call EXCEPT !.index = call.index + 1]
    BY <1>9 DEF InsertColumnRecord
  <2> DEFINE index == call.index + 1
  <2>5. call' = [call EXCEPT !.index = index] /\ index \in Nat
    BY <2>2, <2>3
  <2> HIDE DEF index
  <2>6. call' \in CreateCalls /\ call'.group = call.group /\ call'.id = call.id
        /\ call'.index = index /\ call'.schema = call.schema
    BY <2>1, <2>5 DEF CreateCalls
  <2>4. call' \in CreateCalls /\ call'.group = call.group /\ call'.id = call.id
        /\ call'.index = call.index + 1 /\ call'.schema = call.schema
    BY <2>6 DEF index
  <2> QED  BY <2>2, <2>4, CallsAreCalls DEF CallType
<1>10. ASSUME NEW name \in Names, DropTable(name)
       PROVE  CallType'
  <2>1. call' \in DropCalls
    BY <1>10 DEF DropTable, Matching, CatalogueType, TableRecords, DropCalls
  <2> QED  BY <2>1, CallsAreCalls DEF CallType, DropCalls
<1>11. CASE DeleteColumns
  <2>1. call' \in DropCalls
    BY <1>11, <1>0 DEF DeleteColumns, Goto, DropCalls
  <2> QED  BY <2>1, CallsAreCalls DEF CallType, DropCalls
<1>12. CASE Crash
  BY <1>12 DEF Crash, CallType, CallRecords, NoCall
<1> QED
  BY <1>1, <1>2, <1>3, <1>4, <1>5, <1>6, <1>7, <1>8, <1>9, <1>10, <1>11, <1>12
  DEF Next, vars, StartAgain, StartFindsNothing, InitializeItem, StartFails,
      CreateReturns, CreateFails, GetTable, DeleteGroup, DropFails, Evict, EvictFree,
      FlushTable, Destroy

(* A crash keeps records that are there or were there.                     *)
LEMMA BetweenSubset ==
    \A old, new, S : old \subseteq S /\ new \subseteq S =>
        \A s \in Between(old, new) : s \subseteq S
BY DEF Between

(* The record that is inserted next.                                       *)
LEMMA NewColumn ==
    ASSUME CallType, InsertColumnRecord
    PROVE  /\ ColumnRecord \in ColumnRecords
           /\ ColumnRecord.id = call.id /\ ColumnRecord.index = call.index + 1
<1>1. call \in CreateCalls /\ call.index \in 0 .. Len(call.schema) /\ call.id \in Ids
  BY CallOfItsKind DEF InsertColumnRecord, CallType
<1>2. Len(call.schema) \in Nat /\ call.schema \in Seq(Seq(Nat))
      /\ call.index < Len(call.schema)
  BY <1>1, TableAssumption DEF CreateCalls, InsertColumnRecord
<1>3. call.schema[call.index + 1] \in Seq(Nat) /\ call.index + 1 \in Nat
  BY <1>1, <1>2
<1> QED  BY <1>1, <1>3 DEF ColumnRecord, ColumnRecords

LEMMA CatalogueTypeStep ==
    ASSUME CallType, CatalogueType, CachedType, FlushedType, Phases, [Next]_vars
    PROVE  CatalogueType' /\ FlushedType'
<1> USE TableAssumption
<1>0. /\ call.op = "create" => call \in CreateCalls
      /\ call.op = "drop" => call \in DropCalls
  BY CallOfItsKind DEF CallType
<1>1. CASE UNCHANGED vars
  BY <1>1 DEF vars, catalogue, named, CatalogueType, FlushedType
<1>2. CASE Start \/ StartAgain \/ StartFindsNothing
  BY <1>2 DEF Start, StartAgain, StartFindsNothing, vars, catalogue, named,
              CatalogueType, FlushedType
<1>3. CASE InitializeGroup
  BY <1>3 DEF InitializeGroup, named, CatalogueType, FlushedType
<1>4. CASE InitializeHeader
  BY <1>4 DEF InitializeHeader, CatalogueType, FlushedType
<1>5. CASE InitializeItem
  BY <1>5 DEF InitializeItem, named, CatalogueType, FlushedType
<1>6. Close => /\ columns' \subseteq ColumnRecords /\ allocated' \subseteq Groups
               /\ FlushedType'
  BY DEF Close, CatalogueType, CachedType, FlushedType
<1>7. CASE StartFails
  BY <1>6, <1>7 DEF StartFails, CatalogueType
<1>8. ASSUME NEW name \in Names, NEW schema \in Schemas, CreateTable(name, schema)
      PROVE  CatalogueType' /\ FlushedType'
  BY <1>8 DEF CreateTable, catalogue, named, CatalogueType, FlushedType
<1>9. CASE CreateGroup
  BY <1>9 DEF CreateGroup, named, CatalogueType, FlushedType
<1>10. CASE GetNextTableId
  <2>1. next_table_id' \in 0 .. MaxId + 1
    BY <1>10 DEF GetNextTableId, CatalogueType
  <2> QED  BY <1>10, <2>1 DEF GetNextTableId, named, CatalogueType, FlushedType
<1>11. CASE InsertTableRecord
  <2>1. call \in CreateCalls /\ call.group \in Groups /\ call.id \in Ids
    BY <1>0, <1>11 DEF InsertTableRecord, CallType
  <2>2. Len(call.schema) \in Nat /\ call.name \in Names
    BY <2>1 DEF CreateCalls
  <2>3. [id |-> call.id, name |-> call.name, group |-> call.group,
         columns_amount |-> Len(call.schema)] \in TableRecords
    BY <2>1, <2>2 DEF TableRecords
  <2> QED  BY <1>11, <2>1, <2>3 DEF InsertTableRecord, CatalogueType, FlushedType
<1>12. CASE InsertColumnRecord
  <2>1. columns' \subseteq ColumnRecords
    BY <1>12, NewColumn DEF InsertColumnRecord, CatalogueType
  <2> QED  BY <1>12, <2>1 DEF InsertColumnRecord, named, CatalogueType, FlushedType
<1>13. CASE CreateReturns
  BY <1>13 DEF CreateReturns, catalogue, CatalogueType, FlushedType
<1>14. CASE CreateFails
  <2>1. call.step \in {"id", "table"} => call.group \in Groups
    BY <1>14 DEF CreateFails, CallType
  <2> QED  BY <1>14, <2>1 DEF CreateFails, catalogue, CatalogueType, FlushedType
<1>15. ASSUME NEW name \in Names, GetTable(name)
       PROVE  CatalogueType' /\ FlushedType'
  BY <1>15 DEF GetTable, catalogue, named, CatalogueType, FlushedType
<1>16. ASSUME NEW name \in Names, DropTable(name)
       PROVE  CatalogueType' /\ FlushedType'
  <2>1. \A t \in Matching(name) : t.id \in Ids
    BY DEF Matching, CatalogueType, TableRecords
  <2> QED  BY <1>16, <2>1 DEF DropTable, CatalogueType, FlushedType
<1>17. CASE DeleteColumns
  BY <1>17 DEF DeleteColumns, CatalogueType, FlushedType
<1>18. CASE DeleteGroup
  BY <1>18 DEF DeleteGroup, CatalogueType, FlushedType
<1>19. CASE DropFails
  <2>1. call.group \in Groups
    BY <1>0, <1>19 DEF DropFails, Fail, DropCalls
  <2> QED  BY <1>19, <2>1 DEF DropFails, CatalogueType, FlushedType
<1>20. ASSUME NEW place \in Places, Evict(place)
       PROVE  CatalogueType' /\ FlushedType'
  BY <1>20 DEF Evict, CatalogueType, FlushedType
<1>21. CASE EvictFree
  BY <1>21 DEF EvictFree, CatalogueType, CachedType, FlushedType
<1>22. CASE FlushTable
  BY <1>22 DEF FlushTable, Flush, CatalogueType, CachedType, FlushedType
<1>23. CASE Destroy
  BY <1>6, <1>23 DEF Destroy, CatalogueType, CachedType
<1>24. CASE Crash
  <2>1. next_table_id' \in 0 .. MaxId + 1
    BY <1>24 DEF Crash, CatalogueType, FlushedType
  <2>2. tables' \subseteq TableRecords /\ columns' \subseteq ColumnRecords
    BY <1>24, BetweenSubset DEF Crash, CatalogueType, FlushedType
  <2>3. allocated' \subseteq Groups /\ own' \subseteq Groups
    BY <1>24, BetweenSubset DEF Crash, CatalogueType, FlushedType
  <2>4. CatalogueType'
    BY <1>24, <2>1, <2>2, <2>3 DEF Crash, CatalogueType
  <2>5. FlushedType'
    BY <1>24, <2>1, <2>2, <2>3 DEF Crash, FlushedType
  <2> QED  BY <2>4, <2>5
<1> QED
  BY <1>1, <1>2, <1>3, <1>4, <1>5, <1>7, <1>8, <1>9, <1>10, <1>11, <1>12,
     <1>13, <1>14, <1>15, <1>16, <1>17, <1>18, <1>19, <1>20, <1>21, <1>22,
     <1>23, <1>24
  DEF Next

(* What a get and the end of a process make of the marks.                  *)
LEMMA CachedParts ==
    ASSUME CachedType
    PROVE  /\ \A places : Away(places) \in [Places -> Marks]
           /\ \A places : GetTwice(places) => mark' \in [Places -> Marks]
           /\ StillUnsaved \in [Places -> SUBSET ColumnRecords]
           /\ AllSaved \in [Places -> SUBSET ColumnRecords]
           /\ Unsaved \subseteq ColumnRecords
           /\ \A p \in Places : unsaved[p] \subseteq Unsaved
BY DEF CachedType, Away, GetTwice, StillUnsaved, AllSaved, Unsaved, Places, Marks

LEMMA CachedTypeStep ==
    ASSUME CallType, CatalogueType, CachedType, [Next]_vars
    PROVE  CachedType'
<1> USE CachedParts
<1>1. CASE UNCHANGED <<cached, faded>>
  BY <1>1 DEF cached, CachedType
<1>2. CASE InitializeGroup
  <2>1. mark' \in [Places -> Marks]
    BY <1>2 DEF InitializeGroup, CachedType, Marks
  <2> QED  BY <1>2, <2>1 DEF InitializeGroup, named, CachedType
<1>3. CASE Close
  BY <1>3 DEF Close, CachedType
<1>4. CASE CreateGroup
  BY <1>4 DEF CreateGroup, named, CachedType
<1>5. CASE InsertColumnRecord
  <2>1. ColumnRecord \in ColumnRecords
    BY <1>5, NewColumn
  <2>2. CASE PutOnNewPage
    BY <1>5, <2>2 DEF InsertColumnRecord, PutOnNewPage, named, CachedType, Marks
  <2>3. ASSUME NEW place \in Places, PutOn(place, ColumnRecord)
        PROVE  CachedType'
    <3>1. mark' \in [Places -> Marks]
      BY <2>3 DEF PutOn, Get
    <3>2. unsaved' \in [Places -> SUBSET ColumnRecords]
      BY <2>1, <2>3 DEF PutOn
    <3> QED  BY <1>5, <3>1, <3>2 DEF InsertColumnRecord, named, CachedType
  <2> QED  BY <1>5, <2>2, <2>3 DEF InsertColumnRecord
<1>6. CASE CreateFails
  BY <1>6 DEF CreateFails, Get, CachedType
<1>7. ASSUME NEW name \in Names, GetTable(name)
      PROVE  CachedType'
  BY <1>7 DEF GetTable, named, CachedType
<1>8. CASE DeleteColumns
  <2>1. mark' \in [Places -> Marks]
    BY <1>8 DEF DeleteColumns, Marks
  <2> QED  BY <1>8, <2>1 DEF DeleteColumns, CachedType
<1>9. CASE DeleteGroup
  <2>1. CallType /\ call.op = "drop"
    BY <1>9 DEF DeleteGroup
  <2>2. call.group \in Groups
    BY <2>1, CallOfItsKind DEF CallType, DropCalls
  <2> QED  BY <1>9, <2>2 DEF DeleteGroup, CachedType
<1>10. CASE DropFails
  BY <1>10 DEF DropFails, CachedType
<1>11. ASSUME NEW place \in Places, Evict(place)
       PROVE  CachedType'
  BY <1>11 DEF Evict, CachedType
<1>12. CASE EvictFree
  BY <1>12 DEF EvictFree, CachedType
<1>13. CASE FlushTable
  BY <1>13 DEF FlushTable, Flush, CachedType
<1>14. CASE Crash
  BY <1>14 DEF Crash, CachedType
<1> QED
  BY <1>1, <1>2, <1>3, <1>4, <1>5, <1>6, <1>7, <1>8, <1>9, <1>10, <1>11, <1>12,
     <1>13, <1>14
  DEF Next, vars, cached, named, Start, StartAgain, StartFindsNothing, InitializeHeader,
      InitializeItem, StartFails, CreateTable, GetNextTableId, InsertTableRecord,
      CreateReturns, DropTable, Destroy

LEMMA PhasesStep ==
    ASSUME CallType, CatalogueType, CachedType, FlushedType, Phases, Born, [Next]_vars
    PROVE  Phases' /\ Born'
<1> USE DEF Phases, Born
<1>0. call \in CallRecords /\ phase \in {"closed", "starting", "open"}
  BY DEF CallType, CatalogueType
<1>1. CASE UNCHANGED vars \/ StartFindsNothing
  BY <1>1 DEF StartFindsNothing, vars, catalogue, cached, named
<1>2. CASE Start
  BY <1>2 DEF Start, catalogue, cached, named
<1>3. CASE StartAgain
  BY <1>3 DEF StartAgain, catalogue, cached, named
<1>4. CASE InitializeGroup
  <2>1. call \in StartCalls
    BY <1>4, CallOfItsKind DEF InitializeGroup, CallType
  <2>2. call'.op = "start" /\ call'.step \in {"groups", "header"}
    BY <1>4, <2>1 DEF InitializeGroup, Goto, StartCalls
  <2> QED  BY <1>4, <2>2 DEF InitializeGroup, named
<1>5. CASE InitializeHeader
  <2>1. call \in StartCalls
    BY <1>5, CallOfItsKind DEF InitializeHeader, CallType
  <2>2. call'.op = "start" /\ call'.step = "item"
    BY <1>5, <2>1 DEF InitializeHeader, Goto, StartCalls
  <2>3. meta_group' # NULL /\ unborn'
    BY <1>5, TableAssumption DEF InitializeHeader, CatalogueType
  <2> QED  BY <1>5, <2>2, <2>3 DEF InitializeHeader, cached
<1>6. CASE InitializeItem
  BY <1>6 DEF InitializeItem, Return, NoCall, named
<1>7. CASE StartFails
  <2>1. Unsaved = {}
    BY <1>7 DEF StartFails, Fail, Unsaved, AllSaved, Places
  <2> QED  BY <1>7, <2>1 DEF StartFails, Fail, Close, Return, NoCall
<1>8. CASE FlushTable \/ Destroy
  <2>1. phase = "open" /\ call.op = "none" /\ phase' \in {"closed", "open"}
        /\ UNCHANGED <<meta_group, next_table_id, call>> /\ unborn' = FALSE
        /\ flushed'.next_table_id = next_table_id
    BY <1>8 DEF FlushTable, Destroy, Idle, Flush, Close
  <2> QED  BY <2>1
<1>9. CASE Crash
  BY <1>9 DEF Crash, Between, NoCall
<1>10. ASSUME phase = "open", phase' = "open", call'.op # "start", next_table_id' > 0,
              UNCHANGED <<meta_group, flushed, unborn>>
       PROVE  Phases' /\ Born'
  BY <1>10
<1>11. ASSUME NEW name \in Names, NEW schema \in Schemas, CreateTable(name, schema)
       PROVE  Phases' /\ Born'
  BY <1>11, <1>10 DEF CreateTable, Idle, catalogue, named
<1>12. ASSUME NEW name \in Names, GetTable(name) \/ DropTable(name)
       PROVE  Phases' /\ Born'
  BY <1>12, <1>10 DEF GetTable, DropTable, Idle, catalogue, named
<1>13. CASE CreateGroup
  BY <1>13, <1>10, <1>0, OpenCalls, CallOfItsKind
  DEF CreateGroup, CreateCalls, named
<1>14. CASE GetNextTableId
  BY <1>14, <1>10, <1>0, OpenCalls, CallOfItsKind
  DEF GetNextTableId, CreateCalls, CatalogueType, named
<1>15. CASE InsertTableRecord \/ InsertColumnRecord
  BY <1>15, <1>10, <1>0, OpenCalls, CallOfItsKind
  DEF InsertTableRecord, InsertColumnRecord, Goto, CreateCalls, named
<1>16. CASE CreateReturns \/ CreateFails
  BY <1>16, <1>10, OpenCalls DEF CreateReturns, CreateFails, Return, NoCall, catalogue
<1>17. CASE DeleteColumns
  BY <1>17, <1>10, <1>0, OpenCalls, CallOfItsKind DEF DeleteColumns, Goto, DropCalls, named
<1>18. CASE DeleteGroup \/ DropFails
  BY <1>18, <1>10, OpenCalls DEF DeleteGroup, DropFails, Fail, Return, NoCall
<1>19. ASSUME NEW place \in Places, Evict(place)
       PROVE  Phases' /\ Born'
  BY <1>19, <1>10 DEF Evict, Idle
<1>20. CASE EvictFree
  BY <1>20, <1>10 DEF EvictFree, Idle
<1> QED
  BY <1>1, <1>2, <1>3, <1>4, <1>5, <1>6, <1>7, <1>8, <1>9, <1>11, <1>12, <1>13,
     <1>14, <1>15, <1>16, <1>17, <1>18, <1>19, <1>20
  DEF Next
-----------------------------------------------------------------------------
(* What the catalogue promises while no crash has hit it.                  *)
Consistent ==
    /\ NamesApart /\ NewName /\ Distinct /\ Saving /\ Accounted /\ UnderWay
    /\ Complete

(* The steps that change no part of it.                                    *)
Unconcerned ==
    /\ UNCHANGED <<tables, columns, allocated, own, orphans, unfinished, faded,
                   next_table_id, crashed, cached>>
    /\ \/ call' = call
       \/ call.op \in {"none", "start"} /\ call'.op \in {"none", "start"}

LEMMA UnconcernedStep == Consistent /\ Unconcerned => Consistent'
<1> SUFFICES ASSUME Consistent, Unconcerned PROVE Consistent'
  OBVIOUS
<1> USE DEF Consistent, Unconcerned, cached
<1>1. UNCHANGED <<Taken, GroupsOfTables, Unsaved>>
  BY DEF Taken, GroupsOfTables, Unsaved
<1>2. NamesApart' /\ Complete'
  BY DEF NamesApart, Complete
<1>3. NewName' /\ UnderWay'
  BY DEF NewName, Matching, UnderWay, ColumnsOf, FadedOf
<1>4. Distinct' /\ Accounted'
  BY <1>1 DEF Distinct, Accounted
<1>5. Saving'
  BY <1>1 DEF Saving
<1> QED  BY <1>2, <1>3, <1>4, <1>5

(* A step keeps Saving when what is unsaved after it is on clean pages.    *)
LEMMA FewerUnsaved ==
    ASSUME CachedType, Saving, crashed' = crashed,
           unsaved' = StillUnsaved, columns' \cup faded' = columns \cup faded,
           allocated' = allocated, unlinked' = unlinked
    PROVE  /\ Unsaved' \subseteq Unsaved
           /\ faded' \subseteq faded \cup Unsaved /\ Unsaved' \subseteq columns' => Saving'
<1>1. Unsaved' \subseteq Unsaved
  BY DEF StillUnsaved, Unsaved, Places
<1>2. \A p \in Places : unsaved'[p] # {} => mark'[p] = "clean"
  BY DEF StillUnsaved
<1>3. ASSUME faded' \subseteq faded \cup Unsaved, Unsaved' \subseteq columns'
      PROVE  Saving'
  <2>1. Unsaved' \cup faded' \subseteq Unsaved \cup faded
    BY <1>1, <1>3
  <2>2. unsaved["first"] \cap unsaved["last"] = {}
            => unsaved'["first"] \cap unsaved'["last"] = {}
    BY DEF StillUnsaved, Places
  <2> QED  BY <1>2, <1>3, <2>1, <2>2 DEF Saving
<1> QED  BY <1>1, <1>3

(* Before the first table, only the groups are accounted for.              *)
LEMMA StartingStep ==
    ASSUME CallType, CatalogueType, Phases, Consistent,
           InitializeGroup \/ InitializeHeader \/ InitializeItem \/ StartFails
    PROVE  Consistent'
<1>1. call \in StartCalls /\ phase = "starting"
  BY CallOfItsKind
  DEF InitializeGroup, InitializeHeader, InitializeItem, StartFails, Fail, CallType, Phases
<1>2. /\ tables = {} /\ columns = {} /\ faded = {} /\ unlinked = {}
      /\ unsaved = AllSaved /\ Unsaved = {}
  BY <1>1 DEF Phases, AllSaved, Unsaved, Places
<1>3. call'.op \in {"none", "start"} /\ crashed' = crashed
  BY <1>1 DEF InitializeGroup, InitializeHeader, InitializeItem, StartFails, Goto,
              Return, NoCall, StartCalls, named
<1>4. /\ tables' = {} /\ columns' = {} /\ faded' = {} /\ unlinked' = {}
      /\ unsaved' = AllSaved
  BY <1>2
  DEF InitializeGroup, InitializeHeader, InitializeItem, StartFails, Close, cached, named
<1>5. Taken = {} /\ Taken' = {} /\ GroupsOfTables = {} /\ GroupsOfTables' = {}
  BY <1>1, <1>2, <1>3, <1>4 DEF Taken, GroupsOfTables, StartCalls
<1>6. ~crashed => allocated' = own' \cup orphans'
  <2>1. ~crashed => allocated = own \cup orphans
    BY <1>5 DEF Consistent, Accounted
  <2> QED
    BY <1>2, <2>1
    DEF InitializeGroup, InitializeHeader, InitializeItem, StartFails, Close, named
<1>7. NamesApart' /\ NewName' /\ UnderWay' /\ Complete'
  BY <1>3, <1>4 DEF NamesApart, NewName, UnderWay, Complete
<1>8. Distinct' /\ Accounted'
  BY <1>3, <1>4, <1>5, <1>6 DEF Distinct, Accounted
<1>9. Saving'
  BY <1>4 DEF Saving, Unsaved, AllSaved, Places
<1> QED  BY <1>7, <1>8, <1>9 DEF Consistent

LEMMA CreateStep ==
    ASSUME CallType, CatalogueType, CachedType, Phases, Consistent,
           \/ \E name \in Names, schema \in Schemas : CreateTable(name, schema)
           \/ CreateGroup \/ GetNextTableId \/ CreateReturns \/ CreateFails
    PROVE  Consistent'
<1> USE DEF Consistent
<1>0. tables' = tables /\ columns' = columns /\ faded' = faded /\ crashed' = crashed
      /\ own' = own /\ GroupsOfTables' = GroupsOfTables
  BY DEF CreateTable, CreateGroup, GetNextTableId, CreateReturns, CreateFails,
         catalogue, named, GroupsOfTables
<1>1. NamesApart'
  BY <1>0 DEF NamesApart
<1>2. UNCHANGED <<cached, allocated>> => Saving'
  BY <1>0 DEF cached, Saving, Unsaved
<1>3. CASE \E name \in Names, schema \in Schemas : CreateTable(name, schema)
  <2>1. PICK name \in Names, schema \in Schemas : CreateTable(name, schema)
    BY <1>3
  <2>2. call.op = "none" /\ call'.op = "create" /\ call'.step = "group"
        /\ call'.name = name /\ call'.index = 0 /\ Matching(name) = {}
        /\ UNCHANGED <<allocated, orphans, unfinished, next_table_id, cached>>
    BY <2>1 DEF CreateTable, Idle, catalogue, named
  <2>3. NewName'
    BY <2>2, <1>0 DEF NewName, Matching
  <2>4. Taken = {} /\ Taken' = {}
    BY <2>2 DEF Taken
  <2>5. Distinct' /\ Accounted'
    BY <2>2, <2>4, <1>0 DEF Distinct, Accounted
  <2>6. UnderWay' /\ Complete'
    BY <2>2, <1>0 DEF UnderWay, Complete
  <2> QED  BY <1>1, <1>2, <2>2, <2>3, <2>5, <2>6
<1>4. CASE CreateGroup
  <2>1. PICK g \in Groups \ allocated :
            /\ allocated' = allocated \cup {g}
            /\ call' = [call EXCEPT !.group = g, !.step = "id"]
            /\ unlinked' \in {{}} \cup (IF g \in unlinked THEN {} ELSE {unlinked})
    BY <1>4 DEF CreateGroup
  <2>2. call \in CreateCalls /\ call.step = "group"
    BY <1>4, CallOfItsKind DEF CreateGroup, CallType
  <2>3. call.op = "create" /\ call'.op = "create" /\ call'.step = "id"
        /\ call'.name = call.name /\ call'.index = call.index /\ call'.group = g
    BY <2>1, <2>2 DEF CreateCalls
  <2>4. UNCHANGED <<orphans, unfinished, next_table_id, mark, unsaved>>
    BY <1>4 DEF CreateGroup, named
  <2>5. Taken = {} /\ Taken' = {g}
    BY <2>2, <2>3 DEF Taken
  <2>6. NewName'
    BY <2>2, <2>3, <1>0 DEF NewName, Matching
  <2>7. ~crashed => g \notin own \cup orphans \cup GroupsOfTables
    BY <2>1 DEF Accounted
  <2>8. Distinct' /\ Accounted'
    BY <1>0, <2>1, <2>4, <2>5, <2>7 DEF Distinct, Accounted
  <2>9. UnderWay' /\ Complete'
    BY <2>2, <2>3, <2>4, <1>0 DEF UnderWay, Complete
  <2>10. unlinked \cap allocated = {} => unlinked' \cap allocated' = {}
    BY <2>1
  <2>11. Saving'
    BY <1>0, <2>4, <2>10 DEF Saving, Unsaved
  <2> QED  BY <1>1, <2>6, <2>8, <2>9, <2>11
<1>5. CASE GetNextTableId
  <2>1. call \in CreateCalls /\ call.step = "id" /\ next_table_id \in Int
    BY <1>5, CallOfItsKind, TableAssumption DEF GetNextTableId, CallType, CatalogueType
  <2> DEFINE id == next_table_id
  <2>2. call' = [call EXCEPT !.id = id, !.step = "table"] /\ next_table_id' = id + 1
        /\ UNCHANGED <<allocated, orphans, unfinished, cached>>
    BY <1>5 DEF GetNextTableId, named
  <2> HIDE DEF id
  <2>3. call.op = "create" /\ call'.op = "create" /\ call'.step = "table"
        /\ call'.name = call.name /\ call'.index = call.index
        /\ call'.group = call.group /\ call'.id = id
    BY <2>1, <2>2 DEF CreateCalls
  <2>4. Taken' = Taken
    BY <2>1, <2>3 DEF Taken
  <2>5. NewName'
    BY <2>1, <2>3, <1>0 DEF NewName, Matching
  <2>6. ~crashed => (\A t \in tables : t.id < id) /\ (\A c \in columns \cup faded : c.id < id)
    BY DEF Distinct, id
  <2>7. (\A t \in tables : t.id \in Int) /\ (\A c \in columns \cup faded : c.id \in Int)
        /\ id \in Int
    BY <2>1 DEF CatalogueType, CachedType, TableRecords, ColumnRecords, Ids, id
  <2>8. Distinct' /\ Accounted'
    BY <1>0, <2>2, <2>4, <2>6, <2>7 DEF Distinct, Accounted
  <2>9. UnderWay' /\ Complete'
    BY <1>0, <2>1, <2>2, <2>3, <2>6, <2>7 DEF UnderWay, Complete
  <2> QED  BY <1>1, <1>2, <2>2, <2>5, <2>8, <2>9
<1>6. CASE CreateReturns
  <2>1. call.op = "create" /\ call.step = "columns" /\ call.index = Len(call.schema)
        /\ call'.op = "none" /\ unfinished' = unfinished \ {call.id}
        /\ UNCHANGED <<allocated, orphans, next_table_id, cached>>
    BY <1>6 DEF CreateReturns, Return, NoCall, catalogue
  <2>2. Taken = {} /\ Taken' = {}
    BY <2>1 DEF Taken
  <2>3. ~crashed => \E t \in tables : t.id = call.id /\ t.columns_amount = Len(call.schema)
    BY <2>1 DEF UnderWay
  <2>4. Distinct' /\ Accounted'
    BY <1>0, <2>1, <2>2, <2>3 DEF Distinct, Accounted
  <2>5. ASSUME ~crashed, NEW t \in tables, t.id = call.id
        PROVE  {c.index : c \in {c \in columns \cup faded : c.id = t.id}}
                  = 1 .. t.columns_amount
    <3>1. t.columns_amount = call.index
      BY <2>1, <2>3, <2>5 DEF Distinct
    <3>2. {c \in columns \cup faded : c.id = t.id} = ColumnsOf(call.id)
      BY <2>1, <2>5 DEF UnderWay, ColumnsOf, FadedOf
    <3>3. {c.index : c \in ColumnsOf(call.id)} = 1 .. call.index
      BY <2>1, <2>5 DEF UnderWay
    <3> QED  BY <3>1, <3>2, <3>3
  <2>6. NewName' /\ UnderWay' /\ Complete'
    BY <1>0, <2>1, <2>5 DEF NewName, UnderWay, Complete
  <2> QED  BY <1>1, <1>2, <2>1, <2>4, <2>6
<1>7. CASE CreateFails
  <2>1. call.op = "create" /\ call'.op = "none" /\ unsaved' = StillUnsaved
        /\ UNCHANGED <<allocated, unfinished, next_table_id, unlinked>>
    BY <1>7 DEF CreateFails, Return, NoCall, catalogue
  <2>2. orphans' = orphans \cup Taken /\ Taken' = {}
    BY <1>7, <2>1 DEF CreateFails, Taken
  <2>3. Distinct' /\ Accounted'
    BY <1>0, <2>1, <2>2 DEF Distinct, Accounted
  <2>4. NewName' /\ UnderWay' /\ Complete'
    BY <1>0, <2>1 DEF NewName, UnderWay, Complete
  <2>5. Saving'
    BY <1>0, <2>1, FewerUnsaved DEF Saving
  <2> QED  BY <1>1, <2>3, <2>4, <2>5
<1> QED  BY <1>3, <1>4, <1>5, <1>6, <1>7

LEMMA InsertTableStep ==
    ASSUME CallType, CatalogueType, CachedType, Phases, Consistent, InsertTableRecord
    PROVE  Consistent'
<1> USE DEF Consistent
<1> DEFINE new == [id |-> call.id, name |-> call.name, group |-> call.group,
                   columns_amount |-> Len(call.schema)]
<1>1. call \in CreateCalls /\ call.step = "table"
  BY CallOfItsKind DEF InsertTableRecord, CallType
<1>2. call.op = "create" /\ call'.op = "create" /\ call'.step = "columns"
      /\ call'.id = call.id /\ call'.schema = call.schema /\ call'.index = call.index
  BY <1>1 DEF InsertTableRecord, Goto, CreateCalls
<1>3. tables' = tables \cup {new} /\ unfinished' = unfinished \cup {call.id}
      /\ UNCHANGED <<next_table_id, columns, allocated, own, orphans, faded, crashed,
                     cached>>
  BY DEF InsertTableRecord
<1>4. new.id = call.id /\ new.name = call.name /\ new.group = call.group
      /\ new.columns_amount = Len(call.schema)
  OBVIOUS
<1> HIDE DEF new
<1>5. Taken = {call.group} /\ Taken' = {}
  BY <1>1, <1>2 DEF Taken
<1>6. GroupsOfTables' = GroupsOfTables \cup {call.group}
  BY <1>3, <1>4 DEF GroupsOfTables
<1>7. NamesApart'
  <2>1. call.name \in Seq(Nat) /\ \A t \in tables : t.name \in Seq(Nat)
    BY <1>1, TableAssumption DEF CreateCalls, CatalogueType, TableRecords
  <2>2. ~crashed => \A t \in tables : ~str_eq(t.name, call.name)
    BY <1>1, <1>2 DEF NewName, Matching
  <2>3. ~crashed => \A t \in tables : ~str_eq(call.name, t.name)
    BY <2>1, <2>2, EqualBothWays
  <2> QED  BY <1>3, <1>4, <2>2, <2>3 DEF NamesApart
<1>8. NewName'
  BY <1>2 DEF NewName
<1>9. Distinct'
  <2>1. ~crashed => /\ \A t \in tables : t.id # call.id /\ t.group # call.group
                    /\ call.id < next_table_id
    BY <1>1, <1>2, <1>5 DEF UnderWay, Distinct, GroupsOfTables
  <2> QED  BY <1>3, <1>4, <1>5, <1>6, <2>1 DEF Distinct
<1>10. Accounted'
  BY <1>3, <1>4, <1>5, <1>6 DEF Accounted
<1>11. UnderWay'
  <2>1. call.index = 0 => 1 .. call.index = {}
    OBVIOUS
  <2>2. ~crashed => call.index = 0
    BY <1>1, <1>2 DEF UnderWay
  <2>3. ~crashed => ColumnsOf(call.id) = {} /\ FadedOf(call.id) = {}
    BY <1>1, <1>2 DEF UnderWay, ColumnsOf, FadedOf
  <2>4. ~crashed => {c.index : c \in ColumnsOf(call.id)} = 1 .. call.index
    BY <2>1, <2>2, <2>3
  <2> QED  BY <1>2, <1>3, <1>4, <2>2, <2>3, <2>4 DEF UnderWay, ColumnsOf, FadedOf
<1>12. Complete'
  BY <1>3, <1>4 DEF Complete
<1>13. Saving'
  BY <1>3 DEF Saving, Unsaved, cached
<1> QED  BY <1>7, <1>8, <1>9, <1>10, <1>11, <1>12, <1>13

(* Only the first record of a table, or one behind a first page that is    *)
(* full, comes onto a page that is clean; the next get of the first page   *)
(* marks it.                                                               *)
LEMMA InsertedUnsaved ==
    ASSUME CallType, CatalogueType, CachedType, Consistent, InsertColumnRecord,
           ~crashed
    PROVE  /\ Saving'
           /\ mark'["first"] # "away"
<1> USE DEF Consistent
<1> DEFINE new == ColumnRecord
<1>1. new.id = call.id /\ new.index = call.index + 1 /\ call.index \in Nat
  BY NewColumn, CallOfItsKind DEF InsertColumnRecord, CallType, CreateCalls
<1>2. columns' = columns \cup {new}
      /\ UNCHANGED <<faded, allocated, unlinked, crashed>>
  BY DEF InsertColumnRecord, named
<1>3. /\ {c.index : c \in ColumnsOf(call.id)} = 1 .. call.index
      /\ FadedOf(call.id) = {}
      /\ call.index > 0 => mark["first"] # "away"
  BY DEF UnderWay, InsertColumnRecord
<1> HIDE DEF new
<1>4. \A c \in faded : c.id # call.id
  BY <1>3 DEF FadedOf
<1>5. CASE PutOnNewPage
  <2>1. mark'["first"] # "away" /\ unsaved' = AllSaved
    BY <1>5 DEF PutOnNewPage, Places
  <2>2. Unsaved' = {}
    BY <2>1 DEF Unsaved, AllSaved, Places
  <2> QED  BY <1>2, <2>1, <2>2 DEF Saving, AllSaved, Places
<1>6. ASSUME NEW place \in Places, PutOn(place, new)
      PROVE  Saving' /\ mark'["first"] # "away"
  <2>1. mark' \in [Places -> Marks] /\ mark'["first"] \in AfterGet(mark["first"])
    BY <1>6 DEF PutOn, Get, Places
  <2>2. mark'["first"] # "away"
    BY <2>1 DEF AfterGet
  <2>3. \A p \in Places : unsaved'[p] \subseteq StillUnsaved[p] \cup {new}
    BY <1>6 DEF PutOn, StillUnsaved, Places
  <2>4. \A p \in Places : unsaved'[p] # {} => mark'[p] = "clean"
    BY <1>6 DEF PutOn, StillUnsaved, Places
  <2>5. \A p \in Places : StillUnsaved[p] \subseteq unsaved[p]
    BY DEF StillUnsaved
  <2>6. Unsaved' \subseteq Unsaved \cup {new}
    BY <2>3, <2>5 DEF Unsaved, Places
  <2>7. Unsaved' \subseteq columns'
    BY <1>2, <2>6 DEF Saving
  <2>8. CASE call.index = 0
    <3>1. ColumnsOf(call.id) = {}
      BY <1>3, <2>8
    <3>2. \A c \in Unsaved : c.id # call.id
      BY <3>1 DEF ColumnsOf, Saving
    <3>3. \A c, d \in Unsaved' \cup faded' : c.id = d.id => c = d
      BY <1>1, <1>2, <1>4, <2>6, <3>2 DEF Saving
    <3>4. new \notin unsaved["first"] \cup unsaved["last"]
      BY <1>1, <3>2 DEF Unsaved
    <3>5. \A p \in Places : p # place => unsaved'[p] \subseteq unsaved[p]
      BY <1>6, <2>5 DEF PutOn, StillUnsaved, Places
    <3>6. unsaved'["first"] \cap unsaved'["last"] = {}
      BY <2>3, <2>5, <3>4, <3>5 DEF Saving, Places
    <3> QED  BY <1>2, <2>2, <2>4, <2>7, <3>3, <3>6 DEF Saving
  <2>9. CASE call.index > 0
    <3>1. mark'["first"] # "clean"
      BY <1>3, <2>1, <2>9 DEF AfterGet
    <3>2. unsaved'["first"] = {}
      BY <2>4, <3>1 DEF Places
    <3>3. mark'["last"] = "clean" =>
              mark["last"] = "away" \/ unsaved'["last"] = unsaved["last"]
      BY <1>6 DEF PutOn, Get, AfterGet, StillUnsaved, Places
    <3>4. mark["last"] = "away" => unsaved["last"] = {}
      BY DEF Saving, Places
    <3>5. Unsaved' \subseteq {new} \/ Unsaved' \subseteq Unsaved
      <4>1. mark'["last"] # "clean" => unsaved'["last"] = {}
        BY <2>4 DEF Places
      <4>2. unsaved["last"] = {} => unsaved'["last"] \subseteq {new}
        BY <2>3, <2>5 DEF Places
      <4> QED  BY <3>2, <3>3, <3>4, <4>1, <4>2 DEF Unsaved
    <3>6. \A c, d \in Unsaved' \cup faded' : c.id = d.id => c = d
      BY <1>1, <1>2, <1>4, <3>5 DEF Saving
    <3> QED  BY <1>2, <2>2, <2>4, <2>7, <3>2, <3>6 DEF Saving
  <2> QED  BY <1>1, <2>8, <2>9
<1> QED  BY <1>5, <1>6 DEF InsertColumnRecord, new

LEMMA InsertColumnStep ==
    ASSUME CallType, CatalogueType, CachedType, Phases, Consistent, InsertColumnRecord
    PROVE  Consistent'
<1> USE DEF Consistent
<1> DEFINE index == call.index + 1
           new == ColumnRecord
<1>1. call \in CreateCalls /\ call.step = "columns" /\ call.index \in Nat
  BY CallOfItsKind DEF InsertColumnRecord, CallType, CreateCalls
<1>2. call' = [call EXCEPT !.index = index] /\ columns' = columns \cup {new}
      /\ UNCHANGED <<next_table_id, tables, allocated, own, orphans, unfinished, faded,
                     crashed>>
  BY DEF InsertColumnRecord, named
<1>3. new.id = call.id /\ new.index = index
  BY NewColumn
<1>4. index \in Nat /\ 1 .. index = 1 .. call.index \cup {index}
  BY <1>1
<1> HIDE DEF index, new
<1>5. call.op = "create" /\ call'.op = "create" /\ call'.step = "columns"
      /\ call'.id = call.id /\ call'.schema = call.schema /\ call'.index = index
  BY <1>1, <1>2 DEF CreateCalls
<1>6. Taken = {} /\ Taken' = {} /\ GroupsOfTables' = GroupsOfTables
  BY <1>1, <1>2, <1>5 DEF Taken, GroupsOfTables
<1>7. NamesApart' /\ NewName'
  BY <1>2, <1>5 DEF NamesApart, NewName
<1>8. ~crashed => \E t \in tables : t.id = call.id /\ t.columns_amount = Len(call.schema)
  BY <1>1, <1>5 DEF UnderWay
<1>9. Distinct' /\ Accounted'
  BY <1>2, <1>3, <1>6, <1>8 DEF Distinct, Accounted
<1>10. {c.index : c \in ColumnsOf(call.id)'} = {c.index : c \in ColumnsOf(call.id)} \cup {index}
  BY <1>2, <1>3, <1>5 DEF ColumnsOf
<1>11. Saving' /\ (~crashed => mark'["first"] # "away")
  <2>1. crashed => Saving'
    BY <1>2 DEF Saving
  <2> QED  BY <2>1, InsertedUnsaved
<1>12. UnderWay'
  <2>1. ~crashed => {c.index : c \in ColumnsOf(call.id)'} = 1 .. index
    BY <1>1, <1>4, <1>5, <1>10 DEF UnderWay
  <2>2. ~crashed => call.id \in unfinished /\ FadedOf(call.id) = {}
    BY <1>1, <1>5 DEF UnderWay
  <2>3. ~crashed' => {c.index : c \in {c \in columns' : c.id = call'.id}} = 1 .. call'.index
    BY <1>2, <1>5, <2>1 DEF ColumnsOf
  <2> QED  BY <1>2, <1>5, <1>8, <1>11, <2>2, <2>3 DEF UnderWay, ColumnsOf, FadedOf
<1>13. Complete'
  <2>1. ASSUME NEW t \in tables, t.id # call.id
        PROVE  {c \in columns' \cup faded' : c.id = t.id}
                  = {c \in columns \cup faded : c.id = t.id}
    BY <1>2, <1>3, <2>1
  <2>2. ~crashed => call.id \in unfinished
    BY <1>1, <1>5 DEF UnderWay
  <2> QED  BY <1>2, <2>1, <2>2 DEF Complete
<1> QED  BY <1>7, <1>9, <1>11, <1>12, <1>13

LEMMA DropStep ==
    ASSUME CallType, CatalogueType, CachedType, Phases, Consistent,
           \/ \E name \in Names : DropTable(name)
           \/ DeleteColumns \/ DeleteGroup \/ DropFails
    PROVE  Consistent'
<1> USE DEF Consistent
<1>1. CASE \E name \in Names : DropTable(name)
  <2>1. PICK name \in Names : DropTable(name)
    BY <1>1
  <2>2. PICK t \in tables :
            /\ tables' = tables \ {t} /\ unfinished' = unfinished \cup {t.id}
            /\ call'.op = "drop" /\ call'.step = "columns"
            /\ call'.id = t.id /\ call'.group = t.group
    BY <2>1 DEF DropTable, Matching
  <2>3. call.op = "none"
        /\ UNCHANGED <<next_table_id, columns, allocated, own, orphans, faded, crashed,
                       cached>>
    BY <2>1 DEF DropTable, Idle
  <2>4. Taken = {} /\ Taken' = {t.group}
    BY <2>2, <2>3 DEF Taken
  <2>5. ~crashed => GroupsOfTables' = GroupsOfTables \ {t.group}
    BY <2>2 DEF GroupsOfTables, Distinct
  <2>6. t.group \in GroupsOfTables
    BY DEF GroupsOfTables
  <2>7. NamesApart' /\ NewName'
    BY <2>2, <2>3 DEF NamesApart, NewName
  <2>8. Distinct' /\ Accounted'
    BY <2>2, <2>3, <2>4, <2>5, <2>6 DEF Distinct, Accounted
  <2>9. UnderWay'
    BY <2>2, <2>3 DEF UnderWay, Distinct
  <2>10. Complete'
    BY <2>2, <2>3 DEF Complete
  <2>11. Saving'
    BY <2>3 DEF Saving, Unsaved, cached
  <2> QED  BY <2>7, <2>8, <2>9, <2>10, <2>11
<1>2. CASE DeleteColumns
  <2>1. call \in DropCalls /\ call.step = "columns"
    BY <1>2, CallOfItsKind DEF DeleteColumns, CallType
  <2>2. call.op = "drop" /\ call'.op = "drop" /\ call'.step = "group"
        /\ call'.id = call.id /\ call'.group = call.group
    BY <1>2, <2>1 DEF DeleteColumns, Goto, DropCalls
  <2>3. columns' = {c \in columns : c.id # call.id}
        /\ faded' = {c \in faded : c.id # call.id}
        /\ UNCHANGED <<next_table_id, tables, allocated, own, orphans, unfinished, crashed,
                       unlinked>>
    BY <1>2 DEF DeleteColumns, ColumnsOf, FadedOf
  <2>4. Taken' = Taken /\ GroupsOfTables' = GroupsOfTables
    BY <2>2, <2>3 DEF Taken, GroupsOfTables
  <2>5. NamesApart' /\ NewName'
    BY <2>2, <2>3 DEF NamesApart, NewName
  <2>6. Distinct' /\ Accounted'
    BY <2>3, <2>4 DEF Distinct, Accounted
  <2>7. UnderWay'
    BY <2>2, <2>3 DEF UnderWay, ColumnsOf
  <2>8. ASSUME NEW t \in tables, t.id # call.id
        PROVE  {c \in columns' \cup faded' : c.id = t.id}
                  = {c \in columns \cup faded : c.id = t.id}
    BY <2>3, <2>8
  <2>9. Complete'
    BY <2>2, <2>3, <2>8 DEF Complete, UnderWay
  <2>10. \A p \in Places : mark'[p] # "clean"
    BY <1>2 DEF DeleteColumns, GetTwice
  <2>11. unsaved' = AllSaved
    BY <1>2, <2>10 DEF DeleteColumns, StillUnsaved, AllSaved
  <2>12. Unsaved' = {}
    BY <2>11 DEF Unsaved, AllSaved, Places
  <2>13. Saving'
    BY <2>3, <2>11, <2>12 DEF Saving, AllSaved, Places
  <2> QED  BY <2>5, <2>6, <2>7, <2>9, <2>13
<1>3. CASE DeleteGroup
  <2>1. call.op = "drop" /\ call.step = "group" /\ call'.op = "none"
        /\ allocated' = allocated \ {call.group} /\ unfinished' = unfinished \ {call.id}
        /\ unlinked' \subseteq unlinked \cup {call.group}
        /\ UNCHANGED <<next_table_id, tables, columns, own, orphans, faded, crashed,
                       mark, unsaved>>
    BY <1>3 DEF DeleteGroup, Return, NoCall
  <2>2. Taken = {call.group} /\ Taken' = {} /\ GroupsOfTables' = GroupsOfTables
    BY <2>1 DEF Taken, GroupsOfTables
  <2>3. ~crashed => (\A c \in columns : c.id # call.id) /\ (\A t \in tables : t.id # call.id)
    BY <2>1 DEF UnderWay, ColumnsOf
  <2>4. NamesApart' /\ NewName' /\ UnderWay'
    BY <2>1 DEF NamesApart, NewName, UnderWay
  <2>5. Distinct' /\ Accounted'
    BY <2>1, <2>2, <2>3 DEF Distinct, Accounted
  <2>6. Complete'
    BY <2>1, <2>3 DEF Complete
  <2>7. Saving'
    BY <2>1 DEF Saving, Unsaved
  <2> QED  BY <2>4, <2>5, <2>6, <2>7
<1>4. CASE DropFails
  <2>1. PICK gone \in SUBSET ColumnsOf(call.id), places \in Prefixes :
            /\ \A p \in Places \ places : gone \cap unsaved[p] = {}
            /\ columns' = columns \ gone
            /\ GetTwice(places)
    BY <1>4 DEF DropFails
  <2>2. call.op = "drop" /\ call'.op = "none" /\ orphans' = orphans \cup {call.group}
        /\ unsaved' = StillUnsaved
        /\ UNCHANGED <<next_table_id, tables, allocated, own, unfinished, faded, crashed,
                       unlinked>>
    BY <1>4 DEF DropFails, Fail, Return, NoCall
  <2>3. Taken = {call.group} /\ Taken' = {} /\ GroupsOfTables' = GroupsOfTables
    BY <2>2 DEF Taken, GroupsOfTables
  <2>4. NamesApart' /\ NewName' /\ UnderWay'
    BY <2>2 DEF NamesApart, NewName, UnderWay
  <2>5. columns' \subseteq columns
    BY <2>1
  <2>6. Distinct' /\ Accounted'
    BY <2>2, <2>3, <2>5 DEF Distinct, Accounted
  <2>7. ASSUME NEW t \in tables, t.id # call.id
        PROVE  {c \in columns' \cup faded' : c.id = t.id}
                  = {c \in columns \cup faded : c.id = t.id}
    BY <2>1, <2>2, <2>7 DEF ColumnsOf
  <2>8. Complete'
    BY <2>2, <2>7 DEF Complete, UnderWay
  <2>9. \A p \in Places :
            p \in places => mark'[p] = "altered" \/ mark'[p] = "none"
    BY <2>1 DEF GetTwice
  <2>10. \A p \in Places : unsaved'[p] \subseteq unsaved[p] \ gone
    BY <2>1, <2>2, <2>9 DEF StillUnsaved
  <2>11. ~crashed => Unsaved' \subseteq columns'
    BY <2>1, <2>10 DEF Saving, Unsaved, Places
  <2>12. Unsaved' \subseteq Unsaved
    BY <2>10 DEF Unsaved, Places
  <2>13. \A p \in Places : unsaved'[p] # {} => mark'[p] = "clean"
    BY <2>2 DEF StillUnsaved
  <2>14. ~crashed => unsaved'["first"] \cap unsaved'["last"] = {}
    BY <2>10 DEF Saving, Places
  <2>15. Saving'
    BY <2>2, <2>11, <2>12, <2>13, <2>14 DEF Saving
  <2> QED  BY <2>4, <2>6, <2>8, <2>15
<1> QED  BY <1>1, <1>2, <1>3, <1>4

(* What happens between the calls: pages leave the cache, and with one     *)
(* that is clean the records that were inserted into it.                   *)
LEMMA BetweenCallsStep ==
    ASSUME CallType, CatalogueType, CachedType, Phases, Consistent,
           \/ \E name \in Names : GetTable(name)
           \/ \E place \in Places : Evict(place)
           \/ EvictFree \/ FlushTable \/ Destroy
    PROVE  Consistent'
<1> USE DEF Consistent
<1>1. call.op = "none" /\ call' = call
      /\ UNCHANGED <<tables, own, unfinished, next_table_id, crashed>>
  BY DEF GetTable, Evict, EvictFree, FlushTable, Destroy, Idle, catalogue, named
<1>2. Taken = {} /\ Taken' = {} /\ GroupsOfTables' = GroupsOfTables
  BY <1>1 DEF Taken, GroupsOfTables
<1>3. NamesApart' /\ NewName' /\ UnderWay'
  BY <1>1 DEF NamesApart, NewName, UnderWay
<1>4. \A p \in Places : unsaved[p] \subseteq Unsaved
  BY CachedParts
<1>5. ASSUME columns' \subseteq columns,
             ~crashed => columns' \cup faded' = columns \cup faded,
             \/ UNCHANGED <<allocated, orphans>>
             \/ allocated' = allocated \cup unlinked /\ orphans' = orphans \cup unlinked
      PROVE  Distinct' /\ Accounted' /\ Complete'
  <2>1. ~crashed => unlinked \cap allocated = {}
    BY DEF Saving
  <2>2. ~crashed => unlinked \cap GroupsOfTables = {}
    BY <2>1 DEF Accounted
  <2>4. Distinct'
    BY <1>1, <1>2, <1>5, <2>2 DEF Distinct
  <2>5. Accounted'
    BY <1>1, <1>2, <1>5 DEF Accounted
  <2>6. Complete'
    BY <1>1, <1>5 DEF Complete
  <2> QED  BY <2>4, <2>5, <2>6
<1>6. CASE \E name \in Names : GetTable(name)
  <2>1. unsaved' = StillUnsaved
        /\ UNCHANGED <<columns, faded, allocated, orphans, unlinked>>
    BY <1>6 DEF GetTable, catalogue, named
  <2>2. Distinct' /\ Accounted' /\ Complete'
    BY <1>5, <2>1
  <2>3. Saving'
    BY <1>1, <2>1, FewerUnsaved DEF Saving
  <2> QED  BY <1>3, <2>2, <2>3
<1>7. CASE \E place \in Places : Evict(place)
  <2>1. PICK place \in Places : Evict(place)
    BY <1>7
  <2>2. /\ mark' = Away({place}) /\ unsaved' = StillUnsaved
        /\ columns' = columns \ unsaved[place] /\ faded' = faded \cup unsaved[place]
        /\ UNCHANGED <<allocated, orphans, unlinked>>
        /\ mark[place] # "none"
    BY <2>1 DEF Evict
  <2>3. ~crashed => columns' \cup faded' = columns \cup faded
    BY <1>4, <2>2 DEF Saving
  <2>4. Distinct' /\ Accounted' /\ Complete'
    BY <1>5, <2>2, <2>3
  <2>5. unsaved'[place] = {}
    BY <2>2 DEF Away, StillUnsaved
  <2>6. \A p \in Places : unsaved'[p] \subseteq unsaved[p]
    BY <2>2 DEF StillUnsaved
  <2>7. ASSUME ~crashed PROVE Saving'
    <3>1. \A c, d \in Unsaved \cup faded : c.id = d.id => c = d
      BY <2>7 DEF Saving
    <3>2. Unsaved' \subseteq Unsaved /\ faded' \subseteq Unsaved \cup faded
      BY <1>4, <2>2, <2>6 DEF Unsaved, Places
    <3>3. \A p \in Places : unsaved'[p] # {} => mark'[p] = "clean"
      BY <2>2 DEF StillUnsaved
    <3>4. \A c, d \in Unsaved' \cup faded' : c.id = d.id => c = d
      BY <3>1, <3>2
    <3>5. unsaved["first"] \cap unsaved["last"] = {} /\ Unsaved \subseteq columns
      BY <2>7 DEF Saving
    <3>6. Unsaved' \subseteq columns'
      BY <2>2, <2>5, <2>6, <3>5 DEF Unsaved, Places
    <3>7. unsaved'["first"] \cap unsaved'["last"] = {}
      BY <2>6, <3>5 DEF Places
    <3> QED  BY <1>1, <2>2, <2>7, <3>3, <3>4, <3>6, <3>7 DEF Saving
  <2>8. crashed => Saving'
    BY <1>1 DEF Saving
  <2> QED  BY <1>3, <2>4, <2>7, <2>8
<1>8. CASE EvictFree
  <2>1. /\ UNCHANGED <<columns, faded, mark, unsaved>> /\ unlinked' = {}
        /\ \/ UNCHANGED <<allocated, orphans>>
           \/ allocated' = allocated \cup unlinked /\ orphans' = orphans \cup unlinked
    BY <1>8 DEF EvictFree
  <2>2. Distinct' /\ Accounted' /\ Complete'
    BY <1>5, <2>1
  <2>3. Saving'
    BY <1>1, <2>1 DEF Saving, Unsaved
  <2> QED  BY <1>3, <2>2, <2>3
<1>9. CASE FlushTable
  <2>1. /\ UNCHANGED <<columns, faded, allocated, orphans, unsaved, unlinked>>
        /\ mark' = Away({p \in Places : mark[p] = "altered"})
    BY <1>9 DEF FlushTable, Flush
  <2>2. Distinct' /\ Accounted' /\ Complete'
    BY <1>5, <2>1
  <2>3. \A p \in Places : mark[p] = "clean" => mark'[p] = "clean"
    BY <2>1 DEF Away
  <2>4. Saving'
    BY <1>1, <2>1, <2>3 DEF Saving, Unsaved
  <2> QED  BY <1>3, <2>2, <2>4
<1>10. CASE Destroy
  <2>1. /\ columns' = columns \ Unsaved /\ faded' = faded \cup Unsaved
        /\ allocated' = allocated \cup unlinked /\ orphans' = orphans \cup unlinked
        /\ unsaved' = AllSaved /\ unlinked' = {}
    BY <1>10 DEF Destroy, Close
  <2>2. ~crashed => columns' \cup faded' = columns \cup faded
    BY <2>1 DEF Saving
  <2>3. Distinct' /\ Accounted' /\ Complete'
    BY <1>5, <2>1, <2>2
  <2>4. Unsaved' = {}
    BY <2>1 DEF Unsaved, AllSaved, Places
  <2>5. Saving'
    BY <1>1, <2>1, <2>4 DEF Saving, AllSaved, Places
  <2> QED  BY <1>3, <2>3, <2>5
<1> QED  BY <1>6, <1>7, <1>8, <1>9, <1>10
-----------------------------------------------------------------------------
(* The inductive invariant.                                                *)
Inv ==
    /\ CallType /\ CatalogueType /\ CachedType /\ FlushedType
    /\ Phases /\ Born /\ Consistent

LEMMA InvInit == Init => Inv
<1> SUFFICES ASSUME Init PROVE Inv
  OBVIOUS
<1>1. Phases /\ Born
  BY DEF Init, Phases, Born, NoCall
<1>2. tables = {} /\ columns = {} /\ call.op = "none"
      /\ allocated = {} /\ own = {} /\ orphans = {}
      /\ faded = {} /\ unsaved = AllSaved /\ unlinked = {} /\ Unsaved = {}
  BY DEF Init, NoCall, Unsaved, AllSaved, Places
<1>3. Taken = {} /\ GroupsOfTables = {}
  BY <1>2 DEF Taken, GroupsOfTables
<1>4. Consistent
  BY <1>2, <1>3 DEF Consistent, NamesApart, NewName, Distinct, Saving, AllSaved,
                    Places, Accounted, UnderWay, Complete
<1> QED  BY <1>1, <1>4, TypeInit DEF Inv

LEMMA ConsistentStep ==
    ASSUME CallType, CatalogueType, CachedType, Phases, Consistent, [Next]_vars
    PROVE  Consistent'
<1>1. CASE UNCHANGED vars \/ StartFindsNothing \/ Start \/ StartAgain
  <2>1. UNCHANGED <<catalogue, cached, orphans, unfinished, faded, crashed>>
    BY <1>1 DEF StartFindsNothing, Start, StartAgain, vars, named
  <2>2. \/ call' = call
        \/ call.op = "none" /\ call'.op = "start"
    BY <1>1 DEF Phases, StartFindsNothing, Start, StartAgain, vars
  <2>3. Unconcerned
    BY <2>1, <2>2 DEF Unconcerned, catalogue
  <2> QED  BY <2>3, UnconcernedStep
<1>2. CASE Crash
  BY <1>2 DEF Crash, Consistent, NamesApart, NewName, Distinct, Saving, Accounted, UnderWay,
              Complete
<1> QED
  BY <1>1, <1>2, StartingStep, CreateStep, InsertTableStep, InsertColumnStep,
     DropStep, BetweenCallsStep
  DEF Next

LEMMA InvStep == Inv /\ [Next]_vars => Inv'
BY CallTypeStep, CatalogueTypeStep, CachedTypeStep, PhasesStep, ConsistentStep DEF Inv

LEMMA Invariance == Spec => []Inv
BY InvInit, InvStep, PTL DEF Spec

(* The types of the catalogue, of the running call and of what failed      *)
(* calls have left, for all names, schemas and groups.                     *)
THEOREM TypeCorrect == Spec => []TypeOK
<1>1. Inv => TypeOK
  BY TypeInParts DEF Inv
<1> QED  BY <1>1, Invariance, PTL

(* No name of the catalogue begins another one, whatever create, drop,     *)
(* errors and restarts do, so get_table and drop_table find the one table. *)
THEOREM LookupsUnambiguous == Spec => []NamesApart
<1>1. Inv => NamesApart
  BY DEF Inv, Consistent
<1> QED  BY <1>1, Invariance, PTL

(* A table that was created to its end has the group and the id its record *)
(* says and of its columns lacks at most one, lost with a page of          *)
(* TABLE_COLUMNS_TABLE that was written to and got only once.              *)
THEOREM CreatedTablesComplete == Spec => []TablesComplete
<1>1. ASSUME Inv PROVE TablesComplete
  <2>1. ASSUME ~crashed, NEW t \in tables, t.id \notin unfinished
        PROVE  /\ t.group \in allocated \ (own \cup orphans)
               /\ {c.index : c \in ColumnsOf(t.id) \cup FadedOf(t.id)}
                     = 1 .. t.columns_amount
               /\ \A c, d \in FadedOf(t.id) : c = d
               /\ \A s \in tables \ {t} : s.id # t.id /\ s.group # t.group
    <3>1. t.group \in GroupsOfTables
      BY DEF GroupsOfTables
    <3>2. t.group \in allocated \ (own \cup orphans)
      BY <1>1, <2>1, <3>1 DEF Inv, Consistent, Accounted, Distinct
    <3>3. {c.index : c \in ColumnsOf(t.id) \cup FadedOf(t.id)} = 1 .. t.columns_amount
      <4>1. ColumnsOf(t.id) \cup FadedOf(t.id) = {c \in columns \cup faded : c.id = t.id}
        BY DEF ColumnsOf, FadedOf
      <4> QED  BY <1>1, <2>1, <4>1 DEF Inv, Consistent, Complete
    <3>5. \A c, d \in FadedOf(t.id) : c = d
      BY <1>1, <2>1 DEF Inv, Consistent, Saving, FadedOf
    <3>4. \A s \in tables \ {t} : s.id # t.id /\ s.group # t.group
      BY <1>1, <2>1 DEF Inv, Consistent, Distinct
    <3> QED  BY <3>2, <3>3, <3>4, <3>5
  <2> QED  BY <2>1 DEF TablesComplete
<1> QED  BY <1>1, Invariance, PTL

(* Between calls every page group and every column record belongs to a     *)
(* table or is what a failed call has left.                                *)
THEOREM DropLeavesNothing == Spec => []NothingLeft
<1>1. ASSUME Inv PROVE NothingLeft
  <2> SUFFICES ASSUME ~crashed, call.op = "none"
               PROVE  /\ allocated = own \cup {t.group : t \in tables} \cup orphans
                      /\ {c.id : c \in columns} \subseteq {t.id : t \in tables} \cup unfinished
    BY DEF NothingLeft
  <2>1. Taken = {}
    BY DEF Taken
  <2> QED  BY <1>1, <2>1 DEF Inv, Consistent, Accounted, GroupsOfTables
<1> QED  BY <1>1, Invariance, PTL

(* Once flushed, a database opens again, over errors, restarts and a       *)
(* crash.                                                                  *)
THEOREM FlushedOpensAgain == Spec => []OpensAgain
<1>1. Inv => OpensAgain
  BY DEF Inv, Born, OpensAgain
<1> QED  BY <1>1, Invariance, PTL
=============================================================================
