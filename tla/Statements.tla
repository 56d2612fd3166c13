----------------------------- MODULE Statements -----------------------------
(***************************************************************************)
(* The life of a statement and of its result, from                         *)
(* database_manager_execute_statement to database_manager_finish_statement, *)
(* with the scans over tables that its execution makes: statements.c,      *)
(* database_manager.c, record_view.c and the loops of table_manager.c.     *)
(*                                                                         *)
(* One thread runs one statement at a time; only the reader of a query's   *)
(* result acts between two calls.  A call is one action, and it may end    *)
(* with an error at any record.                                            *)
(*                                                                         *)
(* "live" are the pieces of memory that were allocated for the statement   *)
(* and its result, and the strings of records, which outlive both.         *)
(* "wrong" collects what the code frees or follows although it is not      *)
(* live; from there on nothing is defined and the model stops.             *)
(***************************************************************************)
EXTENDS Records

CONSTANTS
    Schema,      \* table -> its columns
    Queries, Inserts, Updates, Deletes,   \* the statements callers make
    Catalogues,  \* create table, drop table
    MaxRows,     \* bound: table -> how many records
    IOErrors,    \* a scan or an insertion may fail at any record
    None

Tables == DOMAIN Schema

ASSUME StatementsAssumption ==
    /\ MaxRows \in [Tables -> Nat] /\ IOErrors \in BOOLEAN
    /\ \A s \in Queries : s.op = "query" /\ Len(s.joins) \in Nat
    /\ \A t \in Tables : AreColumns(Schema[t])
    /\ \A s \in Inserts :
          /\ s.op = "insert" /\ Len(s.values) \in Nat /\ AreColumns(s.columns)
          \* record_group_insert compares number and types of the values
          /\ \A k \in 1 .. Len(s.values) : IsRecord(s.columns, s.values[k])
    /\ \A s \in Updates :
          /\ s.op = "update" /\ Len(s.set) \in Nat
          /\ \A k \in 1 .. Len(s.set) : s.set[k].expression \in Expressions
    /\ \A s \in Deletes : s.op = "delete"
    /\ \A s \in Catalogues : s.op \in {"create", "drop"}
    /\ None \notin Queries \cup Inserts \cup Updates \cup Deletes \cup Catalogues

VARIABLES
    rows,        \* table -> its items in the order of a scan
    current,     \* current_statement
    successful,  \* was_statement_successful
    view,        \* the record view of the current result
    live, wrong,
    returned,    \* the records the reader of the result was given
    stopped,     \* the reader was given an error
    foreign      \* tables that hold values of a type their columns do not have

vars == <<rows, current, successful, view, live, wrong, returned, stopped, foreign>>

Blank == <<>>

(* A view before its first record is looked for, and none at all.          *)
NewView == [holders |-> [h \in {1, 2} |-> Blank], handed |-> 1, at |-> 0,
            is_empty |-> FALSE, failed |-> FALSE]
NoView == [NewView EXCEPT !.handed = 0]

Init ==
    /\ rows = [t \in Tables |-> <<>>]
    /\ current = None
    /\ successful = TRUE
    /\ view = NoView
    /\ live = {}
    /\ wrong = {}
    /\ returned = <<>>
    /\ stopped = FALSE
    /\ foreign = {}
-----------------------------------------------------------------------------
(* query: the where's string belongs to the statement and, because         *)
(* literal_expression_clone copies the pointer, to the view as well.       *)
StringOf(s) == IF "where" \in DOMAIN s /\ HasString(s.where) THEN {"string"} ELSE {}

(* The strings of records, each of which is a copy of its own: of the      *)
(* catalogue's, which every statement looks into, of those an insert       *)
(* brings, and of those a scan reads, or an update sets, in a holder.      *)
RecordStrings == {"names", "values", "fields"}
HasStrings(columns) == \E k \in DOMAIN columns : columns[k].type = "STRING"
NamesOf(s) == IF Tables # {} \/ s.op = "create" THEN {"names"} ELSE {}
ValuesOf(s) ==
    IF s.op = "insert" /\ s.values # <<>> /\ HasStrings(s.columns) THEN {"values"} ELSE {}

(* Whether a scan comes to a record depends on where it ends.              *)
FieldsOf(tables) ==
    {{}} \cup (IF \E t \in tables : HasStrings(Schema[t]) /\ rows[t] # <<>>
              THEN {{"fields"}} ELSE {})

(* clear_record_value destroys a string when string_is_null holds, and it  *)
(* holds for none that was allocated.                                      *)
clear_record_value(strings) == {}

(* statement_destroy, then statement_result_destroy, or only free.         *)
StatementFrees(s) == {"statement"} \cup StringOf(s) \cup clear_record_value(ValuesOf(s))
ViewFrees(s) == {"view"} \cup StringOf(s) \cup clear_record_value(live \cap {"fields"})
TablesFreed(s) == {"main", "lists"} \cup (IF s.joins = <<>> THEN {} ELSE {"joined"})
ResultFrees_Always(s) ==
    {"result"} \cup (IF s.op = "query" THEN ViewFrees(s) \cup TablesFreed(s) ELSE {})
ResultFrees(s) ==
    {"result"} \cup
    (IF successful /\ s.op = "query" THEN ViewFrees(s) \cup TablesFreed(s) ELSE {})

(* database_manager_finish_statement                                       *)
Finished ==
    IF current = None THEN [live |-> live, wrong |-> {}]
    ELSE LET first == StatementFrees(current)
             second == ResultFrees(current)
         IN  [live |-> live \ (first \cup second),
              wrong |-> (first \ live) \cup (second \ (live \ first))]

Finish ==
    /\ wrong = {} /\ current # None
    /\ live' = Finished.live /\ wrong' = Finished.wrong
    /\ current' = None
    /\ view' = NoView
    /\ returned' = <<>> /\ stopped' = FALSE
    /\ UNCHANGED <<rows, successful, foreign>>

(* The first half of database_manager_execute_statement.                   *)
Begin(s) ==
    /\ wrong = {} /\ Finished.wrong = {}
    /\ current' = s
    /\ returned' = <<>> /\ stopped' = FALSE

Begun(s) ==
    Finished.live \cup {"statement", "result"} \cup StringOf(s) \cup NamesOf(s) \cup ValuesOf(s)

Succeeds == successful' = TRUE
Fails_Not == successful' = TRUE
Fails == successful' = FALSE
-----------------------------------------------------------------------------
(* Where an error of the file ends a loop over n records; n + 1 if none.   *)
Ends(n) == IF IOErrors THEN 1 .. n + 1 ELSE {n + 1}

Item(t, k) == rows[t][k]
RowOf(t, item) == record_deserialize(Schema[t], item)
Row(t, k) == RowOf(t, Item(t, k))

(* The columns of a table and of the first j tables joined to it.          *)
Columns(main, joins, j) ==
    LET upTo[k \in 0 .. Len(joins)] ==
          IF k = 0 THEN Schema[main] ELSE upTo[k - 1] \o Schema[joins[k].what]
    IN  upTo[j]

(* table_manager_find_one: the first record of the table for which the     *)
(* predicate holds together with the record so far.                        *)
Tested(record, holds) ==
    IF Failed(holds) THEN holds
    ELSE [error |-> "none", value |-> record, holds |-> IsTrue(holds.value)]
Tried(columns, record, row, on) ==
    IF Failed(row) THEN row
    ELSE Tested(record \o row.value, predicate_apply(columns, record \o row.value, on))
FirstOf(tried, k) == IF k = 0 THEN Error("NO_RECORD_FOUND") ELSE tried[k]
FirstTried(tried) ==
    FirstOf(tried, First({k \in DOMAIN tried : Failed(tried[k]) \/ tried[k].holds}))
find_one(columns, record, what, on) ==
    FirstTried([k \in DOMAIN rows[what] |-> Tried(columns, record, Row(what, k), on)])

(* One turn of record_view_next: the record the k-th item of the main      *)
(* table makes with the joined tables, and whether the predicate holds.    *)
WithPartner(before, columns, join) ==
    IF Failed(before) THEN before ELSE find_one(columns, before.value, join.what, join.on)
Joined(s, k) ==
    LET upTo[j \in 0 .. Len(s.joins)] ==
          IF j = 0 THEN Row(s.from, k)
          ELSE WithPartner(upTo[j - 1], Columns(s.from, s.joins, j), s.joins[j])
    IN  upTo[Len(s.joins)]

(* The record, and whether the predicate holds.                            *)
Judged(s, record) ==
    IF Failed(record) THEN record
    ELSE Tested(record.value,
                predicate_apply(Columns(s.from, s.joins, Len(s.joins)), record.value,
                                s.where))

(* The look ahead goes on to the first record that holds or fails.         *)
Found(judged, k, end, last) ==
    IF k = 0 THEN [found |-> "end", at |-> last, record |-> Blank]
    ELSE IF k = end \/ Failed(judged[k]) THEN [found |-> "error", at |-> k, record |-> Blank]
    ELSE [found |-> "row", at |-> k, record |-> judged[k].value]
Ahead(judged, end, last) ==
    Found(judged,
          First({k \in DOMAIN judged :
                   k = end \/ Failed(judged[k]) \/ judged[k].holds}),
          end, last)
LookAhead(s, after, end) ==
    Ahead([k \in after + 1 .. Len(rows[s.from]) |-> Judged(s, Joined(s, k))], end,
          Len(rows[s.from]))

(* record_view_next: the holders change places, the look ahead fills the   *)
(* one that is not handed out.                                             *)
Filled(v, ahead, handed, filled) ==
    [holders |-> [v.holders EXCEPT ![filled] = ahead.record],
     handed |-> handed,
     at |-> ahead.at,
     is_empty |-> ahead.found = "end",
     failed |-> ahead.found = "error"]

record_view_next_InPlace(s, v, end) ==
    Filled(v, LookAhead(s, v.at, end), v.handed, v.handed)
record_view_next(s, v, end) ==
    Filled(v, LookAhead(s, v.at, end), 3 - v.handed, v.handed)

-----------------------------------------------------------------------------
(* query_statement_execute.  The main table is missing:                    *)
QueryUnknown(s) ==
    /\ Begin(s)
    /\ s.from \notin Tables
    /\ live' = Begun(s)
    /\ Fails
    /\ view' = NoView
    /\ UNCHANGED <<rows, wrong, foreign>>

(* A joined table is missing: all joins_num pointers are followed and      *)
(* freed, those that were not set as well, and the main table is not.      *)
QueryMissesJoin(s) ==
    /\ Begin(s)
    /\ s.from \in Tables
    /\ \E k \in 1 .. Len(s.joins) : s.joins[k].what \notin Tables
    /\ live' = Begun(s) \cup {"main"}
    /\ wrong' = {"joined"}
    /\ Fails
    /\ view' = NoView
    /\ UNCHANGED <<rows, foreign>>

Known(s) == s.from \in Tables /\ \A k \in 1 .. Len(s.joins) : s.joins[k].what \in Tables
Scanned(s) == {s.from} \cup {s.joins[k].what : k \in 1 .. Len(s.joins)}

(* logical_operator leaves clone_impl unset.                               *)
QueryClonesLogical(s) ==
    /\ Begin(s)
    /\ Known(s)
    /\ HasLogical(s.where)
    /\ live' = Begun(s) \cup TablesFreed(s)
    /\ wrong' = {"clone_impl"}
    /\ Fails
    /\ view' = NoView
    /\ UNCHANGED <<rows, foreign>>

Query(s) ==
    /\ Begin(s)
    /\ Known(s)
    /\ ~HasLogical(s.where)
    /\ \E end \in Ends(Len(rows[s.from])), fields \in FieldsOf(Scanned(s)) :
          \E v \in {record_view_next(s, NewView, end)} :
              IF v.failed
              THEN \* record_view_destroy and table_destroy in the handlers
                   /\ live' = (Begun(s) \ StringOf(s)) \cup fields
                   /\ view' = NoView
                   /\ Fails
              ELSE /\ live' = Begun(s) \cup {"view"} \cup TablesFreed(s) \cup fields
                   /\ view' = v
                   /\ Succeeds
    /\ UNCHANGED <<rows, wrong, foreign>>

(* The reader of the result asks for the next record.                      *)
Read ==
    /\ wrong = {} /\ view # NoView
    /\ ~view.is_empty /\ ~stopped
    /\ \E end \in Ends(Len(rows[current.from])) :
          \E v \in {record_view_next(current, view, end)} :
              /\ view' = v
              /\ stopped' = v.failed
              /\ returned' = IF v.failed THEN returned
                             ELSE Append(returned, v.holders[v.handed])
    /\ \E fields \in FieldsOf(Scanned(current)) : live' = live \cup fields
    /\ UNCHANGED <<rows, current, successful, wrong, foreign>>
-----------------------------------------------------------------------------
Quiet(s, scanned) ==
    /\ Begin(s)
    /\ \E fields \in FieldsOf(scanned) : live' = Begun(s) \cup fields
    /\ view' = NoView

(* A statement on a table that does not exist.                             *)
Unknown(s, t) ==
    /\ Quiet(s, {})
    /\ t \notin Tables
    /\ Fails
    /\ UNCHANGED <<rows, wrong, foreign>>

(* create_table_statement_execute and drop_table_statement_execute: what    *)
(* TableManager does, and either outcome of it.                            *)
Catalogue(s) ==
    /\ Quiet(s, {})
    /\ Succeeds \/ Fails
    /\ UNCHANGED <<rows, wrong, foreign>>

(* table_manager_insert: record after record; the columns are those the    *)
(* record group was made with and are not compared with the table's.       *)
Insert(s) ==
    /\ Quiet(s, {})
    /\ s.into \in Tables
    /\ Len(rows[s.into]) + Len(s.values) <= MaxRows[s.into]
    /\ \E end \in Ends(Len(s.values)) :
          /\ rows' = [rows EXCEPT ![s.into] = @ \o
                        [k \in 1 .. end - 1 |-> serialize_columns(s.columns, s.values[k])]]
          /\ successful' = (end > Len(s.values))
          /\ foreign' = IF end > 1 /\ s.columns # Schema[s.into]
                        THEN foreign \cup {s.into} ELSE foreign
    /\ UNCHANGED wrong

ChosenOf(s, t, row) ==
    IF Failed(row) THEN row ELSE predicate_apply(Schema[t], row.value, s.where)
Chosen(s, t, k) == ChosenOf(s, t, Row(t, k))

Changed(s, t, k) ==
    record_update_apply(Schema[t], Row(t, k).value, t, s.set)

(* record_serialize_into writes over the item, whose size stays.           *)
Overwritten(old, new) == new \o SubSeq(old, Len(new) + 1, Len(old))

(* A record is chosen and what becomes of it; the first record at which    *)
(* the loop ends with an error, or the end.                                *)
EndOr(k, n) == IF k = 0 THEN n + 1 ELSE k
UpdateEnd(chosen, changed, end) ==
    EndOr(First({k \in DOMAIN chosen :
                   \/ k >= end
                   \/ Failed(chosen[k])
                   \/ IsTrue(chosen[k].value) /\ Failed(changed[k])}),
          Len(chosen))

NewItem(t, changed) == serialize_columns(Schema[t], changed.value)

TypesKept(s) ==
    \A k \in 1 .. Len(s.set) :
        LET columns == Schema[s.what]
            e == s.set[k].expression
        IN  /\ AsDeclared(columns, e)
            /\ DeclaredAt(columns, find_schema(columns, s.what, s.set[k].name), e.type)

(* table_manager_update, always in place.  Values whose type is not the    *)
(* column's cannot be told apart any more, so the model stops at them.     *)
UpdateUpTo(s, t, end, hit, items) ==
    /\ successful' = (end > Len(rows[t]))
    /\ IF ~TypesKept(s)
       THEN /\ wrong' = IF hit = {} THEN {} ELSE {"type"}
            /\ UNCHANGED rows
       ELSE /\ rows' = [rows EXCEPT ![t] = [k \in DOMAIN @ |->
                          IF k \in hit THEN Overwritten(@[k], items[k]) ELSE @[k]]]
            /\ wrong' = IF \E k \in hit : Len(items[k]) > Len(Item(t, k))
                        THEN {"item"} ELSE {}

Update(s) ==
    /\ s.what \in Tables
    /\ Quiet(s, {s.what})
    /\ \E chosen \in {[k \in DOMAIN rows[s.what] |-> Chosen(s, s.what, k)]},
          e \in Ends(Len(rows[s.what])) :
       \E changed \in {[k \in DOMAIN chosen |->
                          IF IsTrue(chosen[k].value) THEN Changed(s, s.what, k)
                          ELSE chosen[k]]} :
       \E end \in {UpdateEnd(chosen, changed, e)} :
       \E hit \in {{k \in 1 .. end - 1 : IsTrue(chosen[k].value)}} :
          UpdateUpTo(s, s.what, end, hit, [k \in hit |-> NewItem(s.what, changed[k])])
    /\ UNCHANGED foreign

DeleteEnd(chosen, end) ==
    EndOr(First({k \in DOMAIN chosen : k >= end \/ Failed(chosen[k])}), Len(chosen))

(* The items for which keep holds, in their order.                         *)
Kept(items, keep) ==
    LET from[k \in 0 .. Len(items)] ==
          IF k = 0 THEN <<>>
          ELSE IF k \in keep THEN Append(from[k - 1], items[k]) ELSE from[k - 1]
    IN  from[Len(items)]

(* table_manager_delete, then the flush of the table, which may fail too.  *)
Delete(s) ==
    /\ s.from \in Tables
    /\ Quiet(s, {s.from})
    /\ \E chosen \in {[k \in DOMAIN rows[s.from] |-> Chosen(s, s.from, k)]},
          e \in Ends(Len(rows[s.from])) :
       \E end \in {DeleteEnd(chosen, e)} :
          /\ rows' = [rows EXCEPT ![s.from] = Kept(@,
                        {k \in DOMAIN @ : k >= end \/ ~IsTrue(chosen[k].value)})]
          /\ \/ successful' = (end > Len(chosen))
             \/ IOErrors /\ Fails
    /\ UNCHANGED <<wrong, foreign>>

Next ==
    \/ \E s \in Queries :
          QueryUnknown(s) \/ QueryMissesJoin(s) \/ QueryClonesLogical(s) \/ Query(s)
    \/ Read
    \/ \E s \in Inserts : Insert(s) \/ Unknown(s, s.into)
    \/ \E s \in Updates : Update(s) \/ Unknown(s, s.what)
    \/ \E s \in Deletes : Delete(s) \/ Unknown(s, s.from)
    \/ \E s \in Catalogues : Catalogue(s)
    \/ Finish

Spec == Init /\ [][Next]_vars
-----------------------------------------------------------------------------
(* The types of the manager's fields; a result exists with its statement.  *)
TypeOK ==
    /\ current \in Queries \cup Inserts \cup Updates \cup Deletes \cup Catalogues \cup {None}
    /\ \A t \in Tables : Len(rows[t]) <= MaxRows[t]
    /\ live \subseteq {"statement", "string", "result", "main", "joined", "lists", "view"}
                   \cup RecordStrings
    /\ successful \in BOOLEAN /\ stopped \in BOOLEAN
    /\ foreign \subseteq Tables
    /\ (view # NoView) = (current # None /\ current.op = "query" /\ successful /\ wrong = {})

(* What a query over the items "all" should give, of the main records up   *)
(* to the n-th: each with the first partner in every joined table, if the  *)
(* predicate holds.                                                        *)
FirstPartner(all, s, j, before) ==
    LET what == s.joins[j].what
        with(i) == before \o RowOf(what, all[what][i]).value
    IN  with(First({i \in DOMAIN all[what] :
            IsTrue(predicate_apply(Columns(s.from, s.joins, j), with(i),
                                   s.joins[j].on).value)}))
Chain(all, s, k) ==
    LET upTo[j \in 0 .. Len(s.joins)] ==
          IF j = 0 THEN RowOf(s.from, all[s.from][k]).value
          ELSE FirstPartner(all, s, j, upTo[j - 1])
    IN  upTo[Len(s.joins)]

Holds(all, s, k) ==
    IsTrue(predicate_apply(Columns(s.from, s.joins, Len(s.joins)), Chain(all, s, k),
                           s.where).value)
Answers(all, s, n) ==
    LET upTo[k \in 0 .. n] ==
          IF k = 0 THEN <<>>
          ELSE IF Holds(all, s, k) THEN Append(upTo[k - 1], Chain(all, s, k))
          ELSE upTo[k - 1]
    IN  upTo[n]

(* A view looks one record ahead into a second holder (record_view.c:16),  *)
(* so that has_next is known before it is asked: what the reader was given *)
(* and what waits in the other holder are the answer to the query so far,  *)
(* all of it once has_next says no, and the record given last stays where  *)
(* its pointer points while the next one is looked for.                    *)
QueryRight ==
    view # NoView /\ ~stopped =>
        /\ returned \o (IF view.is_empty THEN <<>> ELSE <<view.holders[3 - view.handed]>>)
              = Answers(rows, current, view.at)
        /\ view.is_empty => view.at = Len(rows[current.from])
        /\ returned # <<>> => view.holders[view.handed] = returned[Len(returned)]

(* Every stored item can be read back as a record of its table, which      *)
(* would be written as the same cells again, over insertions, updates in   *)
(* place by shorter strings and scans that stop half-way; unless the       *)
(* records were inserted with another table's columns                      *)
(* (insert_statement_execute compares nothing), or wrong says that a       *)
(* longer string or a value of another type was written.                   *)
WrittenAs(t, record, item) ==
    LET cells == serialize_columns(Schema[t], record)
    IN  cells = SubSeq(item, 1, Len(cells))
RowsReadable ==
    wrong = {} =>
        \A t \in Tables \ foreign : \A k \in 1 .. Len(rows[t]) :
            /\ ~Failed(Row(t, k))
            /\ IsRecord(Schema[t], Row(t, k).value)
            /\ WrittenAs(t, Row(t, k).value, Item(t, k))

(* What was allocated for a statement and its result is freed once when    *)
(* the next one begins, whether it succeeded or failed, and a view that    *)
(* can be read has what it reads from.  Two things are not: the string of  *)
(* a query's predicate, which the statement and the view both free, and    *)
(* the strings of records, which nothing frees; they, and nothing else,    *)
(* stay behind.                                                            *)
FreedOnce ==
    wrong = {} =>
        /\ current = None => live \subseteq RecordStrings
        /\ current # None =>
              /\ Finished.live = live \cap RecordStrings
              /\ Finished.wrong \subseteq
                    IF current.op = "query" THEN StringOf(current) ELSE {}
        /\ view # NoView =>
              ViewFrees(current) \cup TablesFreed(current) \cup {"statement", "result"}
                 \subseteq live
=============================================================================
