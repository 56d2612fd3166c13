------------------------------ MODULE PageStore ------------------------------
(***************************************************************************)
(* What the layers above the page cache may rely on, without the cache: a  *)
(* store of pages that shows a caller the last value of a page, saves      *)
(* values behind the caller's back and all of them when it is flushed, and *)
(* goes back to what was saved when the process dies.  PageManager         *)
(* implements it.                                                          *)
(*                                                                         *)
(* The promise has exceptions.  A page is "undefined" once the store       *)
(* promises nothing of it, and every action says which pages may become    *)
(* so: without a failure or a wrapped counter, only a page with a change   *)
(* the store was not told of ("unmarked"), and at a crash a page that was  *)
(* never saved.                                                            *)
(***************************************************************************)
EXTENDS Naturals

CONSTANTS
    MaxPage, Contents, Zero, Absent,
    Failures,  \* reads and writes of the file may fail
    Careful    \* callers get a page between two creations

VARIABLES
    amount,      \* how many pages there are
    value,       \* the last value of each page
    saved,       \* the value that is in the file, as its reader sees it
    settled,     \* ... and as it outlives the process
    undefined,
    unmarked,
    seen,        \* the page a caller got last, and what it shows him now
    saving,      \* no, running, done, closing: where a flush stands
    miscounted,  \* a failure has kept the page count out of the file
    wrap,        \* the next access wraps the relevancy counter
    cut          \* pages a caller has a pointer to that leads nowhere now

vars == <<amount, value, saved, settled, undefined, unmarked, seen, saving,
          miscounted, wrap, cut>>

Pages == 1 .. MaxPage
Nothing == [page |-> 0, contents |-> Zero]

Truthful ==
    seen.page \in Pages \ undefined => seen.contents = value[seen.page]

AllSaved ==
    \A p \in 1 .. amount : p \in undefined \cup unmarked \/ saved[p] = value[p]

(* Pages go to the file whole, with their last value; a write behind the   *)
(* end of the file leaves zero bytes in the gap.                           *)
WriteBack ==
    /\ \A p \in Pages \ undefined :
          \/ saved'[p] \in {saved[p], value[p]}
          \/ saved[p] = Absent /\ saved'[p] = Zero
    /\ settled' \in {settled, saved, saved'}

(* Reusing a cache entry costs at most an unmarked change, and pages that  *)
(* are given up; it leaves the caller's pointers in place.                 *)
Reuse(givenUp) ==
    /\ WriteBack
    /\ undefined \subseteq undefined'
    /\ ~wrap => undefined' \subseteq undefined \cup unmarked \cup givenUp
    /\ ~wrap /\ Careful => cut' \subseteq cut
    /\ unmarked' \subseteq unmarked
    /\ UNCHANGED <<saving, miscounted>>

Init ==
    /\ amount = 0
    /\ value = [p \in Pages |-> Zero]
    /\ saved = [p \in Pages |-> Absent]
    /\ settled = saved
    /\ undefined = {}
    /\ unmarked = {}
    /\ seen = Nothing
    /\ saving = "no"
    /\ miscounted = FALSE
    /\ wrap = FALSE
    /\ cut = {}
-----------------------------------------------------------------------------
(* The page count of the file covers every page that was saved.            *)
Open ==
    /\ seen' = Nothing
    /\ amount' \in 0 .. MaxPage
    /\ miscounted \/ \A p \in Pages : saved[p] # Absent => p <= amount'
    /\ UNCHANGED <<value, saved, settled, undefined, unmarked, saving, miscounted>>

Create ==
    /\ saving = "no"
    /\ amount' = amount + 1
    /\ value' = [value EXCEPT ![amount'] = Zero]
    /\ seen' = [page |-> amount', contents |-> Zero]
    /\ Reuse({})

Get(p) ==
    /\ saving = "no"
    /\ seen'.page = p
    /\ Truthful'
    /\ Reuse({})
    /\ UNCHANGED <<amount, value>>

(* A page that cannot be read is given up.                                 *)
GetFails(p) ==
    /\ saving = "no"
    /\ Failures \/ saved[p] = Absent \/ p \in undefined
    /\ seen' = Nothing
    /\ Reuse({p})
    /\ UNCHANGED <<amount, value>>

(* The change is unmarked only if the page had none waiting for the file,  *)
(* and harms a page only through a pointer that leads nowhere.             *)
Write(p, d) ==
    /\ saving = "no"
    /\ value' = [value EXCEPT ![p] = d]
    /\ unmarked' \in {unmarked, unmarked \cup {p}}
    /\ unmarked' # unmarked => p \in undefined \/ saved[p] = value[p]
    /\ undefined \subseteq undefined'
    /\ p \notin cut => undefined' = undefined
    /\ seen'.page = seen.page /\ Truthful'
    /\ UNCHANGED <<amount, saved, settled, saving, miscounted, cut>>

(* A write of the file fails before a page is reused.                      *)
Fail ==
    /\ Failures
    /\ saving = "no"
    /\ seen' = Nothing
    /\ settled' \in {settled, saved}
    /\ UNCHANGED <<amount, value, saved, undefined, unmarked, saving>>

Flush ==
    /\ saving = "no"
    /\ saving' \in {"running", "closing"}
    /\ seen' = Nothing
    /\ UNCHANGED <<amount, value, saved, settled, undefined, unmarked, miscounted>>

(* The flush has come to its end only when everything is saved.            *)
FlushPart ==
    /\ saving \in {"running", "closing"}
    /\ WriteBack
    /\ \/ saving' = saving
       \/ saving = "running" /\ saving' = "done" /\ AllSaved'
    /\ UNCHANGED <<amount, value, undefined, unmarked, seen, miscounted>>

FlushFails ==
    /\ Failures
    /\ settled' \in {settled, saved}
    /\ \/ /\ saving = "running" /\ saving' = "no"
          /\ UNCHANGED undefined
       \/ /\ saving = "closing" /\ UNCHANGED saving
          /\ undefined \subseteq undefined'
    /\ UNCHANGED <<amount, value, saved, unmarked, seen>>

FlushEnds ==
    /\ saving = "done"
    /\ saving' = "no"
    /\ UNCHANGED <<amount, value, saved, settled, undefined, unmarked, seen,
                   miscounted>>

(* Nothing that the store knows of is lost when it is closed.              *)
Close ==
    /\ saving = "closing"
    /\ saving' = "no"
    /\ AllSaved
    /\ settled' = saved
    /\ undefined' = undefined \cup unmarked
    /\ unmarked' = {}
    /\ UNCHANGED <<amount, value, saved, seen, miscounted>>

Crash ==
    /\ saved' \in {saved, settled}
    /\ settled' = saved'
    /\ value' = [p \in Pages |-> IF saved'[p] = Absent THEN Zero ELSE saved'[p]]
    /\ undefined' = {p \in Pages : saved'[p] = Absent}
    /\ unmarked' = {}
    /\ seen' = Nothing
    /\ saving' = "no"
    /\ UNCHANGED <<amount, miscounted>>

Next ==
    \/ Open
    \/ Create
    \/ \E p \in Pages : Get(p) \/ GetFails(p)
    \/ \E p \in Pages, d \in Contents : Write(p, d)
    \/ Fail
    \/ Flush
    \/ FlushPart
    \/ FlushFails
    \/ FlushEnds
    \/ Close
    \/ Crash

Spec == Init /\ [][Next]_vars
=============================================================================
