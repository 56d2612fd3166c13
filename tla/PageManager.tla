----------------------------- MODULE PageManager -----------------------------
(***************************************************************************)
(* The page cache, page_manager.c, over the file of PageResolver.          *)
(*                                                                         *)
(* A caller gets a pointer into a cache entry and reads and writes through *)
(* it; the cache learns of a change only from is_altered.  The history     *)
(* variable "latest" holds what callers last put into each page, and       *)
(* "risky" and "lost" name the pages that one of the causes below put out  *)
(* of step with it:                                                        *)
(*   risky  a caller wrote through a pointer to an unaltered entry, and    *)
(*          the entry is still there;                                      *)
(*   lost   a risky page left the cache; or the relevancy counter wrapped  *)
(*          while the page was altered; or a page was read from behind the *)
(*          end of the file or the read failed; or the final flush failed; *)
(*          or a caller wrote through a pointer into a reused entry; or    *)
(*          the process died before the page was ever written.             *)
(***************************************************************************)
EXTENDS Naturals

CONSTANTS
    CacheSize,      \* number of cache entries, DEFAULT_CACHE_SIZE
    RelevancyMax,   \* RELEVANCY_VALUE_MAX, where the counter starts again
    GetAfterCreate, \* callers get a page between two creations, as the
                    \* storage layer does
    None,
    MaxPage, Contents, Zero, Headers, DefaultHeader, Absent, IOErrors

VARIABLES
    cache,
    current_most_relevant_value,
    last_accessed_page,  \* 0 stands for PAGE_ID_NULL
    phase,               \* what page_manager is doing: idle, flush or destroy
    flush_index,         \* the loop index of page_manager_flush
    held,                \* the last two pages handed out, by pointer
    latest,
    risky,
    lost

VARIABLES
    file, disk, opened, page_amount, was_file_header_altered,
    application_header, header_failed

R == INSTANCE PageResolver

cacheVars == <<cache, current_most_relevant_value, last_accessed_page>>
loopVars == <<phase, flush_index>>
history == <<latest, risky, lost>>
resolverVars == <<file, disk, opened, page_amount, was_file_header_altered,
                  application_header, header_failed>>
vars == <<cacheVars, loopVars, held, history, resolverVars>>

Entries == 0 .. CacheSize - 1
PAGE_ID_NULL == 0
PageIds == 0 .. MaxPage
LEAST_RELEVANT_VALUE == 0
Data == Contents \cup {Zero}

ASSUME CacheAssumption ==
    /\ CacheSize \in Nat /\ CacheSize >= 2
    /\ RelevancyMax \in Nat /\ RelevancyMax >= 2
    /\ GetAfterCreate \in BOOLEAN
    /\ MaxPage \in Nat \ {0}
    /\ DefaultHeader \in Headers
    /\ Absent \notin Contents \cup {Zero} \cup Headers \cup Nat
    /\ IOErrors \in BOOLEAN

CacheEntry ==
    [relevancy_value : 0 .. RelevancyMax, is_altered : BOOLEAN,
     page_id : PageIds, contents : Data]

Handle == [entry : Entries, page_id : R!Pages]
ASSUME NoneAssumption == None \notin [entry : Nat, page_id : Nat]

NothingHeld == [newest |-> None, older |-> None]

(* cache_new; the contents malloc leaves are never read before they are    *)
(* overwritten unless a read fails, which makes the page lost.             *)
CacheNew ==
    [e \in Entries |->
        [relevancy_value |-> LEAST_RELEVANT_VALUE, is_altered |-> FALSE,
         page_id |-> PAGE_ID_NULL, contents |-> Zero]]

(* page_manager_get_page finds an entry only while its relevancy is not 0. *)
Live(e) == cache[e].relevancy_value # LEAST_RELEVANT_VALUE
Holds(e, p) == Live(e) /\ cache[e].page_id = p
Cached_LooksAtFirst(p) == Holds(0, p)  \* mutant: only one entry is looked at
Cached(p) == \E e \in Entries : Holds(e, p)

(* Mutant: the comparison the other way round.                             *)
LeastRelevant_Most(e) ==
    \A o \in Entries : cache[o].relevancy_value <= cache[e].relevancy_value

(* get_least_relevant_entry: the first of the entries with the smallest    *)
(* relevancy.                                                              *)
LeastRelevant(e) ==
    \A o \in Entries :
        \/ cache[e].relevancy_value < cache[o].relevancy_value
        \/ cache[e].relevancy_value = cache[o].relevancy_value /\ e <= o

(* get_relevancy_value with reset_relevancy_values: at the maximum every   *)
(* entry drops to 0 and the count starts again at 1.                       *)
Resetting == current_most_relevant_value = RelevancyMax
RelevancyValue_NoReset(p) ==  \* mutant: the count goes on after a reset
    IF last_accessed_page = p
    THEN current_most_relevant_value ELSE current_most_relevant_value + 1

RelevancyValue(p) ==
    LET base == IF Resetting THEN 1 ELSE current_most_relevant_value
    IN  IF last_accessed_page = p THEN base ELSE base + 1
Aged ==
    IF Resetting
    THEN [e \in Entries |-> [cache[e] EXCEPT !.relevancy_value = 0]]
    ELSE cache

Accessed(p) ==
    /\ current_most_relevant_value' = RelevancyValue(p)
    /\ last_accessed_page' = p

(* The pages whose only up-to-date copy a reset hides, when entry e is the *)
(* one that is being used.                                                 *)
HiddenByReset(e) ==
    IF Resetting
    THEN {cache[o].page_id : o \in {o \in Entries \ {e} :
            Live(o) /\ (cache[o].is_altered \/ cache[o].page_id \in risky)}}
    ELSE {}

(* The page that leaves the cache when entry v is reused, and whether a    *)
(* risky one leaves without being written.                                 *)
LeftBy(v) == IF Live(v) THEN {cache[v].page_id} ELSE {}
DroppedBy(v) == IF cache[v].is_altered THEN {} ELSE LeftBy(v) \cap risky

HandOut(e, p) ==
    LET h == [entry |-> e, page_id |-> p]
        n == held.newest
    IN  held' = [newest |-> h,
                 older |-> IF n = None THEN None
                           ELSE IF n.page_id = p THEN held.older ELSE n]

Init ==
    /\ R!Init
    /\ cache = CacheNew
    /\ current_most_relevant_value = 1
    /\ last_accessed_page = PAGE_ID_NULL
    /\ phase = "idle"
    /\ flush_index = 0
    /\ held = NothingHeld
    /\ latest = [p \in R!Pages |-> Zero]
    /\ risky = {}
    /\ lost = {}
-----------------------------------------------------------------------------
(* page_manager_ctor after page_resolver_ctor.                             *)
Open ==
    /\ R!CreateFile \/ R!OpenFile
    /\ cache' = CacheNew
    /\ current_most_relevant_value' = 1
    /\ last_accessed_page' = PAGE_ID_NULL
    /\ held' = NothingHeld
    /\ UNCHANGED <<loopVars, history>>

(* page_resolver_ctor fails, or the process dies inside it.                *)
OpenFails ==
    /\ R!CreateFileInterrupted \/ R!OpenFileFails
    /\ UNCHANGED <<cacheVars, loopVars, held, history>>

Idle == opened /\ phase = "idle"

Evicted_NoFlush(v) == file  \* mutant: the entry is reused as it is

(* flush_entry on the entry that is to be reused, as it changes the file.  *)
Evicted(v) ==
    IF cache[v].is_altered
    THEN R!Written(cache[v].page_id, cache[v].contents) ELSE file

CreatePage(v) ==
    LET n == page_amount + 1
    IN  /\ Idle /\ LeastRelevant(v) /\ page_amount < MaxPage
        /\ GetAfterCreate =>
              last_accessed_page # PAGE_ID_NULL \/ \A e \in Entries : ~Live(e)
        /\ file' = Evicted(v)
        /\ disk' = IF cache[v].is_altered THEN R!BeforePage ELSE disk
        /\ page_amount' = n
        /\ was_file_header_altered' = TRUE
        /\ cache' = [Aged EXCEPT ![v] =
              [relevancy_value |-> RelevancyValue(PAGE_ID_NULL),
               is_altered |-> TRUE, page_id |-> n, contents |-> Zero]]
        /\ Accessed(PAGE_ID_NULL)
        /\ HandOut(v, n)
        /\ latest' = [latest EXCEPT ![n] = Zero]
        /\ risky' = risky \ (LeftBy(v) \cup HiddenByReset(v))
        /\ lost' = lost \cup DroppedBy(v) \cup HiddenByReset(v)
        /\ UNCHANGED <<loopVars, opened, application_header, header_failed>>

(* page_manager_get_page when the page is cached: load_page_from_cache.    *)
GetPageHit(e) ==
    LET p == cache[e].page_id
    IN  /\ Idle /\ Live(e)
        /\ cache' = [Aged EXCEPT ![e] = [@ EXCEPT
              !.is_altered = TRUE, !.relevancy_value = RelevancyValue(p)]]
        /\ Accessed(p)
        /\ HandOut(e, p)
        /\ risky' = risky \ ({p} \cup HiddenByReset(e))
        /\ lost' = lost \cup HiddenByReset(e)
        /\ UNCHANGED <<loopVars, latest, resolverVars>>

(* load_page_from_resolver.  The entry takes the page's id and relevancy   *)
(* before the page is read, keeps its is_altered, and keeps its old        *)
(* contents when the read fails; on an error the caller gives up the       *)
(* operation and with it the pointers it holds.                            *)
GetPageMiss(v, p) ==
    LET bytes == Evicted(v).pages[p]
    IN  /\ Idle /\ LeastRelevant(v) /\ ~Cached(p)
        /\ file' = Evicted(v)
        /\ disk' = file'
        /\ was_file_header_altered' =
              (was_file_header_altered /\ ~cache[v].is_altered)
        /\ Accessed(p)
        /\ risky' = risky \ (LeftBy(v) \cup HiddenByReset(v))
        /\ \/ /\ bytes # Absent
              /\ cache' = [Aged EXCEPT ![v] = [@ EXCEPT
                    !.relevancy_value = RelevancyValue(p),
                    !.page_id = p, !.contents = bytes]]
              /\ lost' = lost \cup DroppedBy(v) \cup HiddenByReset(v)
              /\ HandOut(v, p)
           \/ /\ bytes = Absent \/ IOErrors
              /\ cache' = [Aged EXCEPT ![v] = [@ EXCEPT
                    !.relevancy_value = RelevancyValue(p), !.page_id = p]]
              /\ lost' = lost \cup DroppedBy(v) \cup HiddenByReset(v) \cup {p}
              /\ held' = NothingHeld
        /\ UNCHANGED <<loopVars, latest, opened, page_amount,
                       application_header, header_failed>>

(* Mutant: the result of flush_entry is not looked at, and the entry taken *)
(* for the other page.                                                     *)
EvictionFails_GoesOn(v) ==
    /\ Idle /\ LeastRelevant(v) /\ cache[v].is_altered
    /\ R!WritePageFails
    /\ \E p \in 1 .. page_amount :
          /\ ~Cached(p) /\ file'.pages[p] # Absent
          /\ cache' = [Aged EXCEPT ![v] = [@ EXCEPT
                !.relevancy_value = RelevancyValue(p),
                !.page_id = p, !.contents = file'.pages[p]]]
          /\ Accessed(p)
          /\ HandOut(v, p)
    /\ UNCHANGED <<loopVars, history>>

(* flush_entry fails inside a creation or a miss, which then does nothing. *)
EvictionFails(v) ==
    /\ Idle /\ LeastRelevant(v) /\ cache[v].is_altered
    /\ page_amount < MaxPage \/ \E p \in 1 .. page_amount : ~Cached(p)
    /\ R!WritePageFails
    /\ held' = NothingHeld
    /\ UNCHANGED <<cacheVars, loopVars, history>>

(* A caller writes d through a pointer it got for page h.page_id.          *)
WriteThrough(h, d) ==
    LET e == h.entry
        p == h.page_id
    IN  /\ Idle
        /\ d # cache[e].contents
        /\ cache' = [cache EXCEPT ![e].contents = d]
        /\ latest' = [latest EXCEPT ![p] = d]
        /\ risky' = IF Holds(e, p) /\ ~cache[e].is_altered
                    THEN risky \cup {p} ELSE risky
        /\ lost' = IF Holds(e, p) THEN lost
                   ELSE lost \cup ({p, cache[e].page_id} \ {PAGE_ID_NULL})
        /\ UNCHANGED <<current_most_relevant_value, last_accessed_page,
                       loopVars, held, resolverVars>>

(* Mutant: the loop starts with the second entry.                          *)
FlushBegin_SkipsFirst ==
    /\ Idle
    /\ phase' \in {"flush", "destroy"}
    /\ flush_index' = 1
    /\ held' = NothingHeld
    /\ UNCHANGED <<cacheVars, history, resolverVars>>

(* page_manager_flush, called by itself or by page_manager_destroy.  No    *)
(* caller keeps a page pointer over a flush.                               *)
FlushBegin ==
    /\ Idle
    /\ phase' \in {"flush", "destroy"}
    /\ flush_index' = 0
    /\ held' = NothingHeld
    /\ UNCHANGED <<cacheVars, history, resolverVars>>

InFlush == opened /\ phase # "idle"

FlushEntry ==
    LET c == cache[flush_index]
    IN  /\ InFlush /\ flush_index < CacheSize
        /\ flush_index' = flush_index + 1
        /\ IF c.is_altered
           THEN /\ R!WritePage(c.page_id, c.contents)
                /\ cache' = [cache EXCEPT ![flush_index] = [@ EXCEPT
                      !.relevancy_value = LEAST_RELEVANT_VALUE,
                      !.is_altered = FALSE]]
           ELSE UNCHANGED <<cache, resolverVars>>
        /\ UNCHANGED <<current_most_relevant_value, last_accessed_page,
                       phase, held, history>>

(* Mutant: page_manager_flush goes on after an error and forgets it.       *)
FlushEntryFails_GoesOn ==
    /\ InFlush /\ flush_index < CacheSize /\ phase = "flush"
    /\ cache[flush_index].is_altered
    /\ R!WritePageFails
    /\ flush_index' = flush_index + 1
    /\ UNCHANGED <<cacheVars, held, history, phase>>

FlushEntryFails ==
    /\ InFlush /\ flush_index < CacheSize
    /\ cache[flush_index].is_altered
    /\ R!WritePageFails
    /\ IF phase = "flush"
       THEN phase' = "idle" /\ flush_index' = 0 /\ UNCHANGED lost
       ELSE /\ flush_index' = CacheSize
            /\ lost' = lost \cup
                  {cache[e].page_id : e \in {e \in Entries : cache[e].is_altered}}
            /\ UNCHANGED phase
    /\ UNCHANGED <<cacheVars, held, latest, risky>>

FlushReturn ==
    /\ InFlush /\ phase = "flush" /\ flush_index = CacheSize
    /\ phase' = "idle"
    /\ flush_index' = 0
    /\ UNCHANGED <<cacheVars, held, history, resolverVars>>

(* The rest of page_manager_destroy: whatever the flush returned, the file *)
(* is closed and the cache freed.                                          *)
DestroyReturn ==
    /\ InFlush /\ phase = "destroy" /\ flush_index = CacheSize
    /\ R!Destroy
    /\ cache' = CacheNew
    /\ phase' = "idle"
    /\ flush_index' = 0
    /\ lost' = lost \cup risky
    /\ risky' = {}
    /\ UNCHANGED <<current_most_relevant_value, last_accessed_page, held, latest>>

(* The process dies; callers start again from what the file holds.  A page *)
(* that is counted in the header and was never written is lost.            *)
Crash ==
    /\ R!Crash
    /\ cache' = CacheNew
    /\ phase' = "idle"
    /\ flush_index' = 0
    /\ held' = NothingHeld
    /\ latest' = [p \in R!Pages |->
          IF file'.pages[p] = Absent THEN Zero ELSE file'.pages[p]]
    /\ risky' = {}
    /\ lost' = {p \in R!Pages : file'.pages[p] = Absent}
    /\ UNCHANGED <<current_most_relevant_value, last_accessed_page>>

Next ==
    \/ Open
    \/ OpenFails
    \/ \E v \in Entries : CreatePage(v)
    \/ \E e \in Entries : GetPageHit(e)
    \/ \E v \in Entries, p \in 1 .. page_amount : GetPageMiss(v, p)
    \/ \E v \in Entries : EvictionFails(v)
    \/ \E h \in {held.newest, held.older} \ {None}, d \in Contents :
          WriteThrough(h, d)
    \/ FlushBegin
    \/ FlushEntry
    \/ FlushEntryFails
    \/ FlushReturn
    \/ DestroyReturn
    \/ Crash

Spec == Init /\ [][Next]_vars
-----------------------------------------------------------------------------
TypeOK ==
    /\ R!TypeOK
    /\ cache \in [Entries -> CacheEntry]
    /\ current_most_relevant_value \in 1 .. RelevancyMax
    /\ last_accessed_page \in PageIds
    /\ phase \in {"idle", "flush", "destroy"}
    /\ flush_index \in 0 .. CacheSize
    /\ held \in [newest : Handle \cup {None}, older : Handle \cup {None}]
    /\ latest \in [R!Pages -> Data]
    /\ risky \subseteq R!Pages
    /\ lost \subseteq R!Pages

(* page_manager_get_page and get_least_relevant_entry never leave two      *)
(* entries that a later get could both find for one page.                  *)
SingleCopy ==
    \A e, o \in Entries :
        Live(e) /\ Live(o) /\ cache[e].page_id = cache[o].page_id => e = o

(* A page that none of the named causes has hit is never stale: a cached   *)
(* copy holds what was last written, one not marked altered agrees with    *)
(* the file, and a page that is not cached is up to date in the file, over *)
(* evictions, flushes, restarts and crashes.                               *)
CopyCoherent(e) ==
    LET p == cache[e].page_id
    IN  Live(e) /\ p \notin lost =>
            /\ cache[e].contents = latest[p]
            /\ cache[e].is_altered \/ p \in risky \/ file.pages[p] = latest[p]

FileCoherent(p) ==
    p \notin lost /\ ~(opened /\ Cached(p)) => file.pages[p] = latest[p]

Coherent ==
    /\ opened => \A e \in Entries : CopyCoherent(e)
    /\ \A p \in 1 .. page_amount : FileCoherent(p)

(* The two pages a caller got last stay where their pointers point: the    *)
(* relevancy order never picks them for reuse, not even across a reset of  *)
(* the counter, as long as two creations do not follow each other.         *)
HeldPointersValid ==
    GetAfterCreate =>
        \A h \in {held.newest, held.older} \ {None} :
            cache[h.entry].page_id = h.page_id

(* Where page_manager_flush stands, and what the newest pointer shows.      *)
Saving ==
    IF phase = "flush" /\ flush_index = CacheSize THEN "done"
    ELSE IF phase = "flush" THEN "running"
    ELSE IF phase = "destroy" THEN "closing" ELSE "no"

Seen ==
    IF held.newest = None THEN [page |-> PAGE_ID_NULL, contents |-> Zero]
    ELSE [page |-> held.newest.page_id,
          contents |-> cache[held.newest.entry].contents]

Cut == {h.page_id : h \in {h \in {held.newest, held.older} \ {None} :
                              ~Holds(h.entry, h.page_id)}}

Store == INSTANCE PageStore WITH
    Failures <- IOErrors, Careful <- GetAfterCreate,
    amount <- page_amount, value <- latest,
    saved <- file.pages, settled <- disk.pages,
    undefined <- lost, unmarked <- risky, seen <- Seen, saving <- Saving,
    miscounted <- header_failed, wrap <- Resetting, cut <- Cut

(* The cache, its eviction order and the order in which it writes implement*)
(* a plain store of pages: a pointer that page_manager_get_page returns    *)
(* shows the page's last contents, page_manager_flush ends only when all   *)
(* is in the file, and a restart shows what was saved.                     *)
ImplementsStore == Store!Spec

(* The file header is in front of the pages here too, where evictions and  *)
(* flushes decide when pages are written.                                  *)
HeaderFirst == R!HeaderCoversPages

Flushed == opened' /\ phase = "flush" /\ phase' = "idle" /\ flush_index = CacheSize

(* When page_manager_flush returns without an error, every page that was   *)
(* not hit by a named cause has its last contents in the file.             *)
FlushSaves ==
    [][Flushed => \A p \in 1 .. page_amount \ (lost \cup risky) :
                      file.pages[p] = latest[p]]_vars

(* The promise of page_manager.h, that changes made through the pointer of *)
(* page_manager_get_page are saved after page_manager_flush, without the   *)
(* exceptions: the code breaks it for a page that was not cached.          *)
FlushSavesEveryChange ==
    [][Flushed => \A p \in 1 .. page_amount : file.pages[p] = latest[p]]_vars

-----------------------------------------------------------------------------
(* What the invariants above rest on; PageManagerProofs shows it inductive.*)

(* A used or altered entry holds a page that exists; an altered one that a *)
(* get no longer finds was hidden by a reset.                              *)
EntriesNamePages ==
    \A e \in Entries :
        /\ Live(e) \/ cache[e].is_altered => cache[e].page_id \in 1 .. page_amount
        /\ ~Live(e) /\ cache[e].is_altered => cache[e].page_id \in lost

(* The header counts no page that was not created, pages are created only  *)
(* in a file, and nothing is left in the stream of a closed one.           *)
HeaderWithinAmount ==
    /\ \A f \in {file, disk} :
          /\ f.page_amount # Absent => f.page_amount <= page_amount
          /\ ~f.exists => ~opened /\ page_amount = 0
    /\ ~opened => disk = file

(* What the flush has passed is clean, unless it failed at the end.        *)
FlushProgress ==
    /\ phase # "idle" => opened
    /\ ~opened => cache = CacheNew /\ risky = {}
    /\ phase # "idle" => \A e \in Entries :
          e < flush_index /\ cache[e].is_altered => cache[e].page_id \in lost

(* The newest relevancy value belongs to one entry, that of the page       *)
(* accessed last.                                                          *)
RelevancyOrder ==
    /\ \A e \in Entries : cache[e].relevancy_value <= current_most_relevant_value
    /\ \A e \in Entries :
          /\ cache[e].relevancy_value = current_most_relevant_value
          /\ last_accessed_page # PAGE_ID_NULL
          => cache[e].page_id = last_accessed_page
    /\ GetAfterCreate => \A e, o \in Entries :
          /\ cache[e].relevancy_value = current_most_relevant_value
          /\ cache[o].relevancy_value = current_most_relevant_value
          => e = o

(* The page handed out last is the most relevant one.                      *)
NewestIsTop ==
    held.newest # None =>
        cache[held.newest.entry].relevancy_value = current_most_relevant_value
=============================================================================
