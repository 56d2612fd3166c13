-------------------------- MODULE PageManagerProofs --------------------------
(***************************************************************************)
(* Proofs about the page cache: what it shows its callers and leaves in    *)
(* the file, for every cache size, relevancy bound and number of pages;    *)
(* in the second part, about the pointers it hands out: the relevancy      *)
(* order keeps the two newest in place for every cache of two entries or   *)
(* more; and in the third, that the cache over the file implements         *)
(* PageStore, with failing reads and writes and with crashes, on the way   *)
(* to which the file header stays in front of the pages.                   *)
(***************************************************************************)
EXTENDS PageManager, TLAPS

USE DEF R!Pages, R!PageData, Data, Entries, PageIds, PAGE_ID_NULL,
        LEAST_RELEVANT_VALUE

(* page_resolver_write_page puts the entry in its place and touches no     *)
(* other page that is in the file already.                                 *)
LEMMA WrittenPages ==
    ASSUME file \in R!FileState, page_amount \in 0 .. MaxPage,
           NEW p \in R!Pages, NEW c \in Data
    PROVE  /\ R!BeforePage \in R!FileState
           /\ R!Written(p, c) \in R!FileState
           /\ R!BeforePage.pages = file.pages
           /\ R!Written(p, c).pages[p] = c
           /\ \A q \in R!Pages : q # p /\ file.pages[q] # Absent =>
                 R!Written(p, c).pages[q] = file.pages[q]
           /\ R!Written(p, c).page_amount = R!BeforePage.page_amount
           /\ R!BeforePage.page_amount \in {file.page_amount, page_amount}
<1>1. R!HeaderWritten(file) \in R!FileState
  BY DEF R!FileState, R!HeaderWritten
<1>2. R!HeaderWritten(file).pages = file.pages
  BY DEF R!FileState, R!HeaderWritten
<1>3. R!HeaderWritten(file).page_amount = page_amount
  BY DEF R!FileState, R!HeaderWritten
<1>4. /\ R!BeforePage \in R!FileState
      /\ R!BeforePage.pages = file.pages
      /\ R!BeforePage.page_amount \in {file.page_amount, page_amount}
  BY <1>1, <1>2, <1>3 DEF R!BeforePage
<1>5. ASSUME NEW f \in R!FileState
      PROVE  /\ R!PageWritten(f, p, c) \in R!FileState
             /\ R!PageWritten(f, p, c).pages[p] = c
             /\ R!PageWritten(f, p, c).page_amount = f.page_amount
             /\ \A q \in R!Pages : q # p /\ f.pages[q] # Absent =>
                   R!PageWritten(f, p, c).pages[q] = f.pages[q]
  <2> DEFINE new == [q \in R!Pages |->
            IF q = p THEN c
            ELSE IF q < p /\ f.pages[q] = Absent THEN Zero ELSE f.pages[q]]
  <2>1. new \in [R!Pages -> R!PageData \cup {Absent}]
    BY DEF R!FileState
  <2>2. R!PageWritten(f, p, c) = [f EXCEPT !.pages = new]
    BY DEF R!PageWritten
  <2>3. /\ R!PageWritten(f, p, c) \in R!FileState
        /\ R!PageWritten(f, p, c).pages = new
        /\ R!PageWritten(f, p, c).page_amount = f.page_amount
    <3> HIDE DEF new
    <3> QED BY <2>1, <2>2 DEF R!FileState
  <2>4. new[p] = c /\ \A q \in R!Pages : q # p /\ f.pages[q] # Absent =>
                             new[q] = f.pages[q]
    OBVIOUS
  <2> QED BY <2>3, <2>4
<1> QED BY <1>4, <1>5 DEF R!Written
-----------------------------------------------------------------------------
(* The invariant that every step keeps.  HeldPointersValid has one of its  *)
(* own below.                                                              *)
Inv ==
    /\ TypeOK
    /\ EntriesNamePages
    /\ HeaderWithinAmount
    /\ FlushProgress
    /\ SingleCopy
    /\ Coherent

(* The cache of a page_manager that was just made.                         *)
LEMMA CacheNewFacts ==
    /\ CacheNew \in [Entries -> CacheEntry]
    /\ \A e \in Entries : /\ CacheNew[e].relevancy_value = 0
                          /\ ~CacheNew[e].is_altered
                          /\ CacheNew[e].page_id = 0
BY CacheAssumption DEF CacheNew, CacheEntry

(* get_relevancy_value gives a positive value within bounds.               *)
LEMMA RelevancyFacts ==
    ASSUME TypeOK, NEW p \in PageIds
    PROVE  /\ RelevancyValue(p) \in 1 .. RelevancyMax
           /\ Aged \in [Entries -> CacheEntry]
           /\ \A e \in Entries :
                 /\ Aged[e].page_id = cache[e].page_id
                 /\ Aged[e].is_altered = cache[e].is_altered
                 /\ Aged[e].contents = cache[e].contents
                 /\ Aged[e].relevancy_value =
                       IF Resetting THEN 0 ELSE cache[e].relevancy_value
<1>1. RelevancyValue(p) \in 1 .. RelevancyMax
  BY CacheAssumption DEF TypeOK, RelevancyValue, Resetting
<1>2. CASE Resetting
  <2> DEFINE F == [e \in Entries |-> [cache[e] EXCEPT !.relevancy_value = 0]]
  <2>1. Aged = F
    BY <1>2 DEF Aged
  <2>2. F \in [Entries -> CacheEntry]
    BY CacheAssumption DEF TypeOK, CacheEntry
  <2>3. \A e \in Entries :
                 /\ F[e].page_id = cache[e].page_id
                 /\ F[e].is_altered = cache[e].is_altered
                 /\ F[e].contents = cache[e].contents
                 /\ F[e].relevancy_value = 0
    BY DEF TypeOK, CacheEntry
  <2> HIDE DEF F
  <2> QED BY <1>1, <1>2, <2>1, <2>2, <2>3
<1>3. CASE ~Resetting
  BY <1>1, <1>3 DEF Aged, TypeOK
<1> QED BY <1>2, <1>3

(* flush_entry on an entry leaves a file whose pages are as before, but    *)
(* for the entry's own page.                                               *)
LEMMA EvictedFacts ==
    ASSUME TypeOK, EntriesNamePages, NEW v \in Entries
    PROVE  /\ Evicted(v) \in R!FileState
           /\ Evicted(v).page_amount \in {file.page_amount, page_amount}
           /\ cache[v].is_altered =>
                 Evicted(v).pages[cache[v].page_id] = cache[v].contents
           /\ \A q \in R!Pages :
                 /\ file.pages[q] # Absent
                 /\ ~cache[v].is_altered \/ q # cache[v].page_id
                 => Evicted(v).pages[q] = file.pages[q]
<1>1. file \in R!FileState /\ page_amount \in 0 .. MaxPage
  BY DEF TypeOK, R!TypeOK
<1>2. CASE cache[v].is_altered
  <2>1. cache[v].page_id \in R!Pages /\ cache[v].contents \in Data
    BY <1>1, <1>2, CacheAssumption DEF EntriesNamePages, TypeOK, CacheEntry
  <2> QED BY <1>1, <1>2, <2>1, WrittenPages DEF Evicted
<1>3. CASE ~cache[v].is_altered
  BY <1>1, <1>3 DEF Evicted
<1> QED BY <1>2, <1>3

LEMMA InitInv == Init => Inv
<1> SUFFICES ASSUME Init PROVE Inv
  OBVIOUS
<1> USE CacheAssumption
<1>1. /\ R!NoFile \in R!FileState /\ R!NoFile.page_amount = Absent
      /\ \A p \in R!Pages : R!NoFile.pages[p] = Absent
  <2>1. /\ R!EmptyFile \in R!FileState /\ R!EmptyFile.page_amount = Absent
        /\ \A p \in R!Pages : R!EmptyFile.pages[p] = Absent
    BY DEF R!EmptyFile, R!FileState
  <2> QED BY <2>1 DEF R!NoFile, R!FileState
<1>2. R!TypeOK
  <2>1. file \in R!FileState /\ disk \in R!FileState
    BY <1>1 DEF Init, R!Init
  <2>2. page_amount \in 0 .. MaxPage /\ application_header \in Headers
    BY DEF Init, R!Init
  <2>3. /\ opened \in BOOLEAN /\ was_file_header_altered \in BOOLEAN
        /\ header_failed \in BOOLEAN
    BY DEF Init, R!Init
  <2> QED BY <2>1, <2>2, <2>3 DEF R!TypeOK
<1>3. TypeOK
  <2>1. cache \in [Entries -> CacheEntry]
    BY CacheNewFacts DEF Init
  <2>2. /\ current_most_relevant_value \in 1 .. RelevancyMax
        /\ last_accessed_page \in PageIds
        /\ phase \in {"idle", "flush", "destroy"}
        /\ flush_index \in 0 .. CacheSize
        /\ risky \subseteq R!Pages /\ lost \subseteq R!Pages
        /\ latest \in [R!Pages -> Data]
    BY DEF Init
  <2>3. held \in [newest : Handle \cup {None}, older : Handle \cup {None}]
    BY DEF Init, NothingHeld
  <2> QED BY <1>2, <2>1, <2>2, <2>3 DEF TypeOK
<1>4. EntriesNamePages /\ SingleCopy
  BY CacheNewFacts DEF Init, EntriesNamePages, SingleCopy, Live
<1>5. HeaderWithinAmount
  BY <1>1 DEF Init, R!Init, HeaderWithinAmount
<1>6. FlushProgress
  BY DEF Init, R!Init, FlushProgress
<1>7. Coherent
  BY DEF Init, R!Init, Coherent, FileCoherent
<1> QED BY <1>3, <1>4, <1>5, <1>6, <1>7 DEF Inv

LEMMA OpenInv == ASSUME Inv, Open PROVE Inv'
<1> USE CacheAssumption DEF Inv
<1>1. R!TypeOK /\ file \in R!FileState /\ disk \in R!FileState
  BY DEF TypeOK, R!TypeOK
<1>2. R!TypeOK'
  <2>1. CASE R!CreateFile
    <3>1. R!EmptyFile \in R!FileState
      BY DEF R!EmptyFile, R!FileState
    <3>2. disk' \in R!FileState
      BY <2>1, <3>1 DEF R!CreateFile, R!FileState
    <3>3. file' \in R!FileState
      BY <2>1, <3>2 DEF R!CreateFile, R!FileState
    <3>4. page_amount' \in 0 .. MaxPage /\ application_header' \in Headers
      BY <2>1 DEF R!CreateFile
    <3>5. /\ opened' \in BOOLEAN /\ was_file_header_altered' \in BOOLEAN
          /\ header_failed' \in BOOLEAN
      BY <1>1, <2>1 DEF R!CreateFile, R!TypeOK
    <3> QED BY <3>2, <3>3, <3>4, <3>5 DEF R!TypeOK
  <2>2. CASE R!OpenFile
    BY <1>1, <2>2 DEF R!OpenFile, R!TypeOK, R!FileState, R!Openable
  <2> QED BY <2>1, <2>2 DEF Open
<1>3. TypeOK'
  <2>1. cache' \in [Entries -> CacheEntry]
    BY CacheNewFacts DEF Open
  <2>2. /\ current_most_relevant_value' \in 1 .. RelevancyMax
        /\ last_accessed_page' \in PageIds
    BY DEF Open
  <2>3. held' \in [newest : Handle \cup {None}, older : Handle \cup {None}]
    BY DEF Open, NothingHeld
  <2>4. /\ phase' \in {"idle", "flush", "destroy"}
        /\ flush_index' \in 0 .. CacheSize
        /\ risky' \subseteq R!Pages /\ lost' \subseteq R!Pages
        /\ latest' \in [R!Pages -> Data]
    BY DEF Open, TypeOK, loopVars, history
  <2> QED BY <1>2, <2>1, <2>2, <2>3, <2>4 DEF TypeOK
<1>4. ~opened /\ page_amount' \in 0 .. page_amount /\ opened' /\ phase' = "idle"
  BY <1>1 DEF Open, R!CreateFile, R!OpenFile, R!TypeOK, R!FileState,
     R!Openable, HeaderWithinAmount, FlushProgress, TypeOK, loopVars
<1>5. EntriesNamePages' /\ SingleCopy' /\ \A e \in Entries : ~Live(e)'
  BY CacheNewFacts DEF Open, EntriesNamePages, SingleCopy, Live
<1>6. HeaderWithinAmount'
  <2>1. CASE R!CreateFile
    <3>1. R!EmptyFile \in R!FileState
      BY DEF R!EmptyFile, R!FileState
    <3>2. disk' \in R!FileState /\ disk'.page_amount = 0 /\ disk'.exists
      <4>1. R!EmptyFile.exists
        BY DEF R!EmptyFile
      <4> QED BY <2>1, <3>1, <4>1 DEF R!CreateFile, R!FileState
    <3>3. file'.page_amount = 0 /\ file'.exists
      BY <2>1, <3>2 DEF R!CreateFile, R!FileState
    <3>4. page_amount' = 0
      BY <2>1 DEF R!CreateFile
    <3> QED BY <1>4, <3>2, <3>3, <3>4 DEF HeaderWithinAmount
  <2>2. CASE R!OpenFile
    <3>1. /\ file' = file /\ disk' = file
          /\ page_amount' = file.page_amount /\ opened' /\ file.exists
      BY <2>2 DEF R!OpenFile, HeaderWithinAmount
    <3>2. page_amount' \in Nat
      BY <1>1, <1>4 DEF R!TypeOK
    <3> QED BY <3>1, <3>2 DEF HeaderWithinAmount
  <2> QED BY <2>1, <2>2 DEF Open
<1>7. FlushProgress'
  BY <1>4 DEF FlushProgress
<1>8. Coherent'
  <2>1. CASE page_amount' = 0
    BY <1>5, <2>1 DEF Coherent, CopyCoherent
  <2>2. CASE R!OpenFile
    <3>1. ASSUME NEW p \in 1 .. page_amount' PROVE FileCoherent(p)'
      <4>1. p \in 1 .. page_amount
        BY <1>1, <1>4 DEF R!TypeOK
      <4>2. FileCoherent(p)
        BY <4>1 DEF Coherent
      <4> QED BY <4>2, <1>4, <2>2 DEF FileCoherent, R!OpenFile, Open, history
    <3> QED BY <3>1, <1>5 DEF Coherent, CopyCoherent
  <2> QED BY <2>1, <2>2 DEF Open, R!CreateFile
<1> QED BY <1>3, <1>5, <1>6, <1>7, <1>8

(* Nothing but the file and the history of failed writes changes when the  *)
(* file is opened in vain.                                                 *)
LEMMA OpenFailsInv == ASSUME Inv, OpenFails PROVE Inv'
<1> USE CacheAssumption DEF Inv
<1>1. R!TypeOK
  BY DEF TypeOK
<1>2. /\ ~opened /\ file' = disk' /\ UNCHANGED <<opened, page_amount>>
      /\ UNCHANGED <<cacheVars, loopVars, held, history>>
  BY DEF OpenFails, R!CreateFileInterrupted, R!OpenFileFails, R!vars,
     HeaderWithinAmount
<1>3. file' \in R!FileState /\ file'.exists
  <2>1. R!EmptyFile \in R!FileState /\ R!EmptyFile.exists
    BY DEF R!EmptyFile, R!FileState
  <2>2. CASE R!CreateFileInterrupted
    BY <2>1, <2>2 DEF R!CreateFileInterrupted
  <2>3. CASE R!OpenFileFails
    BY <1>1, <2>3 DEF R!OpenFileFails, R!vars, R!TypeOK
  <2> QED BY <2>2, <2>3 DEF OpenFails
<1>4. file' = file \/ (page_amount = 0 /\ file'.page_amount = Absent)
  BY DEF OpenFails, R!CreateFileInterrupted, R!OpenFileFails, R!vars,
     R!EmptyFile, HeaderWithinAmount
<1>5. R!TypeOK'
  BY <1>1, <1>2, <1>3 DEF OpenFails, R!CreateFileInterrupted, R!OpenFileFails,
     R!vars, R!TypeOK
<1>6. TypeOK'
  BY <1>2, <1>5 DEF TypeOK, cacheVars, loopVars, history
<1>7. EntriesNamePages' /\ SingleCopy' /\ FlushProgress'
  BY <1>2 DEF EntriesNamePages, SingleCopy, FlushProgress, Live, cacheVars,
     loopVars, history
<1>8. HeaderWithinAmount'
  BY <1>2, <1>3, <1>4 DEF HeaderWithinAmount
<1>9. Coherent'
  BY <1>2, <1>4 DEF Coherent, FileCoherent, history
<1> QED BY <1>6, <1>7, <1>8, <1>9
-----------------------------------------------------------------------------
(* What stays true of the pages that entry v does not hold when it is      *)
(* written back for reuse, and of those a reset of the counter hides.      *)
LEMMA EvictionKeeps ==
    ASSUME Inv, opened, NEW v \in Entries, NEW p \in 1 .. page_amount,
           p \notin lost \cup DroppedBy(v) \cup HiddenByReset(v)
    PROVE  /\ \A o \in Entries \ {v} : Holds(o, p) /\ ~Resetting =>
                /\ cache[o].contents = latest[p]
                /\ \/ cache[o].is_altered
                   \/ p \in risky
                   \/ Evicted(v).pages[p] = latest[p]
           /\ Resetting \/ (\A o \in Entries \ {v} : ~Holds(o, p)) =>
                Evicted(v).pages[p] = latest[p]
<1> USE DEF Inv
<1>1. /\ p \in R!Pages /\ latest[p] \in Data /\ latest[p] # Absent
      /\ v \in Entries
  BY CacheAssumption DEF TypeOK, R!TypeOK
<1>2. ~cache[v].is_altered \/ p # cache[v].page_id \/ Live(v)
  BY DEF EntriesNamePages
<1>3. ASSUME file.pages[p] = latest[p],
             ~cache[v].is_altered \/ p # cache[v].page_id
      PROVE  Evicted(v).pages[p] = latest[p]
  BY <1>1, <1>3, EvictedFacts
<1>4. ASSUME NEW o \in Entries, Holds(o, p)
      PROVE  /\ cache[o].contents = latest[p]
             /\ cache[o].is_altered \/ p \in risky \/ file.pages[p] = latest[p]
  BY <1>4 DEF Coherent, CopyCoherent, Holds
<1>5. ASSUME NEW o \in Entries \ {v}, Holds(o, p)
      PROVE  ~cache[v].is_altered \/ p # cache[v].page_id
  BY <1>2, <1>5 DEF SingleCopy, Holds
<1>6. ASSUME NEW o \in Entries \ {v}, Holds(o, p), ~Resetting
      PROVE  /\ cache[o].contents = latest[p]
             /\ \/ cache[o].is_altered
                \/ p \in risky
                \/ Evicted(v).pages[p] = latest[p]
  BY <1>3, <1>4, <1>5, <1>6
<1>7. ASSUME NEW o \in Entries \ {v}, Holds(o, p), Resetting
      PROVE  Evicted(v).pages[p] = latest[p]
  <2>1. ~cache[o].is_altered /\ p \notin risky
    BY <1>7 DEF HiddenByReset, Holds
  <2> QED BY <1>3, <1>4, <1>5, <1>7, <2>1
<1>8. ASSUME \A o \in Entries \ {v} : ~Holds(o, p)
      PROVE  Evicted(v).pages[p] = latest[p]
  <2>1. CASE Holds(v, p) /\ cache[v].is_altered
    BY <1>4, <2>1, EvictedFacts DEF Holds
  <2>2. CASE Holds(v, p) /\ ~cache[v].is_altered
    <3>1. p \notin risky
      BY <2>2 DEF DroppedBy, LeftBy, Holds
    <3> QED BY <1>3, <1>4, <2>2, <3>1
  <2>3. CASE ~Holds(v, p)
    <3>1. ~Cached(p)
      BY <1>8, <2>3 DEF Cached
    <3>2. file.pages[p] = latest[p]
      BY <3>1 DEF Coherent, FileCoherent
    <3>3. ~cache[v].is_altered \/ p # cache[v].page_id
      BY <1>2, <2>3 DEF Holds
    <3> QED BY <1>3, <3>2, <3>3
  <2> QED BY <2>1, <2>2, <2>3
<1> QED BY <1>6, <1>7, <1>8

(* The pages of the files that an eviction writes, for HeaderWithinAmount. *)
LEMMA EvictionHeader ==
    ASSUME Inv, opened, NEW v \in Entries, NEW f \in {Evicted(v), R!BeforePage}
    PROVE  /\ f \in R!FileState /\ f.exists
           /\ f.page_amount # Absent => f.page_amount <= page_amount
<1> USE DEF Inv
<1>1. file \in R!FileState /\ page_amount \in 0 .. MaxPage
  BY DEF TypeOK, R!TypeOK
<1>2. f \in R!FileState /\ f.page_amount \in {file.page_amount, page_amount}
  <2>1. 1 \in R!Pages /\ Zero \in Data
    BY CacheAssumption
  <2> QED BY <1>1, <2>1, EvictedFacts, WrittenPages
<1>3. f.exists = file.exists
  BY <1>1 DEF Evicted, R!Written, R!PageWritten, R!BeforePage,
     R!HeaderWritten, R!FileState
<1>4. file.exists
  BY DEF HeaderWithinAmount
<1> QED BY <1>1, <1>2, <1>3, <1>4 DEF HeaderWithinAmount

LEMMA CreatePageInv ==
    ASSUME Inv, NEW v \in Entries, CreatePage(v)
    PROVE  Inv'
<1> USE CacheAssumption DEF Inv
<1> DEFINE n == page_amount + 1
<1>1. /\ opened /\ opened' /\ phase = "idle" /\ phase' = "idle"
      /\ page_amount' = n /\ n \in R!Pages /\ page_amount \in Nat
      /\ R!TypeOK /\ TypeOK /\ flush_index' = flush_index
  BY DEF CreatePage, Idle, TypeOK, R!TypeOK, loopVars
<1> DEFINE r == RelevancyValue(PAGE_ID_NULL)
           entry == [relevancy_value |-> r, is_altered |-> TRUE,
                     page_id |-> n, contents |-> Zero]
<1>2. r \in 1 .. RelevancyMax /\ entry \in CacheEntry
  BY <1>1, RelevancyFacts DEF CacheEntry
<1>3. cache' = [Aged EXCEPT ![v] = entry]
  BY DEF CreatePage
<1>4. /\ cache' \in [Entries -> CacheEntry]
      /\ cache'[v].relevancy_value = r /\ cache'[v].is_altered
      /\ cache'[v].page_id = n /\ cache'[v].contents = Zero
      /\ \A o \in Entries \ {v} :
            /\ cache'[o].page_id = cache[o].page_id
            /\ cache'[o].is_altered = cache[o].is_altered
            /\ cache'[o].contents = cache[o].contents
            /\ cache'[o].relevancy_value =
                  IF Resetting THEN 0 ELSE cache[o].relevancy_value
  <2> HIDE DEF r
  <2> QED BY <1>1, <1>2, <1>3, RelevancyFacts
<1>5. /\ file' = Evicted(v) /\ disk' \in {disk, R!BeforePage}
      /\ latest' = [latest EXCEPT ![n] = Zero]
      /\ lost' = lost \cup DroppedBy(v) \cup HiddenByReset(v)
      /\ risky' = risky \ (LeftBy(v) \cup HiddenByReset(v))
  BY DEF CreatePage
<1>6. TypeOK'
  <2>1. file' \in R!FileState /\ disk' \in R!FileState
    BY <1>1, <1>5, EvictionHeader DEF R!TypeOK
  <2>2. R!TypeOK'
    BY <1>1, <2>1 DEF CreatePage, R!TypeOK
  <2>3. current_most_relevant_value' \in 1 .. RelevancyMax
        /\ last_accessed_page' \in PageIds
    BY <1>2 DEF CreatePage, Accessed
  <2>4. held' \in [newest : Handle \cup {None}, older : Handle \cup {None}]
    BY <1>1 DEF CreatePage, HandOut, Handle, TypeOK
  <2>5. latest' \in [R!Pages -> Data]
    BY <1>1, <1>5 DEF TypeOK
  <2>6. HiddenByReset(v) \subseteq R!Pages
    BY <1>1 DEF HiddenByReset, EntriesNamePages, Live
  <2>7. risky' \subseteq R!Pages /\ lost' \subseteq R!Pages
    BY <1>5, <2>6 DEF TypeOK, DroppedBy
  <2> QED BY <1>1, <1>4, <2>2, <2>3, <2>4, <2>5, <2>7 DEF TypeOK
<1>7. EntriesNamePages'
  <2>1. ASSUME NEW e \in Entries
        PROVE  /\ Live(e)' \/ cache'[e].is_altered =>
                     cache'[e].page_id \in 1 .. page_amount'
               /\ ~Live(e)' /\ cache'[e].is_altered =>
                     cache'[e].page_id \in lost'
    BY <1>1, <1>2, <1>4, <1>5 DEF EntriesNamePages, Live, HiddenByReset
  <2> QED BY <2>1 DEF EntriesNamePages
<1>8. HeaderWithinAmount'
  <2>1. ASSUME NEW f \in {disk, Evicted(v), R!BeforePage}
        PROVE  /\ f \in R!FileState /\ f.exists
               /\ f.page_amount # Absent => f.page_amount <= n
    <3>1. /\ f \in R!FileState /\ f.exists
          /\ f.page_amount # Absent => f.page_amount <= page_amount
      BY <1>1, EvictionHeader DEF HeaderWithinAmount, R!TypeOK
    <3> QED BY <1>1, <3>1 DEF R!FileState
  <2> QED BY <1>1, <1>5, <2>1 DEF HeaderWithinAmount
<1>9. FlushProgress'
  BY <1>1 DEF FlushProgress
<1>10. \A e \in Entries \ {v} : Live(e)' =>
          /\ ~Resetting /\ Live(e)
          /\ cache[e].page_id \in 1 .. page_amount /\ cache[e].page_id # n
  BY <1>1, <1>4 DEF Live, EntriesNamePages
<1>11. SingleCopy'
  BY <1>4, <1>10 DEF SingleCopy
<1>12. Coherent'
  <2>1. ASSUME NEW e \in Entries PROVE CopyCoherent(e)'
    <3>1. CASE e = v
      BY <1>1, <1>4, <1>5, <3>1 DEF CopyCoherent, TypeOK
    <3>2. CASE e # v /\ Live(e)' /\ cache[e].page_id \notin lost'
      <4> DEFINE p == cache[e].page_id
      <4>1. p \in 1 .. page_amount /\ Holds(e, p) /\ ~Resetting
        BY <1>10, <3>2 DEF Holds
      <4>2. /\ cache[e].contents = latest[p]
            /\ cache[e].is_altered \/ p \in risky \/ file'.pages[p] = latest[p]
        BY <1>1, <1>5, <3>2, <4>1, EvictionKeeps
      <4>3. latest'[p] = latest[p]
        BY <1>1, <1>5, <1>10, <3>2 DEF TypeOK
      <4>4. p \in risky => p \in risky'
        BY <1>5, <3>2, <4>1 DEF LeftBy, HiddenByReset, SingleCopy, Holds
      <4> QED BY <1>4, <3>2, <4>2, <4>3, <4>4 DEF CopyCoherent
    <3> QED BY <1>4, <3>1, <3>2 DEF CopyCoherent
  <2>2. ASSUME NEW p \in 1 .. page_amount' PROVE FileCoherent(p)'
    <3>1. CASE p = n
      BY <1>1, <1>2, <1>4, <3>1 DEF FileCoherent, Cached, Holds, Live
    <3>2. CASE p # n /\ p \notin lost' /\ ~Cached(p)'
      <4>1. p \in 1 .. page_amount
        BY <1>1, <3>2
      <4>2. Resetting \/ \A o \in Entries \ {v} : ~Holds(o, p)
        BY <1>4, <3>2 DEF Cached, Holds, Live
      <4>3. file'.pages[p] = latest[p]
        BY <1>1, <1>5, <3>2, <4>1, <4>2, EvictionKeeps
      <4> QED BY <1>1, <1>5, <3>2, <4>1, <4>3 DEF FileCoherent, TypeOK
    <3> QED BY <1>1, <3>1, <3>2 DEF FileCoherent
  <2> QED BY <2>1, <2>2 DEF Coherent
<1> QED BY <1>6, <1>7, <1>8, <1>9, <1>11, <1>12

LEMMA GetPageMissInv ==
    ASSUME Inv, NEW v \in Entries, NEW p \in 1 .. page_amount, GetPageMiss(v, p)
    PROVE  Inv'
<1> USE CacheAssumption DEF Inv
<1> DEFINE bytes == Evicted(v).pages[p]
           r == RelevancyValue(p)
<1>1. /\ opened /\ opened' /\ phase = "idle" /\ phase' = "idle"
      /\ page_amount' = page_amount /\ p \in R!Pages /\ page_amount \in Nat
      /\ R!TypeOK /\ TypeOK /\ flush_index' = flush_index
      /\ ~Cached(p) /\ latest' = latest
  BY DEF GetPageMiss, Idle, TypeOK, R!TypeOK, loopVars
<1>2. /\ file' = Evicted(v) /\ disk' = Evicted(v)
      /\ risky' = risky \ (LeftBy(v) \cup HiddenByReset(v))
      /\ lost \cup DroppedBy(v) \cup HiddenByReset(v) \subseteq lost'
      /\ lost' \subseteq lost \cup DroppedBy(v) \cup HiddenByReset(v) \cup {p}
  BY DEF GetPageMiss
<1>3. r \in 1 .. RelevancyMax
  BY <1>1, RelevancyFacts
<1>4. /\ cache' \in [Entries -> CacheEntry]
      /\ cache'[v].relevancy_value = r
      /\ cache'[v].page_id = p
      /\ cache'[v].is_altered = cache[v].is_altered
      /\ p \notin lost' => bytes # Absent /\ cache'[v].contents = bytes
      /\ \A o \in Entries \ {v} :
            /\ cache'[o].page_id = cache[o].page_id
            /\ cache'[o].is_altered = cache[o].is_altered
            /\ cache'[o].contents = cache[o].contents
            /\ cache'[o].relevancy_value =
                  IF Resetting THEN 0 ELSE cache[o].relevancy_value
  <2> DEFINE read == [Aged[v] EXCEPT !.relevancy_value = r,
                                     !.page_id = p, !.contents = bytes]
             unread == [Aged[v] EXCEPT !.relevancy_value = r, !.page_id = p]
  <2>1. /\ Aged \in [Entries -> CacheEntry]
        /\ p \in PageIds /\ r \in 0 .. RelevancyMax
        /\ Aged[v].is_altered = cache[v].is_altered
    BY <1>1, <1>3, RelevancyFacts
  <2>2. ASSUME NEW entry \in CacheEntry, cache' = [Aged EXCEPT ![v] = entry],
               entry.relevancy_value = r, entry.page_id = p,
               entry.is_altered = cache[v].is_altered,
               p \notin lost' => bytes # Absent /\ entry.contents = bytes
        PROVE  <1>4!:
    <3> HIDE DEF r, bytes
    <3> QED BY <2>1, <2>2, <1>1, RelevancyFacts
  <2>3. CASE bytes # Absent /\ cache' = [Aged EXCEPT ![v] = read]
    <3> HIDE DEF r, bytes
    <3>1. bytes \in Data
      BY <1>1, <2>3, EvictedFacts DEF R!FileState, bytes
    <3>2. /\ read \in CacheEntry /\ read.relevancy_value = r
          /\ read.page_id = p /\ read.is_altered = cache[v].is_altered
          /\ read.contents = bytes
      BY <2>1, <3>1 DEF CacheEntry
    <3> HIDE DEF read
    <3> QED BY <2>2, <2>3, <3>2
  <2>4. CASE p \in lost' /\ cache' = [Aged EXCEPT ![v] = unread]
    <3> HIDE DEF r, bytes
    <3>1. /\ unread \in CacheEntry /\ unread.relevancy_value = r
          /\ unread.page_id = p /\ unread.is_altered = cache[v].is_altered
      BY <2>1 DEF CacheEntry
    <3> HIDE DEF unread
    <3> QED BY <2>2, <2>4, <3>1
  <2> QED BY <2>3, <2>4 DEF GetPageMiss
<1>5. TypeOK'
  <2>1. file' \in R!FileState /\ disk' \in R!FileState
    BY <1>1, <1>2, EvictionHeader
  <2>2. was_file_header_altered' \in BOOLEAN
    BY DEF GetPageMiss
  <2>3. R!TypeOK'
    BY <1>1, <2>1, <2>2 DEF GetPageMiss, R!TypeOK
  <2>4. current_most_relevant_value' \in 1 .. RelevancyMax
        /\ last_accessed_page' \in PageIds
    BY <1>1, <1>3 DEF GetPageMiss, Accessed
  <2>5. held' \in [newest : Handle \cup {None}, older : Handle \cup {None}]
    BY <1>1 DEF GetPageMiss, HandOut, Handle, TypeOK, NothingHeld
  <2>6. HiddenByReset(v) \subseteq R!Pages
    BY <1>1 DEF HiddenByReset, EntriesNamePages, Live, R!TypeOK
  <2>7. risky' \subseteq R!Pages /\ lost' \subseteq R!Pages
    BY <1>1, <1>2, <2>6 DEF TypeOK, DroppedBy
  <2> QED BY <1>1, <1>4, <2>3, <2>4, <2>5, <2>7 DEF TypeOK
<1>6. EntriesNamePages'
  <2>1. ASSUME NEW e \in Entries
        PROVE  /\ Live(e)' \/ cache'[e].is_altered =>
                     cache'[e].page_id \in 1 .. page_amount'
               /\ ~Live(e)' /\ cache'[e].is_altered =>
                     cache'[e].page_id \in lost'
    BY <1>1, <1>2, <1>3, <1>4 DEF EntriesNamePages, Live, HiddenByReset
  <2> QED BY <2>1 DEF EntriesNamePages
<1>7. HeaderWithinAmount'
  BY <1>1, <1>2, EvictionHeader DEF HeaderWithinAmount
<1>8. FlushProgress'
  BY <1>1 DEF FlushProgress
<1>9. \A e \in Entries \ {v} : Live(e)' =>
          /\ ~Resetting /\ Live(e)
          /\ cache[e].page_id \in 1 .. page_amount /\ cache[e].page_id # p
  BY <1>1, <1>4 DEF Live, EntriesNamePages, Cached, Holds
<1>10. SingleCopy'
  BY <1>4, <1>9 DEF SingleCopy
<1>11. Coherent'
  <2>1. ASSUME p \notin lost' PROVE Evicted(v).pages[p] = latest[p]
    BY <1>1, <1>2, <2>1, EvictionKeeps DEF Cached
  <2>2. ASSUME NEW e \in Entries PROVE CopyCoherent(e)'
    <3>1. CASE e = v
      BY <1>1, <1>2, <1>4, <2>1, <3>1 DEF CopyCoherent
    <3>2. CASE e # v /\ Live(e)' /\ cache[e].page_id \notin lost'
      <4> DEFINE q == cache[e].page_id
      <4>1. q \in 1 .. page_amount /\ Holds(e, q) /\ ~Resetting
        BY <1>9, <3>2 DEF Holds
      <4>2. /\ cache[e].contents = latest[q]
            /\ cache[e].is_altered \/ q \in risky \/ file'.pages[q] = latest[q]
        BY <1>1, <1>2, <3>2, <4>1, EvictionKeeps
      <4>3. q \in risky => q \in risky'
        BY <1>2, <3>2, <4>1 DEF LeftBy, HiddenByReset, SingleCopy, Holds
      <4> QED BY <1>1, <1>4, <3>2, <4>2, <4>3 DEF CopyCoherent
    <3> QED BY <1>4, <3>1, <3>2 DEF CopyCoherent
  <2>3. ASSUME NEW q \in 1 .. page_amount', q \notin lost', ~Cached(q)'
        PROVE  file'.pages[q] = latest'[q]
    <3>1. Resetting \/ \A o \in Entries \ {v} : ~Holds(o, q)
      BY <1>4, <2>3 DEF Cached, Holds, Live
    <3> QED BY <1>1, <1>2, <2>3, <3>1, EvictionKeeps
  <2> QED BY <1>1, <2>2, <2>3 DEF Coherent, FileCoherent
<1> QED BY <1>5, <1>6, <1>7, <1>8, <1>10, <1>11

LEMMA GetPageHitInv ==
    ASSUME Inv, NEW e \in Entries, GetPageHit(e)
    PROVE  Inv'
<1> USE CacheAssumption DEF Inv
<1> DEFINE p == cache[e].page_id
           r == RelevancyValue(p)
           entry == [Aged[e] EXCEPT !.is_altered = TRUE, !.relevancy_value = r]
<1>1. /\ opened /\ opened' /\ phase = "idle" /\ phase' = "idle"
      /\ UNCHANGED <<file, disk, opened, page_amount, was_file_header_altered,
                     application_header, header_failed, latest, phase, flush_index>>
      /\ R!TypeOK /\ TypeOK /\ Live(e) /\ page_amount \in 0 .. MaxPage
      /\ p \in 1 .. page_amount /\ p \in R!Pages
  BY DEF GetPageHit, Idle, TypeOK, R!TypeOK, loopVars, resolverVars,
     EntriesNamePages
<1>2. /\ risky' = risky \ ({p} \cup HiddenByReset(e))
      /\ lost' = lost \cup HiddenByReset(e)
  BY DEF GetPageHit
<1>3. r \in 1 .. RelevancyMax
  BY <1>1, RelevancyFacts
<1>4. /\ cache' \in [Entries -> CacheEntry]
      /\ cache'[e].relevancy_value = r /\ cache'[e].is_altered
      /\ cache'[e].page_id = p /\ cache'[e].contents = cache[e].contents
      /\ \A o \in Entries \ {e} :
            /\ cache'[o].page_id = cache[o].page_id
            /\ cache'[o].is_altered = cache[o].is_altered
            /\ cache'[o].contents = cache[o].contents
            /\ cache'[o].relevancy_value =
                  IF Resetting THEN 0 ELSE cache[o].relevancy_value
  <2>1. /\ Aged \in [Entries -> CacheEntry] /\ r \in 0 .. RelevancyMax
        /\ Aged[e].contents = cache[e].contents /\ Aged[e].page_id = p
    BY <1>1, <1>3, RelevancyFacts
  <2>2. cache' = [Aged EXCEPT ![e] = entry]
    BY DEF GetPageHit
  <2> HIDE DEF r, p
  <2>3. /\ entry \in CacheEntry /\ entry.relevancy_value = r
        /\ entry.is_altered /\ entry.page_id = p
        /\ entry.contents = cache[e].contents
    BY <2>1 DEF CacheEntry
  <2> HIDE DEF entry
  <2> QED BY <1>1, <2>1, <2>2, <2>3, RelevancyFacts
<1>5. TypeOK'
  <2>1. R!TypeOK'
    BY <1>1 DEF R!TypeOK
  <2>2. current_most_relevant_value' \in 1 .. RelevancyMax
        /\ last_accessed_page' \in PageIds
    BY <1>1, <1>3 DEF GetPageHit, Accessed
  <2>3. held' \in [newest : Handle \cup {None}, older : Handle \cup {None}]
    BY <1>1 DEF GetPageHit, HandOut, Handle, TypeOK
  <2>4. HiddenByReset(e) \subseteq R!Pages
    BY <1>1 DEF HiddenByReset, EntriesNamePages, Live
  <2>5. risky' \subseteq R!Pages /\ lost' \subseteq R!Pages
    BY <1>2, <2>4 DEF TypeOK
  <2> QED BY <1>1, <1>4, <2>1, <2>2, <2>3, <2>5 DEF TypeOK
<1>6. EntriesNamePages'
  <2>1. ASSUME NEW o \in Entries
        PROVE  /\ Live(o)' \/ cache'[o].is_altered =>
                     cache'[o].page_id \in 1 .. page_amount'
               /\ ~Live(o)' /\ cache'[o].is_altered =>
                     cache'[o].page_id \in lost'
    BY <1>1, <1>2, <1>3, <1>4 DEF EntriesNamePages, Live, HiddenByReset
  <2> QED BY <2>1 DEF EntriesNamePages
<1>7. HeaderWithinAmount' /\ FlushProgress'
  BY <1>1 DEF HeaderWithinAmount, FlushProgress
<1>8. \A o \in Entries \ {e} : Live(o)' =>
          ~Resetting /\ Live(o) /\ cache[o].page_id # p
  BY <1>1, <1>4 DEF Live, SingleCopy
<1>9. SingleCopy'
  BY <1>4, <1>8 DEF SingleCopy
<1>10. Coherent'
  <2>1. ASSUME NEW o \in Entries PROVE CopyCoherent(o)'
    <3>1. CASE o = e
      BY <1>1, <1>2, <1>4, <3>1 DEF Coherent, CopyCoherent
    <3>2. CASE o # e
      BY <1>1, <1>2, <1>4, <1>8, <3>2 DEF Coherent, CopyCoherent, HiddenByReset
    <3> QED BY <3>1, <3>2
  <2>2. ASSUME NEW q \in 1 .. page_amount, q \notin lost', ~Cached(q)'
        PROVE  file.pages[q] = latest[q]
    <3>1. q # p
      BY <1>1, <1>3, <1>4, <2>2 DEF Cached, Holds, Live
    <3>2. CASE \E o \in Entries : Holds(o, q)
      <4>1. PICK o \in Entries : Holds(o, q)
        BY <3>2
      <4>2. o # e /\ Resetting
        BY <1>4, <2>2, <3>1, <4>1 DEF Cached, Holds, Live
      <4>3. q \notin lost /\ ~cache[o].is_altered /\ q \notin risky
        BY <1>2, <2>2, <4>1, <4>2 DEF HiddenByReset, Holds
      <4> QED BY <1>1, <4>1, <4>3 DEF Coherent, CopyCoherent, Holds
    <3>3. CASE ~Cached(q)
      BY <1>2, <2>2, <3>3 DEF Coherent, FileCoherent
    <3> QED BY <3>2, <3>3 DEF Cached
  <2> QED BY <1>1, <2>1, <2>2 DEF Coherent, FileCoherent
<1> QED BY <1>5, <1>6, <1>7, <1>9, <1>10
-----------------------------------------------------------------------------
(* A page_resolver_write_page that fails leaves every page as it was.      *)
LEMMA WriteFailsFacts ==
    ASSUME Inv, opened, R!WritePageFails
    PROVE  /\ R!TypeOK' /\ HeaderWithinAmount'
           /\ file'.pages = file.pages
           /\ UNCHANGED <<opened, page_amount>>
<1> USE CacheAssumption DEF Inv
<1>1. R!TypeOK /\ page_amount \in 0 .. MaxPage /\ file \in R!FileState
  BY DEF TypeOK, R!TypeOK
<1>2. /\ R!BeforePage \in R!FileState /\ R!BeforePage.exists
      /\ R!BeforePage.page_amount # Absent => R!BeforePage.page_amount <= page_amount
  <2>1. 0 \in Entries
    OBVIOUS
  <2> QED BY <2>1, EvictionHeader
<1>3. R!BeforePage.pages = file.pages
  <2>1. 1 \in R!Pages /\ Zero \in Data
    OBVIOUS
  <2> QED BY <1>1, <2>1, WrittenPages
<1>4. /\ file' \in {file, R!BeforePage} /\ disk' \in {disk, file, R!BeforePage}
      /\ UNCHANGED <<opened, page_amount, application_header>>
      /\ was_file_header_altered' \in BOOLEAN /\ header_failed' \in BOOLEAN
  BY <1>1 DEF R!WritePageFails, R!WriteHeaderFails, R!WriteDataFails,
     R!BeforePage, R!TypeOK
<1>5. R!TypeOK'
  BY <1>1, <1>2, <1>4 DEF R!TypeOK
<1>6. HeaderWithinAmount'
  BY <1>2, <1>4 DEF HeaderWithinAmount
<1> QED BY <1>3, <1>4, <1>5, <1>6

LEMMA EvictionFailsInv ==
    ASSUME Inv, NEW v \in Entries, EvictionFails(v)
    PROVE  Inv'
<1> USE CacheAssumption DEF Inv
<1>1. /\ R!TypeOK' /\ HeaderWithinAmount' /\ file'.pages = file.pages
      /\ UNCHANGED <<opened, page_amount, cacheVars, loopVars, history>>
      /\ held' = NothingHeld
  BY WriteFailsFacts DEF EvictionFails, Idle
<1>2. TypeOK'
  BY <1>1 DEF TypeOK, cacheVars, loopVars, history, NothingHeld
<1>3. EntriesNamePages' /\ SingleCopy' /\ FlushProgress'
  BY <1>1 DEF EntriesNamePages, SingleCopy, FlushProgress, Live, cacheVars,
     loopVars, history
<1>4. Coherent'
  BY <1>1 DEF Coherent, CopyCoherent, FileCoherent, Cached, Holds, Live,
     cacheVars, history
<1> QED BY <1>1, <1>2, <1>3, <1>4

LEMMA WriteThroughInv ==
    ASSUME Inv, NEW h \in {held.newest, held.older} \ {None},
           NEW d \in Contents, WriteThrough(h, d)
    PROVE  Inv'
<1> USE CacheAssumption DEF Inv
<1> DEFINE e == h.entry
           p == h.page_id
           q == cache[e].page_id
<1>1. e \in Entries /\ p \in R!Pages /\ q \in PageIds
  BY DEF TypeOK, Handle, CacheEntry
<1>2. /\ opened /\ phase = "idle"
      /\ UNCHANGED <<current_most_relevant_value, last_accessed_page, phase,
                     flush_index, held, file, disk, opened, page_amount,
                     was_file_header_altered, application_header, header_failed>>
      /\ latest' = [latest EXCEPT ![p] = d]
      /\ risky' = IF Holds(e, p) /\ ~cache[e].is_altered
                  THEN risky \cup {p} ELSE risky
      /\ lost' = IF Holds(e, p) THEN lost ELSE lost \cup ({p, q} \ {PAGE_ID_NULL})
      /\ cache' = [cache EXCEPT ![e].contents = d]
  BY DEF WriteThrough, Idle, loopVars, resolverVars
<1>3. /\ cache' \in [Entries -> CacheEntry]
      /\ cache'[e].contents = d
      /\ \A o \in Entries : /\ cache'[o].page_id = cache[o].page_id
                            /\ cache'[o].is_altered = cache[o].is_altered
                            /\ cache'[o].relevancy_value = cache[o].relevancy_value
                            /\ o # e => cache'[o].contents = cache[o].contents
  <2> DEFINE entry == [cache[e] EXCEPT !.contents = d]
  <2>1. cache' = [cache EXCEPT ![e] = entry] /\ cache \in [Entries -> CacheEntry]
    BY <1>2 DEF TypeOK
  <2>2. /\ entry \in CacheEntry /\ entry.contents = d
        /\ entry.page_id = q /\ entry.is_altered = cache[e].is_altered
        /\ entry.relevancy_value = cache[e].relevancy_value
    <3>1. cache[e] \in CacheEntry /\ d \in Data
      BY <1>1 DEF TypeOK
    <3> HIDE DEF e
    <3> QED BY <3>1 DEF CacheEntry
  <2> HIDE DEF entry, e
  <2> QED BY <1>1, <2>1, <2>2
<1>4. TypeOK'
  <2>1. R!TypeOK'
    BY <1>2 DEF TypeOK, R!TypeOK
  <2>2. latest' \in [R!Pages -> Data]
    BY <1>2 DEF TypeOK
  <2>3. risky' \subseteq R!Pages /\ lost' \subseteq R!Pages
    BY <1>1, <1>2 DEF TypeOK
  <2> QED BY <1>2, <1>3, <2>1, <2>2, <2>3 DEF TypeOK
<1>5. lost \subseteq lost' /\ EntriesNamePages'
  BY <1>2, <1>3 DEF EntriesNamePages, Live
<1>6. HeaderWithinAmount' /\ FlushProgress'
  BY <1>2 DEF HeaderWithinAmount, FlushProgress
<1>7. SingleCopy'
  BY <1>3 DEF SingleCopy, Live
<1>8. Coherent'
  <2>1. ASSUME NEW o \in Entries, Live(o), cache[o].page_id \notin lost'
        PROVE  /\ cache'[o].contents = latest'[cache[o].page_id]
               /\ \/ cache[o].is_altered
                  \/ cache[o].page_id \in risky'
                  \/ file.pages[cache[o].page_id] = latest'[cache[o].page_id]
    <3>1. cache[o].page_id \in R!Pages /\ cache[o].page_id # PAGE_ID_NULL
      BY <2>1 DEF EntriesNamePages, TypeOK, R!TypeOK
    <3>2. CASE Holds(e, p)
      <4>1. cache[o].page_id = p => o = e
        BY <1>1, <2>1, <3>2 DEF SingleCopy, Holds
      <4>2. CASE o = e
        BY <1>1, <1>2, <1>3, <2>1, <3>2, <4>2 DEF TypeOK, Holds
      <4>3. CASE o # e
        BY <1>2, <1>3, <2>1, <3>1, <4>1, <4>3
           DEF Coherent, CopyCoherent, TypeOK
      <4> QED BY <4>2, <4>3
    <3>3. CASE ~Holds(e, p)
      <4>1. cache[o].page_id # p /\ o # e /\ cache[o].page_id \notin lost
        BY <1>1, <1>2, <2>1, <3>1, <3>3
      <4> QED BY <1>2, <1>3, <2>1, <3>1, <4>1 DEF Coherent, CopyCoherent, TypeOK
    <3> QED BY <3>2, <3>3
  <2>2. ASSUME NEW o \in 1 .. page_amount, o \notin lost', ~Cached(o)
        PROVE  file.pages[o] = latest'[o]
    <3>1. o # p
      BY <1>1, <1>2, <2>2 DEF Cached
    <3>2. o \in R!Pages
      BY DEF TypeOK, R!TypeOK
    <3> QED BY <1>2, <1>5, <2>2, <3>1, <3>2 DEF Coherent, FileCoherent, TypeOK
  <2>3. \A o \in Entries : Live(o)' = Live(o)
    BY <1>3 DEF Live
  <2>4. \A o \in 1 .. page_amount : Cached(o)' = Cached(o)
    BY <1>3 DEF Cached, Holds, Live
  <2> QED BY <1>2, <1>3, <2>1, <2>2, <2>3, <2>4 DEF Coherent, CopyCoherent, FileCoherent
<1> QED BY <1>4, <1>5, <1>6, <1>7, <1>8

LEMMA FlushBeginInv == ASSUME Inv, FlushBegin PROVE Inv'
<1> USE CacheAssumption DEF Inv
<1>1. /\ opened /\ opened' /\ phase' \in {"flush", "destroy"} /\ flush_index' = 0
      /\ held' = NothingHeld
      /\ UNCHANGED <<cacheVars, history, resolverVars>>
  BY DEF FlushBegin, Idle, resolverVars
<1>2. TypeOK'
  BY <1>1 DEF TypeOK, R!TypeOK, cacheVars, history, resolverVars, NothingHeld
<1>3. EntriesNamePages' /\ HeaderWithinAmount' /\ SingleCopy'
  BY <1>1 DEF EntriesNamePages, HeaderWithinAmount, SingleCopy, Live,
     cacheVars, history, resolverVars
<1>4. FlushProgress'
  BY <1>1 DEF FlushProgress
<1>5. Coherent'
  BY <1>1 DEF Coherent, CopyCoherent, FileCoherent, Cached, Holds, Live,
     cacheVars, history, resolverVars
<1> QED BY <1>2, <1>3, <1>4, <1>5

(* One turn of the loop of page_manager_flush.                             *)
LEMMA FlushEntryInv == ASSUME Inv, FlushEntry PROVE Inv'
<1> USE CacheAssumption DEF Inv
<1> DEFINE v == flush_index
           p == cache[v].page_id
           c == cache[v].contents
<1>1. /\ opened /\ opened' /\ phase # "idle" /\ v \in Entries
      /\ flush_index' = v + 1
      /\ UNCHANGED <<current_most_relevant_value, last_accessed_page, phase,
                     held, latest, risky, lost, page_amount>>
      /\ R!TypeOK /\ page_amount \in 0 .. MaxPage
  <2>1. UNCHANGED page_amount
    BY DEF FlushEntry, resolverVars, R!WritePage
  <2>2. flush_index \in Nat /\ R!TypeOK /\ page_amount \in 0 .. MaxPage
    BY DEF TypeOK, R!TypeOK
  <2>3. opened' = opened
    BY DEF FlushEntry, resolverVars, R!WritePage
  <2> QED BY <2>1, <2>2, <2>3 DEF FlushEntry, InFlush, history
<1>2. CASE ~cache[v].is_altered
  <2>1. UNCHANGED <<cache, resolverVars>>
    BY <1>2 DEF FlushEntry
  <2>2. TypeOK'
    BY <1>1, <2>1 DEF TypeOK, R!TypeOK, resolverVars
  <2>3. EntriesNamePages' /\ HeaderWithinAmount' /\ SingleCopy'
    BY <1>1, <2>1 DEF EntriesNamePages, HeaderWithinAmount, SingleCopy, Live,
       resolverVars
  <2>4. FlushProgress'
    BY <1>1, <1>2, <2>1 DEF FlushProgress
  <2>5. Coherent'
    BY <1>1, <2>1 DEF Coherent, CopyCoherent, FileCoherent, Cached, Holds, Live,
       resolverVars
  <2> QED BY <2>2, <2>3, <2>4, <2>5
<1>3. CASE cache[v].is_altered
  <2>1. /\ file' = Evicted(v) /\ disk' = R!BeforePage
        /\ was_file_header_altered' \in BOOLEAN
        /\ UNCHANGED <<application_header, header_failed>>
    BY <1>3 DEF FlushEntry, R!WritePage, Evicted
  <2>2. /\ p \in 1 .. page_amount /\ p \in R!Pages /\ c \in Data
        /\ Live(v) \/ p \in lost
    <3>1. cache[v] \in CacheEntry
      BY <1>1 DEF TypeOK
    <3> QED BY <1>1, <1>3, <3>1 DEF EntriesNamePages, CacheEntry
  <2>3. /\ cache' \in [Entries -> CacheEntry]
        /\ cache'[v].relevancy_value = 0 /\ ~cache'[v].is_altered
        /\ \A o \in Entries \ {v} : cache'[o] = cache[o]
    <3> DEFINE entry == [cache[v] EXCEPT !.relevancy_value = LEAST_RELEVANT_VALUE,
                                         !.is_altered = FALSE]
    <3>1. cache' = [cache EXCEPT ![v] = entry] /\ cache[v] \in CacheEntry
      BY <1>1, <1>3 DEF FlushEntry, TypeOK
    <3>2. entry \in CacheEntry
      <4>1. 0 \in 0 .. RelevancyMax /\ FALSE \in BOOLEAN
        OBVIOUS
      <4>2. ASSUME NEW b \in CacheEntry, NEW x \in 0 .. RelevancyMax, NEW y \in BOOLEAN
            PROVE  [b EXCEPT !.relevancy_value = x, !.is_altered = y] \in CacheEntry
        BY DEF CacheEntry
      <4> QED BY <3>1, <4>1, <4>2
    <3>3. entry.relevancy_value = 0
      BY <3>1 DEF CacheEntry
    <3>4. entry.is_altered = FALSE
      BY <3>1 DEF CacheEntry
    <3> HIDE DEF entry
    <3> QED BY <1>1, <3>1, <3>2, <3>3, <3>4 DEF TypeOK
  <2>4. TypeOK'
    <3>1. R!TypeOK'
      BY <1>1, <2>1, EvictionHeader DEF R!TypeOK
    <3> QED BY <1>1, <2>3, <3>1 DEF TypeOK
  <2>5. EntriesNamePages' /\ SingleCopy'
    BY <1>1, <2>3 DEF EntriesNamePages, SingleCopy, Live
  <2>6. HeaderWithinAmount'
    BY <1>1, <2>1, EvictionHeader DEF HeaderWithinAmount
  <2>7. FlushProgress'
    BY <1>1, <2>3 DEF FlushProgress
  <2>8. /\ file'.pages[p] = c
        /\ \A q \in 1 .. page_amount \ {p} :
              file.pages[q] = latest[q] => file'.pages[q] = latest[q]
    <3>1. \A q \in 1 .. page_amount : q \in R!Pages /\ latest[q] # Absent
      BY <1>1 DEF TypeOK
    <3> QED BY <1>1, <1>3, <2>1, <3>1, EvictedFacts
  <2>9. ASSUME NEW o \in Entries PROVE CopyCoherent(o)'
    <3>1. CASE o # v /\ Live(o) /\ cache[o].page_id \notin lost
      <4>1. cache[o].page_id # p /\ cache[o].page_id \in 1 .. page_amount
        BY <1>1, <2>2, <3>1 DEF SingleCopy, EntriesNamePages
      <4> QED BY <1>1, <2>3, <2>8, <3>1, <4>1 DEF Coherent, CopyCoherent
    <3> QED BY <1>1, <2>3, <3>1 DEF CopyCoherent, Live
  <2>10. ASSUME NEW q \in 1 .. page_amount, q \notin lost, ~Cached(q)'
         PROVE  file'.pages[q] = latest[q]
    <3>1. CASE q = p
      <4>1. c = latest[p]
        BY <1>1, <2>2, <2>10, <3>1 DEF Coherent, CopyCoherent
      <4> QED BY <2>8, <3>1, <4>1
    <3>2. CASE q # p
      <4>1. ~Cached(q)
        BY <2>3, <2>10, <3>2 DEF Cached, Holds, Live
      <4> QED BY <2>8, <2>10, <3>2, <4>1 DEF Coherent, FileCoherent
    <3> QED BY <3>1, <3>2
  <2> QED BY <1>1, <2>4, <2>5, <2>6, <2>7, <2>9, <2>10 DEF Coherent, FileCoherent
<1> QED BY <1>2, <1>3

LEMMA FlushEntryFailsInv == ASSUME Inv, FlushEntryFails PROVE Inv'
<1> USE CacheAssumption DEF Inv
<1>1. /\ R!TypeOK' /\ HeaderWithinAmount' /\ file'.pages = file.pages
      /\ UNCHANGED <<opened, page_amount, cacheVars, held, latest, risky>>
      /\ opened
  BY WriteFailsFacts DEF FlushEntryFails, InFlush
<1> DEFINE altered == {cache[e].page_id : e \in {e \in Entries : cache[e].is_altered}}
<1>2. \/ phase' = "idle" /\ flush_index' = 0 /\ lost' = lost
      \/ phase' = phase /\ flush_index' = CacheSize /\ lost' = lost \cup altered
  BY DEF FlushEntryFails
<1>3. altered \subseteq R!Pages /\ lost \subseteq lost'
  BY <1>2 DEF EntriesNamePages, TypeOK, R!TypeOK
<1>4. TypeOK'
  <2>1. lost' \subseteq R!Pages
    BY <1>2, <1>3 DEF TypeOK
  <2> QED BY <1>1, <1>2, <2>1 DEF TypeOK, cacheVars
<1>5. EntriesNamePages' /\ SingleCopy' /\ FlushProgress'
  <2>1. EntriesNamePages' /\ SingleCopy'
    BY <1>1, <1>3 DEF EntriesNamePages, SingleCopy, Live, cacheVars
  <2>2. FlushProgress'
    BY <1>1, <1>2 DEF FlushProgress, cacheVars
  <2> QED BY <2>1, <2>2
<1>6. Coherent'
  BY <1>1, <1>3 DEF Coherent, CopyCoherent, FileCoherent, Cached, Holds, Live,
     cacheVars
<1> QED BY <1>1, <1>4, <1>5, <1>6

LEMMA FlushReturnInv == ASSUME Inv, FlushReturn PROVE Inv'
<1> USE CacheAssumption DEF Inv
<1>1. /\ opened /\ phase' = "idle" /\ flush_index' = 0
      /\ UNCHANGED <<cacheVars, held, history, resolverVars>>
  BY DEF FlushReturn, InFlush
<1>2. TypeOK'
  BY <1>1 DEF TypeOK, R!TypeOK, cacheVars, history, resolverVars
<1>3. EntriesNamePages' /\ HeaderWithinAmount' /\ SingleCopy' /\ FlushProgress'
  BY <1>1 DEF EntriesNamePages, HeaderWithinAmount, SingleCopy, FlushProgress,
     Live, cacheVars, history, resolverVars
<1>4. Coherent'
  BY <1>1 DEF Coherent, CopyCoherent, FileCoherent, Cached, Holds, Live,
     cacheVars, history, resolverVars
<1> QED BY <1>2, <1>3, <1>4

(* After its flush page_manager_destroy leaves nothing but the file.       *)
LEMMA DestroyReturnInv == ASSUME Inv, DestroyReturn PROVE Inv'
<1> USE CacheAssumption DEF Inv
<1>1. /\ opened /\ phase = "destroy" /\ flush_index = CacheSize
      /\ phase' = "idle" /\ flush_index' = 0
      /\ opened' = FALSE /\ disk' = file /\ cache' = CacheNew
      /\ lost' = lost \cup risky /\ risky' = {}
      /\ UNCHANGED <<current_most_relevant_value, last_accessed_page, held,
                     latest, file, page_amount, was_file_header_altered,
                     application_header, header_failed>>
  BY DEF DestroyReturn, InFlush, R!Destroy
<1>2. TypeOK'
  <2>1. R!TypeOK'
    BY <1>1 DEF TypeOK, R!TypeOK
  <2> QED BY <1>1, <2>1, CacheNewFacts DEF TypeOK
<1>3. EntriesNamePages' /\ SingleCopy' /\ HeaderWithinAmount' /\ FlushProgress'
  BY <1>1, CacheNewFacts DEF EntriesNamePages, SingleCopy, HeaderWithinAmount,
     FlushProgress, Live
<1>4. ASSUME NEW p \in 1 .. page_amount, p \notin lost \cup risky
      PROVE  file.pages[p] = latest[p]
  BY <1>1, <1>4 DEF Coherent, CopyCoherent, FileCoherent, Cached, Holds,
     FlushProgress, Entries
<1> QED BY <1>1, <1>2, <1>3, <1>4 DEF Coherent, FileCoherent

LEMMA CrashInv == ASSUME Inv, Crash PROVE Inv'
<1> USE CacheAssumption DEF Inv
<1>1. /\ opened /\ opened' = FALSE /\ disk' = file' /\ file' \in {disk, file}
      /\ cache' = CacheNew /\ phase' = "idle" /\ flush_index' = 0
      /\ held' = NothingHeld /\ risky' = {}
      /\ latest' = [p \in R!Pages |->
            IF file'.pages[p] = Absent THEN Zero ELSE file'.pages[p]]
      /\ lost' = {p \in R!Pages : file'.pages[p] = Absent}
      /\ UNCHANGED <<current_most_relevant_value, last_accessed_page,
                     page_amount, was_file_header_altered, application_header,
                     header_failed>>
  BY DEF Crash, R!Crash
<1>2. TypeOK'
  <2>1. R!TypeOK' /\ file' \in R!FileState
    BY <1>1 DEF TypeOK, R!TypeOK
  <2>2. latest' \in [R!Pages -> Data]
    BY <1>1, <2>1 DEF R!FileState
  <2>3. held' \in [newest : Handle \cup {None}, older : Handle \cup {None}]
    BY <1>1 DEF NothingHeld
  <2> QED BY <1>1, <2>1, <2>2, <2>3, CacheNewFacts DEF TypeOK
<1>3. EntriesNamePages' /\ SingleCopy' /\ HeaderWithinAmount' /\ FlushProgress'
  BY <1>1, CacheNewFacts DEF EntriesNamePages, SingleCopy, HeaderWithinAmount,
     FlushProgress, Live
<1>4. Coherent'
  BY <1>1 DEF Coherent, FileCoherent, TypeOK, R!TypeOK
<1> QED BY <1>2, <1>3, <1>4
-----------------------------------------------------------------------------
LEMMA StutterInv == Inv /\ UNCHANGED vars => Inv'
<1> SUFFICES ASSUME Inv, UNCHANGED vars PROVE Inv'
  OBVIOUS
<1> USE DEF Inv, vars, cacheVars, loopVars, history, resolverVars
<1>1. TypeOK'
  BY DEF TypeOK, R!TypeOK
<1>2. EntriesNamePages' /\ HeaderWithinAmount' /\ FlushProgress' /\ SingleCopy'
  BY DEF EntriesNamePages, HeaderWithinAmount, FlushProgress, SingleCopy, Live
<1>3. Coherent'
  BY DEF Coherent, CopyCoherent, FileCoherent, Cached, Holds, Live
<1> QED BY <1>1, <1>2, <1>3

LEMMA StepInv == Inv /\ [Next]_vars => Inv'
<1> SUFFICES ASSUME Inv, [Next]_vars PROVE Inv'
  OBVIOUS
<1>1. CASE Open                             BY <1>1, OpenInv
<1>2. CASE OpenFails                        BY <1>2, OpenFailsInv
<1>3. CASE \E v \in Entries : CreatePage(v) BY <1>3, CreatePageInv
<1>4. CASE \E e \in Entries : GetPageHit(e) BY <1>4, GetPageHitInv
<1>5. CASE \E v \in Entries, p \in 1 .. page_amount : GetPageMiss(v, p)
  BY <1>5, GetPageMissInv
<1>6. CASE \E v \in Entries : EvictionFails(v)
  BY <1>6, EvictionFailsInv
<1>7. CASE \E h \in {held.newest, held.older} \ {None}, d \in Contents :
              WriteThrough(h, d)
  BY <1>7, WriteThroughInv
<1>8. CASE FlushBegin                       BY <1>8, FlushBeginInv
<1>9. CASE FlushEntry                       BY <1>9, FlushEntryInv
<1>10. CASE FlushEntryFails                 BY <1>10, FlushEntryFailsInv
<1>11. CASE FlushReturn                     BY <1>11, FlushReturnInv
<1>12. CASE DestroyReturn                   BY <1>12, DestroyReturnInv
<1>13. CASE Crash                           BY <1>13, CrashInv
<1>14. CASE UNCHANGED vars                  BY <1>14, StutterInv
<1> QED BY <1>1, <1>2, <1>3, <1>4, <1>5, <1>6, <1>7, <1>8, <1>9, <1>10,
           <1>11, <1>12, <1>13, <1>14 DEF Next

LEMMA Invariance == Spec => []Inv
BY InitInv, StepInv, PTL DEF Spec

(* The cache and the file always have the shape the code relies on: every  *)
(* relevancy and page id stays in range.                                   *)
THEOREM TypeCorrect == Spec => []TypeOK
BY Invariance, PTL DEF Inv

(* page_manager_get_page never finds two entries for a page, however large *)
(* the cache and wherever the relevancy counter starts again.              *)
THEOREM OneCopy == Spec => []SingleCopy
BY Invariance, PTL DEF Inv

(* Over evictions, flushes, restarts and crashes, no page goes stale but   *)
(* by one of the causes that "lost" and "risky" name.                      *)
THEOREM CacheCoherent == Spec => []Coherent
BY Invariance, PTL DEF Inv

(* What page_manager_flush promises, for all the pages no named cause has  *)
(* hit: when it returns the file holds what was last put into them.        *)
THEOREM FlushIsComplete == Spec => FlushSaves
<1> USE CacheAssumption
<1>1. ASSUME Inv, [Next]_vars, Flushed,
             NEW p \in 1 .. page_amount \ (lost \cup risky)
      PROVE  file.pages[p] = latest[p]
  <2>1. opened /\ TypeOK /\ Coherent /\ \A e \in Entries :
            cache[e].is_altered => cache[e].page_id \in lost
    BY <1>1 DEF Inv, Flushed, FlushProgress
  <2>2. CASE Cached(p)
    BY <1>1, <2>1, <2>2 DEF Cached, Holds, Coherent, CopyCoherent
  <2>3. CASE ~Cached(p)
    <3>1. p \in 1 .. page_amount
      BY <1>1, <2>1 DEF TypeOK, R!TypeOK
    <3> QED BY <1>1, <2>1, <2>3, <3>1 DEF Coherent, FileCoherent
  <2> QED BY <2>2, <2>3
<1>2. Inv /\ [Next]_vars =>
        [Flushed => \A p \in 1 .. page_amount \ (lost \cup risky) :
                        file.pages[p] = latest[p]]_vars
  BY <1>1
<1> QED BY <1>2, Invariance, PTL DEF Spec, FlushSaves
-----------------------------------------------------------------------------
(* What the relevancy order has to do with the pointers.  Pointers are     *)
(* given up before a flush, and the two newest are of different pages.     *)
HeldOrder ==
    /\ phase # "idle" => held = NothingHeld
    /\ held.newest # None =>
          /\ held.newest.page_id \in 1 .. page_amount
          /\ cache[held.newest.entry].page_id = held.newest.page_id
    /\ held.older # None =>
          held.newest # None /\ held.older.page_id # held.newest.page_id

PointerInv == RelevancyOrder /\ NewestIsTop /\ HeldOrder /\ HeldPointersValid

(* An entry that was given the newest relevancy value.                     *)
Used(v, p, q) ==
    /\ cache'[v].relevancy_value = RelevancyValue(q)
    /\ cache'[v].page_id = p
    /\ \A o \in Entries \ {v} :
          /\ cache'[o].page_id = cache[o].page_id
          /\ cache'[o].relevancy_value =
                IF Resetting THEN 0 ELSE cache[o].relevancy_value
    /\ Accessed(q)

(* Using an entry for a page keeps the order, if no other entry can have   *)
(* the value it is given.                                                  *)
LEMMA UsedKeepsOrder ==
    ASSUME TypeOK, RelevancyOrder, NEW v \in Entries, NEW p \in PageIds,
           NEW q \in {p, PAGE_ID_NULL}, Used(v, p, q),
           \/ last_accessed_page # q
           \/ q = PAGE_ID_NULL /\ ~GetAfterCreate
           \/ \A o \in Entries \ {v} :
                 cache[o].relevancy_value # current_most_relevant_value
    PROVE  RelevancyOrder'
<1> USE CacheAssumption
<1> DEFINE m == current_most_relevant_value
           r == RelevancyValue(q)
<1>1. /\ m \in 1 .. RelevancyMax
      /\ \A e \in Entries : cache[e].relevancy_value \in 0 .. RelevancyMax
      /\ \A e \in Entries : cache[e].relevancy_value <= m
  BY DEF TypeOK, RelevancyOrder, CacheEntry
<1>2. /\ r \in 1 .. RelevancyMax
      /\ Resetting \/ r >= m
      /\ ~Resetting /\ r = m => last_accessed_page = q
  BY <1>1 DEF RelevancyValue, Resetting
<1>3. m' = r /\ last_accessed_page' = q
  BY DEF Used, Accessed
<1>4. \A e \in Entries : cache'[e].relevancy_value <= r
  BY <1>1, <1>2 DEF Used
<1>5. ASSUME NEW o \in Entries \ {v}, cache'[o].relevancy_value = r
      PROVE  q = PAGE_ID_NULL /\ ~GetAfterCreate
  <2>1. ~Resetting /\ cache[o].relevancy_value = r
    BY <1>2, <1>5 DEF Used
  <2>2. r = m /\ last_accessed_page = q
    BY <1>1, <1>2, <2>1
  <2> QED BY <2>1, <2>2
<1> HIDE DEF r
<1>6. ASSUME NEW e \in Entries, cache'[e].relevancy_value = r, q # PAGE_ID_NULL
      PROVE  cache'[e].page_id = q
  BY <1>5, <1>6 DEF Used
<1>7. ASSUME GetAfterCreate, NEW e \in Entries, NEW o \in Entries,
             cache'[e].relevancy_value = r, cache'[o].relevancy_value = r
      PROVE  e = o
  BY <1>5, <1>7
<1> QED BY <1>3, <1>4, <1>6, <1>7 DEF RelevancyOrder

(* get_least_relevant_entry never picks the entry that was handed out last.*)
LEMMA VictimIsNotNewest ==
    ASSUME TypeOK, PointerInv, GetAfterCreate, held.newest # None,
           NEW v \in Entries, LeastRelevant(v)
    PROVE  held.newest.entry \in Entries /\ v # held.newest.entry
<1> USE CacheAssumption
<1>1. held.newest.entry \in Entries
  BY DEF TypeOK, Handle
<1> DEFINE t == held.newest.entry
<1>2. SUFFICES ASSUME v = t PROVE FALSE
  BY <1>1
<1>3. PICK o \in Entries : o # t
  <2>1. 0 \in Entries /\ 1 \in Entries
    OBVIOUS
  <2> QED BY <2>1
<1>4. /\ cache[t].relevancy_value = current_most_relevant_value
      /\ cache[o].relevancy_value <= current_most_relevant_value
      /\ cache[o].relevancy_value # current_most_relevant_value
  BY <1>1, <1>3 DEF PointerInv, NewestIsTop, RelevancyOrder
<1>5. /\ cache[t].relevancy_value \in Nat /\ cache[o].relevancy_value \in Nat
  BY <1>1 DEF TypeOK, CacheEntry
<1> QED BY <1>2, <1>4, <1>5 DEF LeastRelevant

(* A new page in a reused entry: the newest pointer becomes the older one. *)
LEMMA ReuseKeepsPointers ==
    ASSUME TypeOK, PointerInv, NEW v \in Entries, LeastRelevant(v),
           NEW p \in R!Pages, NEW q \in {p, PAGE_ID_NULL}, Used(v, p, q),
           RelevancyOrder', phase' = "idle",
           p \in 1 .. page_amount',
           HandOut(v, p) \/ held' = NothingHeld,
           held.newest # None => held.newest.page_id # p
    PROVE  PointerInv'
<1> USE DEF PointerInv
<1>1. CASE held' = NothingHeld
  BY <1>1 DEF NothingHeld, NewestIsTop, HeldOrder, HeldPointersValid
<1>2. CASE HandOut(v, p)
  <2>1. /\ held'.newest = [entry |-> v, page_id |-> p]
        /\ held'.older = held.newest
    BY <1>2 DEF HandOut, HeldOrder
  <2>2. /\ held'.newest # None
        /\ held'.newest.entry = v /\ held'.newest.page_id = p
    <3>1. v \in Nat /\ p \in Nat
      BY CacheAssumption
    <3> QED BY <2>1, <3>1, NoneAssumption
  <2>3. NewestIsTop' /\ HeldOrder'
    BY <1>2, <2>1, <2>2 DEF NewestIsTop, HeldOrder, Used, Accessed
  <2>4. HeldPointersValid'
    <3> SUFFICES ASSUME GetAfterCreate PROVE HeldPointersValid'
      BY DEF HeldPointersValid
    <3>1. cache'[v].page_id = p
      BY DEF Used
    <3>2. ASSUME held.newest # None
          PROVE  cache'[held.newest.entry].page_id = held.newest.page_id
      BY <3>2, VictimIsNotNewest DEF Used, HeldPointersValid
    <3> QED BY <2>1, <2>2, <3>1, <3>2 DEF HeldPointersValid
  <2> QED BY <2>3, <2>4
<1> QED BY <1>1, <1>2
-----------------------------------------------------------------------------
LEMMA CreatePagePointers ==
    ASSUME Inv, PointerInv, NEW v \in Entries, CreatePage(v)
    PROVE  PointerInv'
<1> USE CacheAssumption DEF PointerInv
<1> DEFINE n == page_amount + 1
<1>1. /\ TypeOK /\ phase' = "idle" /\ LeastRelevant(v) /\ HandOut(v, n)
      /\ page_amount \in Nat /\ n \in R!Pages
  BY DEF Inv, TypeOK, R!TypeOK, CreatePage, Idle, loopVars
<1>2. Used(v, n, PAGE_ID_NULL)
  <2> DEFINE r == RelevancyValue(PAGE_ID_NULL)
             entry == [relevancy_value |-> r, is_altered |-> TRUE,
                       page_id |-> n, contents |-> Zero]
  <2>1. cache' = [Aged EXCEPT ![v] = entry]
    BY DEF CreatePage
  <2>2. entry.relevancy_value = r /\ entry.page_id = n
    OBVIOUS
  <2> HIDE DEF entry, r
  <2>3. /\ cache'[v].relevancy_value = r /\ cache'[v].page_id = n
        /\ \A o \in Entries \ {v} :
              /\ cache'[o].page_id = cache[o].page_id
              /\ cache'[o].relevancy_value =
                    IF Resetting THEN 0 ELSE cache[o].relevancy_value
    BY <1>1, <2>1, <2>2, RelevancyFacts
  <2> QED BY <2>3 DEF CreatePage, Used, r
<1>3. \/ last_accessed_page # PAGE_ID_NULL
      \/ ~GetAfterCreate
      \/ \A o \in Entries \ {v} :
            cache[o].relevancy_value # current_most_relevant_value
  BY <1>1 DEF CreatePage, Live, TypeOK
<1>4. RelevancyOrder'
  BY <1>1, <1>2, <1>3, UsedKeepsOrder
<1>5. held.newest # None => held.newest.page_id # n
  BY <1>1 DEF HeldOrder
<1>6. n \in 1 .. page_amount'
  BY <1>1 DEF CreatePage
<1> QED BY <1>1, <1>2, <1>4, <1>5, <1>6, ReuseKeepsPointers

LEMMA GetPageMissPointers ==
    ASSUME Inv, PointerInv, NEW v \in Entries, NEW p \in 1 .. page_amount,
           GetPageMiss(v, p)
    PROVE  PointerInv'
<1> USE CacheAssumption DEF PointerInv
<1>1. /\ TypeOK /\ phase' = "idle" /\ LeastRelevant(v) /\ ~Cached(p)
      /\ HandOut(v, p) \/ held' = NothingHeld
      /\ page_amount \in Nat /\ p \in R!Pages /\ page_amount' = page_amount
  BY DEF Inv, TypeOK, R!TypeOK, GetPageMiss, Idle, loopVars
<1>2. Used(v, p, p)
  <2> DEFINE r == RelevancyValue(p)
             read == [Aged[v] EXCEPT !.relevancy_value = r,
                          !.page_id = p, !.contents = Evicted(v).pages[p]]
             unread == [Aged[v] EXCEPT !.relevancy_value = r, !.page_id = p]
  <2>1. \E entry \in {read, unread} : cache' = [Aged EXCEPT ![v] = entry]
    BY DEF GetPageMiss
  <2>2. \A entry \in {read, unread} :
            entry.relevancy_value = r /\ entry.page_id = p
    <3>1. Aged[v] \in CacheEntry
      BY <1>1, RelevancyFacts
    <3> HIDE DEF r
    <3> QED BY <3>1 DEF CacheEntry
  <2> HIDE DEF read, unread, r
  <2>3. /\ cache'[v].relevancy_value = r /\ cache'[v].page_id = p
        /\ \A o \in Entries \ {v} :
              /\ cache'[o].page_id = cache[o].page_id
              /\ cache'[o].relevancy_value =
                    IF Resetting THEN 0 ELSE cache[o].relevancy_value
    BY <1>1, <2>1, <2>2, RelevancyFacts
  <2> QED BY <2>3 DEF GetPageMiss, Used, r
<1>3. last_accessed_page # p \/ \A o \in Entries \ {v} :
            cache[o].relevancy_value # current_most_relevant_value
  BY <1>1 DEF RelevancyOrder, Cached, Holds, Live, TypeOK
<1>4. RelevancyOrder'
  BY <1>1, <1>2, <1>3, UsedKeepsOrder
<1>5. held.newest # None => held.newest.page_id # p
  <2> DEFINE t == held.newest.entry
  <2>1. ASSUME held.newest # None
        PROVE  /\ t \in Entries /\ cache[t].page_id = held.newest.page_id
               /\ cache[t].relevancy_value = current_most_relevant_value
    BY <1>1, <2>1 DEF TypeOK, Handle, NewestIsTop, HeldOrder
  <2>2. current_most_relevant_value # 0
    BY <1>1 DEF TypeOK
  <2> QED BY <1>1, <2>1, <2>2 DEF Cached, Holds, Live
<1> QED BY <1>1, <1>2, <1>4, <1>5, ReuseKeepsPointers

(* A hit moves no page; the page may be the one handed out last already.   *)
LEMMA GetPageHitPointers ==
    ASSUME Inv, PointerInv, NEW e \in Entries, GetPageHit(e)
    PROVE  PointerInv'
<1> USE CacheAssumption DEF PointerInv
<1> DEFINE p == cache[e].page_id
<1>1. /\ TypeOK /\ phase' = "idle" /\ Live(e) /\ HandOut(e, p)
      /\ page_amount \in Nat /\ page_amount' = page_amount
      /\ p \in 1 .. page_amount /\ p \in R!Pages
  BY DEF Inv, TypeOK, R!TypeOK, GetPageHit, Idle, loopVars, resolverVars,
     EntriesNamePages
<1>2. Used(e, p, p)
  <2> DEFINE r == RelevancyValue(p)
             entry == [Aged[e] EXCEPT !.is_altered = TRUE, !.relevancy_value = r]
  <2>1. /\ Aged \in [Entries -> CacheEntry]
        /\ Aged[e].page_id = p
    BY <1>1, RelevancyFacts
  <2>2. cache' = [Aged EXCEPT ![e] = entry]
    BY DEF GetPageHit
  <2> HIDE DEF r, p
  <2>3. entry.relevancy_value = r /\ entry.page_id = p
    BY <2>1 DEF CacheEntry
  <2> HIDE DEF entry
  <2>4. /\ cache'[e].relevancy_value = r /\ cache'[e].page_id = p
        /\ \A o \in Entries \ {e} :
              /\ cache'[o].page_id = cache[o].page_id
              /\ cache'[o].relevancy_value =
                    IF Resetting THEN 0 ELSE cache[o].relevancy_value
    BY <1>1, <2>1, <2>2, <2>3, RelevancyFacts
  <2> QED BY <2>4 DEF GetPageHit, Used, r, p
<1>3. last_accessed_page # p \/ \A o \in Entries \ {e} :
            cache[o].relevancy_value # current_most_relevant_value
  <2>1. current_most_relevant_value # 0
    BY <1>1 DEF TypeOK
  <2> QED BY <1>1, <2>1 DEF RelevancyOrder, Live, TypeOK, Inv, SingleCopy
<1>4. RelevancyOrder'
  BY <1>1, <1>2, <1>3, UsedKeepsOrder
<1>5. \A o \in Entries : cache'[o].page_id = cache[o].page_id
  BY <1>2 DEF Used
<1> DEFINE h == [entry |-> e, page_id |-> p]
<1>6. /\ held'.newest = h /\ h.entry = e /\ h.page_id = p /\ h # None
      /\ held'.older = IF held.newest = None THEN None
                       ELSE IF held.newest.page_id = p THEN held.older
                       ELSE held.newest
  <2>1. e \in Nat /\ p \in Nat
    BY <1>1
  <2> HIDE DEF p
  <2> QED BY <1>1, <2>1, NoneAssumption DEF HandOut
<1> HIDE DEF h
<1>7. NewestIsTop'
  BY <1>2, <1>6 DEF NewestIsTop, Used, Accessed
<1>8. HeldOrder'
  BY <1>1, <1>5, <1>6 DEF HeldOrder
<1>9. HeldPointersValid'
  <2>1. \A k \in {held.newest, held.older} \ {None} : k.entry \in Entries
    BY <1>1 DEF TypeOK, Handle
  <2> QED BY <1>5, <1>6, <2>1 DEF HeldPointersValid
<1> QED BY <1>4, <1>7, <1>8, <1>9
-----------------------------------------------------------------------------
(* Without pointers, forgetting what some entries hold keeps the order.    *)
LEMMA ForgetKeepsPointers ==
    ASSUME TypeOK, PointerInv, held' = NothingHeld,
           \A e \in Entries :
              \/ cache'[e].relevancy_value = 0
              \/ /\ cache'[e].relevancy_value = cache[e].relevancy_value
                 /\ cache'[e].page_id = cache[e].page_id,
           \/ UNCHANGED <<current_most_relevant_value, last_accessed_page>>
           \/ /\ current_most_relevant_value' = 1
              /\ \A e \in Entries : cache'[e].relevancy_value = 0
    PROVE  PointerInv'
<1> USE CacheAssumption
<1>1. /\ current_most_relevant_value \in 1 .. RelevancyMax
      /\ current_most_relevant_value' \in 1 .. RelevancyMax
  BY DEF TypeOK
<1>2. RelevancyOrder'
  BY <1>1 DEF PointerInv, RelevancyOrder
<1>3. NewestIsTop' /\ HeldOrder' /\ HeldPointersValid'
  BY DEF NothingHeld, NewestIsTop, HeldOrder, HeldPointersValid
<1> QED BY <1>2, <1>3 DEF PointerInv

(* What moves no page and uses no entry keeps the pointers.                *)
LEMMA QuietKeepsPointers ==
    ASSUME TypeOK, PointerInv,
           UNCHANGED <<held, current_most_relevant_value, last_accessed_page,
                       page_amount>>,
           phase' \in {phase, "idle"},
           \A e \in Entries :
              /\ cache'[e].relevancy_value = cache[e].relevancy_value
              /\ cache'[e].page_id = cache[e].page_id
    PROVE  PointerInv'
<1>1. \A h \in {held.newest, held.older} \ {None} : h.entry \in Entries
  BY DEF TypeOK, Handle
<1>2. RelevancyOrder'
  BY DEF PointerInv, RelevancyOrder
<1>3. NewestIsTop' /\ HeldOrder' /\ HeldPointersValid'
  BY <1>1 DEF PointerInv, NewestIsTop, HeldOrder, HeldPointersValid
<1> QED BY <1>2, <1>3 DEF PointerInv

LEMMA PointerStep == Inv /\ PointerInv /\ [Next]_vars => PointerInv'
<1> SUFFICES ASSUME Inv, PointerInv, [Next]_vars PROVE PointerInv'
  OBVIOUS
<1> USE CacheAssumption
<1>0. TypeOK /\ (phase # "idle" => held = NothingHeld)
  BY DEF Inv, PointerInv, HeldOrder
<1>1. CASE Open
  BY <1>0, <1>1, CacheNewFacts, ForgetKeepsPointers DEF Open
<1>2. CASE OpenFails
  BY <1>0, <1>2, QuietKeepsPointers DEF OpenFails, cacheVars, loopVars,
     R!CreateFileInterrupted, R!OpenFileFails, R!vars
<1>3. CASE \E v \in Entries : CreatePage(v)
  BY <1>3, CreatePagePointers
<1>4. CASE \E e \in Entries : GetPageHit(e)
  BY <1>4, GetPageHitPointers
<1>5. CASE \E v \in Entries, p \in 1 .. page_amount : GetPageMiss(v, p)
  BY <1>5, GetPageMissPointers
<1>6. CASE \E v \in Entries : EvictionFails(v)
  BY <1>0, <1>6, ForgetKeepsPointers DEF EvictionFails, cacheVars
<1>7. CASE \E h \in {held.newest, held.older} \ {None}, d \in Contents :
              WriteThrough(h, d)
  <2>1. PICK h \in {held.newest, held.older} \ {None}, d \in Contents :
            WriteThrough(h, d)
    BY <1>7
  <2> DEFINE e == h.entry
             entry == [cache[e] EXCEPT !.contents = d]
  <2>2. cache[e] \in CacheEntry /\ e \in Entries /\ cache' = [cache EXCEPT ![e] = entry]
    BY <1>0, <2>1 DEF WriteThrough, TypeOK, Handle
  <2> HIDE DEF e
  <2>3. /\ entry.relevancy_value = cache[e].relevancy_value
        /\ entry.page_id = cache[e].page_id
    BY <2>2 DEF CacheEntry
  <2> HIDE DEF entry
  <2>4. \A o \in Entries :
            /\ cache'[o].relevancy_value = cache[o].relevancy_value
            /\ cache'[o].page_id = cache[o].page_id
    BY <1>0, <2>2, <2>3 DEF TypeOK
  <2> QED BY <1>0, <2>1, <2>4, QuietKeepsPointers
          DEF WriteThrough, loopVars, resolverVars
<1>8. CASE FlushBegin
  BY <1>0, <1>8, ForgetKeepsPointers DEF FlushBegin, cacheVars
<1>9. CASE FlushEntry
  <2>1. /\ held' = NothingHeld
        /\ UNCHANGED <<current_most_relevant_value, last_accessed_page>>
    BY <1>0, <1>9 DEF FlushEntry, InFlush
  <2>2. CASE ~cache[flush_index].is_altered
    BY <1>0, <1>9, <2>1, <2>2, ForgetKeepsPointers DEF FlushEntry
  <2>3. CASE cache[flush_index].is_altered
    <3> DEFINE v == flush_index
               entry == [cache[v] EXCEPT !.relevancy_value = LEAST_RELEVANT_VALUE,
                                         !.is_altered = FALSE]
    <3>1. /\ cache' = [cache EXCEPT ![v] = entry] /\ v \in Entries
          /\ cache[v] \in CacheEntry
      BY <1>0, <1>9, <2>3 DEF FlushEntry, TypeOK
    <3>2. entry.relevancy_value = 0
      BY <3>1 DEF CacheEntry
    <3> HIDE DEF entry, v
    <3>3. \A e \in Entries : cache'[e].relevancy_value = 0 \/ cache'[e] = cache[e]
      BY <1>0, <3>1, <3>2 DEF TypeOK
    <3> QED BY <1>0, <2>1, <3>3, ForgetKeepsPointers
  <2> QED BY <2>2, <2>3
<1>10. CASE FlushEntryFails
  BY <1>0, <1>10, ForgetKeepsPointers DEF FlushEntryFails, InFlush, cacheVars
<1>11. CASE FlushReturn
  BY <1>0, <1>11, QuietKeepsPointers DEF FlushReturn, cacheVars, resolverVars
<1>12. CASE DestroyReturn
  BY <1>0, <1>12, CacheNewFacts, ForgetKeepsPointers DEF DestroyReturn, InFlush
<1>13. CASE Crash
  BY <1>0, <1>13, CacheNewFacts, ForgetKeepsPointers DEF Crash
<1>14. CASE UNCHANGED vars
  BY <1>0, <1>14, QuietKeepsPointers
     DEF vars, cacheVars, loopVars, resolverVars
<1> QED BY <1>1, <1>2, <1>3, <1>4, <1>5, <1>6, <1>7, <1>8, <1>9, <1>10,
           <1>11, <1>12, <1>13, <1>14 DEF Next

(* As long as a caller gets a page between two creations, the two pages it *)
(* got last are where its pointers point, for every cache of at least two  *)
(* entries: an eviction never reuses the memory a caller is working in.    *)
THEOREM HeldPointers == Spec => []HeldPointersValid
<1>1. Init => PointerInv
  BY CacheAssumption, CacheNewFacts DEF Init, PointerInv, RelevancyOrder,
     NewestIsTop, HeldOrder, HeldPointersValid, NothingHeld
<1> QED BY <1>1, Invariance, PointerStep, PTL DEF Spec, PointerInv
-----------------------------------------------------------------------------
(* A file that does not exist has no pages.                                *)
NoFileNoPages ==
    \A f \in {file, disk} : ~f.exists => \A p \in R!Pages : f.pages[p] = Absent

HeaderInv == HeaderFirst /\ R!HeaderUpToDate /\ NoFileNoPages

(* The pages of the file after page_resolver_write_page, one by one.       *)
LEMMA WrittenExactly ==
    ASSUME file \in R!FileState, page_amount \in 0 .. MaxPage,
           NEW p \in R!Pages, NEW c \in Data, NEW q \in R!Pages
    PROVE  R!Written(p, c).pages[q] =
              IF q = p THEN c
              ELSE IF q < p /\ file.pages[q] = Absent THEN Zero
              ELSE file.pages[q]
<1>1. R!BeforePage \in R!FileState /\ R!BeforePage.pages = file.pages
  BY WrittenPages
<1>2. ASSUME NEW f \in R!FileState
      PROVE  R!PageWritten(f, p, c).pages[q] =
                IF q = p THEN c
                ELSE IF q < p /\ f.pages[q] = Absent THEN Zero ELSE f.pages[q]
  <2> DEFINE new == [o \in R!Pages |->
            IF o = p THEN c
            ELSE IF o < p /\ f.pages[o] = Absent THEN Zero ELSE f.pages[o]]
  <2>1. R!PageWritten(f, p, c) = [f EXCEPT !.pages = new]
    BY DEF R!PageWritten
  <2>2. R!PageWritten(f, p, c).pages = new
    <3> HIDE DEF new
    <3> QED BY <2>1 DEF R!FileState
  <2> QED BY <2>2
<1> QED BY <1>1, <1>2 DEF R!Written

(* What a write of an existing page leaves is covered by the header.       *)
LEMMA WriteCovers ==
    ASSUME Inv, HeaderInv, opened, ~header_failed,
           NEW p \in 1 .. page_amount, NEW c \in Data
    PROVE  /\ R!Covers(R!BeforePage)
           /\ R!Covers(R!Written(p, c))
           /\ R!Written(p, c).page_amount = page_amount
<1> USE CacheAssumption
<1>1. /\ file \in R!FileState /\ page_amount \in 0 .. MaxPage /\ p \in R!Pages
      /\ page_amount # Absent
      /\ file.page_amount # Absent => file.page_amount <= page_amount
  BY DEF Inv, TypeOK, R!TypeOK, HeaderWithinAmount
<1>2. R!Covers(file)
  BY DEF HeaderInv, HeaderFirst, R!HeaderCoversPages
<1>3. R!BeforePage.page_amount = page_amount
  BY <1>1 DEF R!BeforePage, R!HeaderWritten, R!FileState, HeaderInv, R!HeaderUpToDate
<1>4. /\ R!BeforePage.pages = file.pages
      /\ R!Written(p, c).page_amount = page_amount
  BY <1>1, <1>3, WrittenPages
<1>5. ASSUME NEW q \in R!Pages, file.pages[q] # Absent
      PROVE  q <= page_amount
  <2>1. file.page_amount # Absent /\ q <= file.page_amount
    BY <1>2, <1>5 DEF R!Covers
  <2>2. file.page_amount \in Nat
    BY <1>1, <2>1 DEF R!FileState
  <2> QED BY <1>1, <2>1, <2>2
<1>6. R!Covers(R!BeforePage)
  BY <1>1, <1>3, <1>4, <1>5 DEF R!Covers
<1>7. ASSUME NEW q \in R!Pages, R!Written(p, c).pages[q] # Absent
      PROVE  q <= page_amount
  BY <1>1, <1>5, <1>7, WrittenExactly
<1> QED BY <1>1, <1>4, <1>6, <1>7 DEF R!Covers

(* The steps that do not write a page.                                     *)
LEMMA QuietHeader ==
    ASSUME Inv, HeaderInv, UNCHANGED <<file, header_failed>>,
           \/ was_file_header_altered'
           \/ UNCHANGED <<page_amount, was_file_header_altered>>,
           opened' \in {opened, FALSE}, disk' \in {disk, file}
    PROVE  HeaderInv'
<1>1. HeaderFirst'
  <2>1. CASE disk' = disk
    BY <2>1 DEF HeaderInv, HeaderFirst, R!HeaderCoversPages, R!Covers
  <2>2. CASE disk' = file
    BY <2>2 DEF HeaderInv, HeaderFirst, R!HeaderCoversPages, R!Covers
  <2> QED BY <2>1, <2>2
<1>2. R!HeaderUpToDate'
  BY DEF HeaderInv, R!HeaderUpToDate
<1>3. NoFileNoPages'
  BY DEF HeaderInv, NoFileNoPages
<1> QED BY <1>1, <1>2, <1>3 DEF HeaderInv

(* The steps that write page p, or only the header in front of it.         *)
LEMMA WriteHeader ==
    ASSUME Inv, HeaderInv, opened,
           NEW p \in 1 .. page_amount, NEW c \in Data,
           file' \in {R!Written(p, c), R!BeforePage},
           disk' \in {disk, file, R!BeforePage, R!Written(p, c)},
           page_amount' >= page_amount, page_amount' \in 0 .. MaxPage,
           was_file_header_altered' \/ page_amount' = page_amount,
           UNCHANGED header_failed
    PROVE  HeaderInv'
<1> USE CacheAssumption
<1>1. /\ file \in R!FileState /\ disk \in R!FileState /\ file.exists /\ disk.exists
      /\ page_amount \in 0 .. MaxPage
  BY DEF Inv, TypeOK, R!TypeOK, HeaderWithinAmount
<1>2. R!BeforePage \in R!FileState /\ R!BeforePage.exists
  BY <1>1 DEF R!BeforePage, R!HeaderWritten, R!FileState
<1>3. R!Written(p, c).exists
  BY <1>2 DEF R!Written, R!PageWritten, R!FileState
<1>4. NoFileNoPages'
  BY <1>1, <1>2, <1>3 DEF NoFileNoPages
<1>5. CASE header_failed
  BY <1>4, <1>5 DEF HeaderInv, HeaderFirst, R!HeaderCoversPages, R!HeaderUpToDate
<1>6. CASE ~header_failed
  <2>1. R!HeaderCoversPages'
    BY <1>6, WriteCovers DEF HeaderInv, HeaderFirst, R!HeaderCoversPages, R!Covers
  <2>2. file'.page_amount = page_amount
    <3>1. R!BeforePage.page_amount = page_amount
      BY <1>1, <1>6 DEF R!BeforePage, R!HeaderWritten, R!FileState, HeaderInv,
         R!HeaderUpToDate
    <3> QED BY <1>6, <3>1, WriteCovers
  <2> QED BY <1>4, <2>1, <2>2 DEF HeaderInv, HeaderFirst, R!HeaderUpToDate
<1> QED BY <1>5, <1>6

(* A write that fails, inside an eviction or a flush.                      *)
LEMMA FailedWriteHeader ==
    ASSUME Inv, HeaderInv, opened, NEW p \in 1 .. page_amount, R!WritePageFails
    PROVE  HeaderInv'
<1> USE CacheAssumption
<1>1. file \in R!FileState /\ disk \in R!FileState /\ file.exists /\ disk.exists
      /\ page_amount \in 0 .. MaxPage
  BY DEF Inv, TypeOK, R!TypeOK, HeaderWithinAmount
<1>2. CASE R!WriteHeaderFails
  BY <1>1, <1>2 DEF R!WriteHeaderFails, HeaderInv, HeaderFirst,
     R!HeaderCoversPages, R!HeaderUpToDate, NoFileNoPages
<1>3. CASE R!WriteDataFails
  <2>1. /\ file' = R!BeforePage /\ disk' \in {disk, file, file'}
        /\ UNCHANGED <<page_amount, header_failed>>
    BY <1>3 DEF R!WriteDataFails
  <2>2. Zero \in Data /\ page_amount' >= page_amount
    BY <1>1, <2>1
  <2> QED BY <1>1, <2>1, <2>2, WriteHeader
<1> QED BY <1>2, <1>3 DEF R!WritePageFails

LEMMA OpenHeader == ASSUME Inv, HeaderInv, Open PROVE HeaderInv'
<1>1. /\ file \in R!FileState /\ ~opened /\ disk = file /\ R!EmptyFile.exists
      /\ R!EmptyFile \in R!FileState
      /\ \A p \in R!Pages : R!EmptyFile.pages[p] = Absent
  BY DEF Inv, TypeOK, R!TypeOK, Open, R!CreateFile, R!OpenFile,
     HeaderWithinAmount, R!EmptyFile, R!FileState
<1>2. CASE R!CreateFile
  <2>1. /\ disk'.exists /\ disk'.page_amount = 0
        /\ disk' \in R!FileState
        /\ disk'.pages = R!EmptyFile.pages
    BY <1>1, <1>2, CacheAssumption DEF R!CreateFile, R!FileState
  <2>2. /\ file'.exists /\ file'.page_amount = 0
        /\ file'.pages = R!EmptyFile.pages
    BY <1>2, <2>1 DEF R!CreateFile, R!FileState
  <2>3. \A p \in R!Pages : file'.pages[p] = Absent /\ disk'.pages[p] = Absent
    BY <1>1, <2>1, <2>2
  <2>4. page_amount' = 0
    BY <1>2 DEF R!CreateFile
  <2> QED BY <2>1, <2>2, <2>3, <2>4 DEF HeaderInv, HeaderFirst,
          R!HeaderCoversPages, R!HeaderUpToDate, R!Covers, NoFileNoPages
<1>3. CASE R!OpenFile
  BY <1>3 DEF R!OpenFile, HeaderInv, HeaderFirst, R!HeaderCoversPages,
     R!HeaderUpToDate, R!Covers, NoFileNoPages
<1> QED BY <1>2, <1>3 DEF Open

(* The header stays in front of the pages in every step.                   *)
LEMMA HeaderStep == Inv /\ HeaderInv /\ [Next]_vars => HeaderInv'
<1> SUFFICES ASSUME Inv, HeaderInv, [Next]_vars PROVE HeaderInv'
  OBVIOUS
<1> USE CacheAssumption
<1>0. /\ TypeOK /\ EntriesNamePages /\ page_amount \in 0 .. MaxPage
      /\ \A e \in Entries : cache[e].contents \in Data
      /\ was_file_header_altered \in BOOLEAN
  BY DEF Inv, TypeOK, R!TypeOK, CacheEntry
<1>1. CASE Open
  BY <1>1, OpenHeader
<1>2. CASE OpenFails
  <2>1. CASE R!CreateFileInterrupted
    <3>1. /\ R!EmptyFile.exists /\ file' = R!EmptyFile /\ disk' = R!EmptyFile
          /\ \A p \in R!Pages : R!EmptyFile.pages[p] = Absent
          /\ ~opened'
      BY <2>1 DEF R!CreateFileInterrupted, R!EmptyFile
    <3> QED BY <3>1 DEF HeaderInv, HeaderFirst, R!HeaderCoversPages,
            R!HeaderUpToDate, R!Covers, NoFileNoPages
  <2>2. CASE R!OpenFileFails
    BY <2>2, QuietHeader DEF R!OpenFileFails, R!vars
  <2> QED BY <1>2, <2>1, <2>2 DEF OpenFails
<1>3. ASSUME NEW v \in Entries, CreatePage(v) PROVE HeaderInv'
  <2>1. /\ opened /\ opened' = opened /\ page_amount' = page_amount + 1
        /\ page_amount < MaxPage /\ was_file_header_altered'
        /\ header_failed' = header_failed /\ file' = Evicted(v)
        /\ disk' = IF cache[v].is_altered THEN R!BeforePage ELSE disk
    BY <1>3 DEF CreatePage, Idle
  <2>2. CASE cache[v].is_altered
    <3>1. cache[v].page_id \in 1 .. page_amount /\ cache[v].contents \in Data
      BY <1>0, <2>2 DEF EntriesNamePages
    <3> QED BY <1>0, <2>1, <2>2, <3>1, WriteHeader DEF Evicted
  <2>3. CASE ~cache[v].is_altered
    BY <2>1, <2>3, QuietHeader DEF Evicted
  <2> QED BY <2>2, <2>3
<1>4. ASSUME NEW e \in Entries, GetPageHit(e) PROVE HeaderInv'
  BY <1>4, QuietHeader DEF GetPageHit, resolverVars
<1>5. ASSUME NEW v \in Entries, NEW p \in 1 .. page_amount, GetPageMiss(v, p)
      PROVE  HeaderInv'
  <2>1. /\ opened /\ opened' = opened /\ page_amount' = page_amount
        /\ header_failed' = header_failed /\ file' = Evicted(v)
        /\ disk' = file'
        /\ was_file_header_altered' =
              (was_file_header_altered /\ ~cache[v].is_altered)
    BY <1>5 DEF GetPageMiss, Idle
  <2>2. CASE cache[v].is_altered
    <3>1. cache[v].page_id \in 1 .. page_amount /\ cache[v].contents \in Data
      BY <1>0, <2>2 DEF EntriesNamePages
    <3> QED BY <1>0, <2>1, <2>2, <3>1, WriteHeader DEF Evicted
  <2>3. CASE ~cache[v].is_altered
    BY <1>0, <2>1, <2>3, QuietHeader DEF Evicted
  <2> QED BY <2>2, <2>3
<1>6. ASSUME NEW v \in Entries, EvictionFails(v) PROVE HeaderInv'
  <2>1. cache[v].page_id \in 1 .. page_amount
    BY <1>0, <1>6 DEF EvictionFails, EntriesNamePages
  <2> QED BY <1>6, <2>1, FailedWriteHeader DEF EvictionFails, Idle
<1>7. ASSUME NEW h \in {held.newest, held.older} \ {None}, NEW d \in Contents,
             WriteThrough(h, d)
      PROVE  HeaderInv'
  BY <1>7, QuietHeader DEF WriteThrough, resolverVars
<1>8. CASE FlushBegin
  BY <1>8, QuietHeader DEF FlushBegin, resolverVars
<1>9. CASE FlushEntry
  <2> DEFINE c == cache[flush_index]
  <2>1. flush_index \in Entries /\ opened
    BY <1>0, <1>9 DEF FlushEntry, InFlush, TypeOK
  <2>2. CASE c.is_altered
    <3>1. c.page_id \in 1 .. page_amount /\ c.contents \in Data
      BY <1>0, <2>1, <2>2 DEF EntriesNamePages
    <3>2. R!WritePage(c.page_id, c.contents)
      BY <1>9, <2>2 DEF FlushEntry
    <3> QED BY <1>0, <2>1, <3>1, <3>2, WriteHeader DEF R!WritePage
  <2>3. CASE ~c.is_altered
    BY <1>9, <2>3, QuietHeader DEF FlushEntry, resolverVars
  <2> QED BY <2>2, <2>3
<1>10. CASE FlushEntryFails
  <2>1. flush_index \in Entries /\ opened
    BY <1>0, <1>10 DEF FlushEntryFails, InFlush, TypeOK
  <2>2. cache[flush_index].page_id \in 1 .. page_amount
    BY <1>0, <1>10, <2>1 DEF FlushEntryFails, EntriesNamePages
  <2> QED BY <1>10, <2>1, <2>2, FailedWriteHeader DEF FlushEntryFails
<1>11. CASE FlushReturn
  BY <1>11, QuietHeader DEF FlushReturn, resolverVars
<1>12. CASE DestroyReturn
  BY <1>12, QuietHeader DEF DestroyReturn, R!Destroy
<1>13. CASE Crash
  BY <1>13 DEF Crash, R!Crash, HeaderInv, HeaderFirst, R!HeaderCoversPages,
     R!HeaderUpToDate, R!Covers, NoFileNoPages
<1>14. CASE UNCHANGED vars
  BY <1>14, QuietHeader DEF vars, resolverVars
<1> QED BY <1>1, <1>2, <1>3, <1>4, <1>5, <1>6, <1>7, <1>8, <1>9, <1>10,
           <1>11, <1>12, <1>13, <1>14 DEF Next

LEMMA HeaderInit == Init => HeaderInv
<1> SUFFICES ASSUME Init PROVE HeaderInv
  OBVIOUS
<1>1. R!NoFile.pages = R!EmptyFile.pages
  BY DEF R!NoFile, R!EmptyFile
<1>2. \A p \in R!Pages : R!NoFile.pages[p] = Absent
  BY <1>1 DEF R!EmptyFile
<1> QED BY <1>2 DEF Init, R!Init, HeaderInv, HeaderFirst, R!HeaderCoversPages,
        R!HeaderUpToDate, R!Covers, NoFileNoPages

(* Whatever the eviction order and wherever the process dies, the file     *)
(* header counts every page the file holds, unless writing it failed.      *)
THEOREM HeaderBeforePages == Spec => []HeaderFirst
BY HeaderInit, HeaderStep, Invariance, PTL DEF Spec, HeaderInv
-----------------------------------------------------------------------------
(* The refinement.  What the newest pointer shows is the last value.       *)
LEMMA NewestHolds ==
    ASSUME Inv, PointerInv, held.newest # None
    PROVE  /\ held.newest.entry \in Entries
           /\ held.newest.page_id \in 1 .. page_amount
           /\ Holds(held.newest.entry, held.newest.page_id)
<1>1. held.newest.entry \in Entries
  BY DEF Inv, TypeOK, Handle
<1> QED BY <1>1 DEF Inv, TypeOK, PointerInv, NewestIsTop, HeldOrder, Holds, Live

LEMMA NewestIsTruthful == Inv /\ PointerInv => Store!Truthful
<1> SUFFICES ASSUME Inv, PointerInv, Seen.page \in R!Pages \ lost
             PROVE  Seen.contents = latest[Seen.page]
  BY DEF Store!Truthful, Store!Pages
<1>1. held.newest # None
  BY DEF Seen
<1>2. /\ Seen.page = held.newest.page_id
      /\ Seen.contents = cache[held.newest.entry].contents
  BY <1>1 DEF Seen
<1>3. opened
  <2>1. ~Live(held.newest.entry) \/ opened
    BY <1>1, NewestHolds, CacheNewFacts DEF Inv, FlushProgress, Live
  <2> QED BY <1>1, <2>1, NewestHolds DEF Holds
<1> QED BY <1>1, <1>2, <1>3, NewestHolds DEF Inv, Coherent, CopyCoherent, Holds

(* An eviction or a step of a flush writes nothing but last values.        *)
LEMMA EvictionWritesBack ==
    ASSUME Inv, opened, NEW v \in Entries, file' = Evicted(v),
           disk' \in {disk, file, R!BeforePage, file'}
    PROVE  Store!WriteBack
<1> USE CacheAssumption
<1>1. /\ file \in R!FileState /\ page_amount \in 0 .. MaxPage
  BY DEF Inv, TypeOK, R!TypeOK
<1>2. R!BeforePage.pages = file.pages
  BY <1>1 DEF R!BeforePage, R!HeaderWritten, R!FileState
<1>3. ASSUME NEW p \in R!Pages \ lost
      PROVE  \/ file'.pages[p] \in {file.pages[p], latest[p]}
             \/ file.pages[p] = Absent /\ file'.pages[p] = Zero
  <2>1. CASE ~cache[v].is_altered
    BY <2>1 DEF Evicted
  <2>2. CASE cache[v].is_altered
    <3> DEFINE q == cache[v].page_id
    <3>1. q \in 1 .. page_amount /\ cache[v].contents \in Data
      BY <2>2 DEF Inv, EntriesNamePages, TypeOK, CacheEntry
    <3>2. q = p => cache[v].contents = latest[p]
      BY <2>2, <1>3 DEF Inv, EntriesNamePages, Coherent, CopyCoherent, Live
    <3> QED BY <1>1, <2>2, <3>1, <3>2, WrittenExactly DEF Evicted
  <2> QED BY <2>1, <2>2
<1> QED BY <1>2, <1>3 DEF Store!WriteBack, Store!Pages

(* Once every altered entry is of a lost page, all the others are saved.   *)
Clean ==
    opened /\ \A e \in Entries : cache[e].is_altered => cache[e].page_id \in lost

LEMMA CleanIsSaved == Inv /\ Clean => Store!AllSaved
<1> SUFFICES ASSUME Inv, Clean PROVE Store!AllSaved
  OBVIOUS
<1> USE DEF Clean
<1> SUFFICES ASSUME NEW p \in 1 .. page_amount, p \notin lost \cup risky
             PROVE  file.pages[p] = latest[p]
  BY DEF Store!AllSaved
<1>1. CASE Cached(p)
  BY <1>1 DEF Inv, Cached, Holds, Coherent, CopyCoherent
<1>2. CASE ~Cached(p)
  BY <1>2 DEF Inv, Coherent, FileCoherent
<1> QED BY <1>1, <1>2

(* Pointers are cut only where the page they lead to leaves its entry.     *)
LEMMA CutShrinks ==
    ASSUME Inv, PointerInv,
           held'.newest # None =>
              Holds(held.newest.entry, held.newest.page_id)',
           held'.older \in {None, held.newest, held.older},
           held'.older # None =>
              (Holds(held'.older.entry, held'.older.page_id) =>
                  Holds(held.older.entry, held.older.page_id)')
    PROVE  Cut' \subseteq Cut
BY DEF Cut

LEMMA NoCut == held = NothingHeld => Cut = {} /\ Seen = Store!Nothing
BY DEF Cut, Seen, NothingHeld, Store!Nothing

LEMMA CreateRefines ==
    ASSUME Inv, PointerInv, Inv', PointerInv', NEW v \in Entries, CreatePage(v)
    PROVE  Store!Create
<1> USE CacheAssumption
<1>1. /\ phase = "idle" /\ opened /\ UNCHANGED <<phase, flush_index, header_failed>>
      /\ page_amount' = page_amount + 1 /\ page_amount \in 0 .. MaxPage
      /\ page_amount < MaxPage /\ TypeOK
  BY DEF CreatePage, Idle, loopVars, Inv, TypeOK, R!TypeOK
<1> DEFINE n == page_amount + 1
           r == RelevancyValue(PAGE_ID_NULL)
           entry == [relevancy_value |-> r, is_altered |-> TRUE,
                     page_id |-> n, contents |-> Zero]
<1>2. r \in 1 .. RelevancyMax
  BY <1>1, RelevancyFacts
<1>3. /\ cache'[v].relevancy_value # 0
      /\ cache'[v].page_id = n /\ cache'[v].contents = Zero
      /\ ~Resetting => \A o \in Entries \ {v} : cache'[o] = cache[o]
  <2> HIDE DEF r
  <2>1. cache' = [Aged EXCEPT ![v] = entry]
    BY DEF CreatePage, r
  <2>2. Aged \in [Entries -> CacheEntry]
    BY <1>1, RelevancyFacts
  <2> QED BY <1>2, <2>1, <2>2 DEF Aged
<1>4. /\ held'.newest = [entry |-> v, page_id |-> n]
      /\ held'.newest # None
      /\ held'.older = held.newest
  <2>1. held.newest # None => held.newest.page_id # n
    BY <1>1, NewestHolds
  <2>2. v \in Nat /\ n \in Nat
    BY <1>1
  <2> QED BY <1>1, <2>1, <2>2, NoneAssumption DEF CreatePage, HandOut
<1>5. Seen' = [page |-> n, contents |-> Zero]
  BY <1>3, <1>4 DEF Seen
<1>6. Saving = "no" /\ Saving' = "no"
  BY <1>1 DEF Saving
<1>7. Store!WriteBack
  BY <1>1, EvictionWritesBack DEF CreatePage
<1>8. /\ lost \subseteq lost' /\ risky' \subseteq risky
      /\ ~Resetting => lost' \subseteq lost \cup risky
  BY DEF CreatePage, DroppedBy, HiddenByReset
<1>9. ASSUME ~Resetting, GetAfterCreate PROVE Cut' \subseteq Cut
  <2>1. Holds(held.newest.entry, held.newest.page_id)'
    BY <1>3, <1>4 DEF Holds, Live
  <2>2. ASSUME held.newest # None
        PROVE  Holds(held.older.entry, held.older.page_id)'
    <3>1. held.newest.entry \in Entries \ {v}
      BY <1>1, <1>9, <2>2, VictimIsNotNewest DEF CreatePage
    <3> QED BY <1>3, <1>4, <1>9, <2>2, <3>1, NewestHolds DEF Holds, Live
  <2> QED BY <1>4, <2>1, <2>2, CutShrinks
<1>10. latest' = [latest EXCEPT ![page_amount'] = Zero]
  BY <1>1 DEF CreatePage
<1> QED BY <1>1, <1>5, <1>6, <1>7, <1>8, <1>9, <1>10 DEF Store!Create, Store!Reuse

LEMMA GetMissRefines ==
    ASSUME Inv, PointerInv, Inv', PointerInv',
           NEW v \in Entries, NEW p \in 1 .. page_amount, GetPageMiss(v, p)
    PROVE  Store!Get(p) \/ Store!GetFails(p)
<1> USE CacheAssumption
<1>1. /\ phase = "idle" /\ opened /\ UNCHANGED <<phase, flush_index, header_failed>>
      /\ page_amount' = page_amount /\ page_amount \in 0 .. MaxPage
      /\ latest' = latest /\ p \in R!Pages /\ TypeOK /\ ~Cached(p)
      /\ Saving = "no" /\ Saving' = "no"
  BY DEF GetPageMiss, Idle, loopVars, Inv, TypeOK, R!TypeOK, Saving
<1>2. Store!WriteBack
  BY <1>1, EvictionWritesBack DEF GetPageMiss
<1>3. /\ lost \subseteq lost' /\ risky' \subseteq risky
      /\ ~Resetting => lost' \subseteq lost \cup risky \cup {p}
  BY DEF GetPageMiss, DroppedBy, HiddenByReset
<1>4. CASE held' = NothingHeld /\ (Evicted(v).pages[p] = Absent \/ IOErrors)
  <2>1. Cut' = {} /\ Seen' = Store!Nothing
    BY <1>4 DEF Cut, Seen, NothingHeld, Store!Nothing
  <2>2. IOErrors \/ file.pages[p] = Absent \/ p \in lost
    <3>1. SUFFICES ASSUME Evicted(v).pages[p] = Absent, p \notin lost,
                          file.pages[p] # Absent
                   PROVE  FALSE
      BY <1>4
    <3>2. cache[v].is_altered /\ cache[v].page_id = p
      BY <1>1, <3>1, EvictedFacts DEF Inv
    <3>3. Holds(v, p)
      BY <3>1, <3>2 DEF Inv, EntriesNamePages, Holds
    <3> QED BY <1>1, <3>3 DEF Cached
  <2> QED BY <1>1, <1>2, <1>3, <2>1, <2>2 DEF Store!GetFails, Store!Reuse
<1>5. CASE /\ HandOut(v, p)
           /\ lost' = lost \cup DroppedBy(v) \cup HiddenByReset(v)
           /\ cache' = [Aged EXCEPT ![v] = [@ EXCEPT
                    !.relevancy_value = RelevancyValue(p),
                    !.page_id = p, !.contents = Evicted(v).pages[p]]]
  <2> DEFINE r == RelevancyValue(p)
             entry == [Aged[v] EXCEPT !.relevancy_value = r, !.page_id = p,
                                      !.contents = Evicted(v).pages[p]]
  <2>1. r \in 1 .. RelevancyMax /\ Aged \in [Entries -> CacheEntry]
    BY <1>1, RelevancyFacts
  <2>2. entry.relevancy_value = r /\ entry.page_id = p
    <3> HIDE DEF r
    <3> QED BY <2>1 DEF CacheEntry
  <2>3. /\ cache'[v].relevancy_value # 0 /\ cache'[v].page_id = p
        /\ ~Resetting => \A o \in Entries \ {v} : cache'[o] = cache[o]
    <3>1. cache' = [Aged EXCEPT ![v] = entry]
      BY <1>5
    <3>2. r # 0
      BY <2>1
    <3> HIDE DEF r, entry
    <3> QED BY <2>1, <2>2, <3>1, <3>2 DEF Aged
  <2>4. held.newest # None => held.newest.page_id # p
    BY <1>1, NewestHolds DEF Cached
  <2>5. /\ held'.newest = [entry |-> v, page_id |-> p]
        /\ held'.newest # None
        /\ held'.older = held.newest
    <3>1. v \in Nat /\ p \in Nat
      BY <1>1
    <3> QED BY <1>5, <2>4, <3>1, NoneAssumption DEF HandOut
  <2>6. Seen'.page = p
    BY <2>5 DEF Seen
  <2>7. Store!Truthful'
    BY NewestIsTruthful, PTL
  <2>8. ASSUME ~Resetting, GetAfterCreate PROVE Cut' \subseteq Cut
    <3>1. Holds(held.newest.entry, held.newest.page_id)'
      BY <2>3, <2>5 DEF Holds, Live
    <3>2. ASSUME held.newest # None
          PROVE  Holds(held.older.entry, held.older.page_id)'
      <4>1. held.newest.entry \in Entries \ {v}
        BY <1>1, <2>8, <3>2, VictimIsNotNewest DEF GetPageMiss
      <4> QED BY <2>3, <2>5, <2>8, <3>2, <4>1, NewestHolds DEF Holds, Live
    <3> QED BY <2>5, <3>1, <3>2, CutShrinks
  <2>9. ~Resetting => lost' \subseteq lost \cup risky
    BY <1>5 DEF DroppedBy, HiddenByReset
  <2> QED BY <1>1, <1>2, <1>3, <2>6, <2>7, <2>8, <2>9 DEF Store!Get, Store!Reuse
<1> QED BY <1>4, <1>5 DEF GetPageMiss

LEMMA GetHitRefines ==
    ASSUME Inv, PointerInv, Inv', PointerInv', NEW e \in Entries, GetPageHit(e)
    PROVE  Store!Get(cache[e].page_id)
<1> USE CacheAssumption
<1> DEFINE p == cache[e].page_id
           r == RelevancyValue(p)
           entry == [Aged[e] EXCEPT !.is_altered = TRUE, !.relevancy_value = r]
<1>1. /\ phase = "idle" /\ opened /\ UNCHANGED <<phase, flush_index>>
      /\ UNCHANGED <<latest, resolverVars>> /\ TypeOK /\ HandOut(e, p) /\ Live(e)
      /\ Saving = "no" /\ Saving' = "no"
  BY DEF GetPageHit, Idle, loopVars, Inv, Saving
<1>2. p \in R!Pages /\ r \in 1 .. RelevancyMax /\ p \in Nat
  <2>1. page_amount \in 0 .. MaxPage
    BY <1>1 DEF TypeOK, R!TypeOK
  <2>2. p \in 1 .. page_amount
    BY <1>1 DEF Inv, EntriesNamePages
  <2>3. p \in R!Pages /\ p \in PageIds /\ p \in Nat
    BY <2>1, <2>2
  <2> QED BY <1>1, <2>3, RelevancyFacts
<1>3. \A o \in Entries :
          /\ cache'[o].page_id = cache[o].page_id
          /\ ~Resetting /\ Live(o) => cache'[o].relevancy_value # 0
  <2>1. Aged \in [Entries -> CacheEntry] /\ cache' = [Aged EXCEPT ![e] = entry]
    BY <1>1, <1>2, RelevancyFacts DEF GetPageHit
  <2>2. entry.relevancy_value = r /\ entry.page_id = Aged[e].page_id /\ r # 0
    <3>1. r # 0
      BY <1>2
    <3> HIDE DEF r
    <3> QED BY <2>1, <3>1 DEF CacheEntry
  <2> HIDE DEF entry, r
  <2> QED BY <1>1, <1>2, <2>1, <2>2, RelevancyFacts DEF Live
<1>4. /\ held'.newest = [entry |-> e, page_id |-> p] /\ held'.newest # None
      /\ held'.older \in {None, held.newest, held.older}
  BY <1>1, <1>2, NoneAssumption DEF HandOut
<1>5. Seen'.page = p
  BY <1>4 DEF Seen
<1>6. Store!Truthful'
  BY NewestIsTruthful, PTL
<1>7. ASSUME ~Resetting PROVE Cut' \subseteq Cut
  <2>1. held'.older # None => held'.older.entry \in Entries
    BY <1>1, <1>4 DEF TypeOK, Handle
  <2>2. Holds(held.newest.entry, held.newest.page_id)'
    BY <1>1, <1>3, <1>4, <1>7 DEF Holds, Live
  <2>3. held'.older # None =>
            (Holds(held'.older.entry, held'.older.page_id) =>
                Holds(held.older.entry, held.older.page_id)')
    BY <1>3, <1>7, <2>1 DEF Holds, Live
  <2> QED BY <1>4, <2>2, <2>3, CutShrinks
<1>8. /\ lost \subseteq lost' /\ risky' \subseteq risky
      /\ ~Resetting => lost' = lost
  BY DEF GetPageHit, HiddenByReset
<1>9. Store!WriteBack
  BY <1>1 DEF resolverVars, Store!WriteBack
<1> QED BY <1>1, <1>5, <1>6, <1>7, <1>8, <1>9
        DEF Store!Get, Store!Reuse, resolverVars

LEMMA WriteRefines ==
    ASSUME Inv, PointerInv, Inv', PointerInv',
           NEW h \in {held.newest, held.older} \ {None}, NEW d \in Contents,
           WriteThrough(h, d)
    PROVE  Store!Write(h.page_id, d) /\ h.page_id \in R!Pages
<1> USE CacheAssumption
<1> DEFINE e == h.entry
           p == h.page_id
           entry == [cache[e] EXCEPT !.contents = d]
<1>1. /\ phase = "idle" /\ opened /\ UNCHANGED <<phase, flush_index, held>>
      /\ UNCHANGED <<current_most_relevant_value, resolverVars>> /\ TypeOK
      /\ e \in Entries /\ p \in R!Pages
      /\ Saving = "no" /\ Saving' = "no"
  BY DEF WriteThrough, Idle, loopVars, Inv, Saving, TypeOK, Handle
<1>2. \A o \in Entries :
          /\ cache'[o].page_id = cache[o].page_id
          /\ cache'[o].relevancy_value = cache[o].relevancy_value
  <2>1. cache \in [Entries -> CacheEntry] /\ cache' = [cache EXCEPT ![e] = entry]
    BY <1>1 DEF WriteThrough, TypeOK
  <2>2. /\ entry.page_id = cache[e].page_id
        /\ entry.relevancy_value = cache[e].relevancy_value
    BY <1>1, <2>1 DEF CacheEntry
  <2> HIDE DEF entry
  <2> QED BY <1>1, <2>1, <2>2
<1>3. \A k \in {held.newest, held.older} \ {None} :
          Holds(k.entry, k.page_id)' <=> Holds(k.entry, k.page_id)
  BY <1>1, <1>2 DEF Holds, Live, TypeOK, Handle
<1>4. Cut' = Cut
  BY <1>1, <1>3 DEF Cut
<1>5. p \notin Cut => Holds(e, p)
  BY DEF Cut
<1>6. risky' # risky => p \in lost \/ file.pages[p] = latest[p]
  BY <1>1 DEF WriteThrough, Holds, Inv, Coherent, CopyCoherent
<1>7. /\ lost \subseteq lost' /\ (p \notin Cut => lost' = lost)
      /\ risky' \in {risky, risky \cup {p}}
      /\ latest' = [latest EXCEPT ![p] = d]
  BY <1>5 DEF WriteThrough
<1>8. Seen'.page = Seen.page
  BY <1>1 DEF Seen
<1>9. Store!Truthful'
  BY NewestIsTruthful, PTL
<1> QED BY <1>1, <1>4, <1>6, <1>7, <1>8, <1>9 DEF Store!Write, resolverVars

LEMMA OpenRefines == ASSUME Inv, HeaderInv, Open PROVE Store!Open
<1> USE CacheAssumption
<1>1. /\ ~opened /\ disk = file /\ held' = NothingHeld /\ TypeOK
      /\ UNCHANGED <<loopVars, history, header_failed>>
  BY DEF Open, R!CreateFile, R!OpenFile, Inv, HeaderWithinAmount
<1>2. Seen' = Store!Nothing
  BY <1>1 DEF Seen, NothingHeld, Store!Nothing
<1>3. Saving' = Saving
  BY <1>1 DEF Saving, loopVars
<1>4. CASE R!CreateFile
  <2>1. file.pages = [p \in R!Pages |-> Absent]
    <3>1. file.pages \in [R!Pages -> Data \cup {Absent}]
      BY <1>1 DEF TypeOK, R!TypeOK, R!FileState
    <3> QED BY <1>4, <3>1 DEF R!CreateFile, HeaderInv, NoFileNoPages
  <2>2. disk'.pages = R!EmptyFile.pages /\ file'.pages = R!EmptyFile.pages
    <3>1. R!EmptyFile \in R!FileState
      BY DEF R!EmptyFile, R!FileState
    <3>2. disk' \in R!FileState /\ disk'.pages = R!EmptyFile.pages
      BY <1>4, <3>1 DEF R!CreateFile, R!FileState
    <3> QED BY <1>4, <3>2 DEF R!CreateFile, R!FileState
  <2>3. disk'.pages = disk.pages /\ file'.pages = file.pages
    BY <1>1, <2>1, <2>2 DEF R!EmptyFile
  <2>4. page_amount' = 0
    BY <1>4 DEF R!CreateFile
  <2> QED BY <1>1, <1>2, <1>3, <2>1, <2>3, <2>4
          DEF Store!Open, Store!Pages, history
<1>5. CASE R!OpenFile
  <2>1. /\ page_amount' = file.page_amount /\ file' = file /\ disk' = disk
        /\ page_amount' \in 0 .. MaxPage
    BY <1>1, <1>5 DEF R!OpenFile, R!Openable, TypeOK, R!TypeOK, R!FileState
  <2>2. ~header_failed => R!Covers(file)
    BY DEF HeaderInv, HeaderFirst, R!HeaderCoversPages
  <2> QED BY <1>1, <1>2, <1>3, <2>1, <2>2
          DEF Store!Open, Store!Pages, R!Covers, history
<1> QED BY <1>4, <1>5 DEF Open

LEMMA OpenFailsRefines ==
    ASSUME Inv, HeaderInv, OpenFails PROVE UNCHANGED Store!vars
<1> USE CacheAssumption
<1>1. /\ TypeOK /\ UNCHANGED <<cacheVars, loopVars, held, history>>
      /\ UNCHANGED <<page_amount, header_failed>>
  BY DEF OpenFails, R!CreateFileInterrupted, R!OpenFileFails, R!vars, Inv
<1>2. disk'.pages = disk.pages /\ file'.pages = file.pages
  <2>1. CASE R!CreateFileInterrupted
    <3>1. file.pages = [p \in R!Pages |-> Absent]
      <4>1. file.pages \in [R!Pages -> Data \cup {Absent}]
        BY <1>1 DEF TypeOK, R!TypeOK, R!FileState
      <4> QED BY <2>1, <4>1 DEF R!CreateFileInterrupted, HeaderInv, NoFileNoPages
    <3>2. disk = file
      BY <2>1 DEF R!CreateFileInterrupted, Inv, HeaderWithinAmount
    <3> QED BY <2>1, <3>1, <3>2 DEF R!CreateFileInterrupted, R!EmptyFile
  <2>2. CASE R!OpenFileFails
    BY <2>2 DEF R!OpenFileFails, R!vars
  <2> QED BY <2>1, <2>2 DEF OpenFails
<1>3. UNCHANGED <<Seen, Saving, Cut, Resetting>>
  BY <1>1 DEF Seen, Saving, Cut, Holds, Live, Resetting, cacheVars, loopVars
<1> QED BY <1>1, <1>2, <1>3 DEF Store!vars, history

LEMMA EvictionFailsRefines ==
    ASSUME Inv, NEW v \in Entries, EvictionFails(v) PROVE Store!Fail
<1>1. /\ file'.pages = file.pages /\ IOErrors
      /\ disk'.pages \in {disk.pages, file.pages}
      /\ page_amount' = page_amount
  <2>1. file \in R!FileState /\ page_amount \in 0 .. MaxPage
    BY DEF Inv, TypeOK, R!TypeOK
  <2>2. R!BeforePage.pages = file.pages
    BY <2>1 DEF R!BeforePage, R!HeaderWritten, R!FileState
  <2> QED BY <2>2 DEF EvictionFails, R!WritePageFails, R!WriteHeaderFails,
             R!WriteDataFails
<1>2. Seen' = Store!Nothing
  BY DEF EvictionFails, Seen, NothingHeld, Store!Nothing
<1>3. Saving = "no" /\ Saving' = "no"
  BY DEF EvictionFails, Idle, Saving, loopVars
<1> QED BY <1>1, <1>2, <1>3 DEF EvictionFails, Store!Fail, history

LEMMA FlushBeginRefines == ASSUME FlushBegin PROVE Store!Flush
<1>1. Saving = "no" /\ Saving' \in {"running", "closing"}
  BY CacheAssumption DEF FlushBegin, Idle, Saving
<1>2. Seen' = Store!Nothing
  BY DEF FlushBegin, Seen, NothingHeld, Store!Nothing
<1> QED BY <1>1, <1>2 DEF FlushBegin, Store!Flush, history, resolverVars

LEMMA FlushEntryRefines ==
    ASSUME Inv, PointerInv, Inv', FlushEntry PROVE Store!FlushPart
<1> USE CacheAssumption
<1>1. /\ opened /\ phase \in {"flush", "destroy"} /\ flush_index \in Entries
      /\ flush_index' = flush_index + 1 /\ UNCHANGED <<phase, held, history>>
      /\ held = NothingHeld
  BY DEF FlushEntry, InFlush, Inv, TypeOK, PointerInv, HeldOrder
<1>2. /\ file' = Evicted(flush_index) /\ disk' \in {disk, R!BeforePage}
      /\ UNCHANGED <<page_amount, header_failed, opened>>
  BY DEF FlushEntry, R!WritePage, Evicted, resolverVars
<1>3. Store!WriteBack
  BY <1>1, <1>2, EvictionWritesBack
<1>4. Seen' = Seen
  BY <1>1 DEF Seen, NothingHeld
<1>5. Saving \in {"running", "closing"}
  BY <1>1 DEF Saving
<1>6. \/ Saving' = Saving
      \/ Saving = "running" /\ Saving' = "done" /\ flush_index' = CacheSize
  BY <1>1 DEF Saving
<1>7. ASSUME flush_index' = CacheSize PROVE Store!AllSaved'
  <2>1. Clean'
    BY <1>1, <1>2, <1>7 DEF Inv, FlushProgress, Clean
  <2> QED BY <2>1, CleanIsSaved, PTL
<1> QED BY <1>1, <1>2, <1>3, <1>4, <1>5, <1>6, <1>7
        DEF Store!FlushPart, history

LEMMA FlushFailsRefines ==
    ASSUME Inv, PointerInv, FlushEntryFails PROVE Store!FlushFails
<1>1. /\ file'.pages = file.pages /\ IOErrors
      /\ disk'.pages \in {disk.pages, file.pages}
      /\ page_amount' = page_amount
  <2>1. file \in R!FileState /\ page_amount \in 0 .. MaxPage
    BY DEF Inv, TypeOK, R!TypeOK
  <2>2. R!BeforePage.pages = file.pages
    BY <2>1 DEF R!BeforePage, R!HeaderWritten, R!FileState
  <2> QED BY <2>2 DEF FlushEntryFails, R!WritePageFails, R!WriteHeaderFails,
             R!WriteDataFails
<1>2. held = NothingHeld /\ held' = NothingHeld
  BY DEF FlushEntryFails, InFlush, PointerInv, HeldOrder
<1>3. Seen' = Seen
  BY <1>2 DEF Seen, NothingHeld
<1>4. /\ phase = "flush" => Saving = "running" /\ Saving' = "no" /\ lost' = lost
      /\ phase # "flush" => Saving = "closing" /\ Saving' = "closing"
      /\ lost \subseteq lost' /\ UNCHANGED <<latest, risky>>
  BY CacheAssumption DEF FlushEntryFails, InFlush, Saving, Inv, TypeOK
<1> QED BY <1>1, <1>3, <1>4 DEF Store!FlushFails

LEMMA FlushReturnRefines == ASSUME PointerInv, FlushReturn PROVE Store!FlushEnds
<1>1. held = NothingHeld /\ held' = held
  BY DEF FlushReturn, InFlush, PointerInv, HeldOrder
<1>2. Seen' = Seen
  BY <1>1 DEF Seen, NothingHeld
<1>3. Saving = "done" /\ Saving' = "no"
  BY DEF FlushReturn, Saving
<1> QED BY <1>2, <1>3 DEF FlushReturn, Store!FlushEnds, history, resolverVars

LEMMA DestroyRefines == ASSUME Inv, PointerInv, DestroyReturn PROVE Store!Close
<1>1. held = NothingHeld /\ held' = held
  BY DEF DestroyReturn, InFlush, PointerInv, HeldOrder
<1>2. Seen' = Seen
  BY <1>1 DEF Seen, NothingHeld
<1>3. Saving = "closing" /\ Saving' = "no"
  BY DEF DestroyReturn, Saving
<1>4. Store!AllSaved
  <2>1. Clean
    BY CacheAssumption DEF DestroyReturn, InFlush, Inv, FlushProgress, Clean
  <2> QED BY <2>1, CleanIsSaved
<1> QED BY <1>2, <1>3, <1>4 DEF DestroyReturn, R!Destroy, Store!Close

LEMMA CrashRefines == ASSUME Crash PROVE Store!Crash
<1>1. Seen' = Store!Nothing
  BY DEF Crash, Seen, NothingHeld, Store!Nothing
<1>2. Saving' = "no"
  BY DEF Crash, Saving
<1> QED BY <1>1, <1>2 DEF Crash, R!Crash, Store!Crash, Store!Pages

LEMMA StutterRefines == UNCHANGED vars => UNCHANGED Store!vars
BY DEF vars, cacheVars, loopVars, history, resolverVars, Store!vars,
       Seen, Saving, Cut, Holds, Live, Resetting

LEMMA RefinementStep ==
    /\ Inv /\ PointerInv /\ HeaderInv /\ Inv' /\ PointerInv' /\ [Next]_vars
    => [Store!Next]_(Store!vars)
<1> SUFFICES ASSUME Inv, PointerInv, HeaderInv, Inv', PointerInv', [Next]_vars
             PROVE  Store!Next \/ UNCHANGED Store!vars
  OBVIOUS
<1> USE DEF Store!Next
<1>1. CASE Open                             BY <1>1, OpenRefines
<1>2. CASE OpenFails                        BY <1>2, OpenFailsRefines
<1>3. CASE \E v \in Entries : CreatePage(v) BY <1>3, CreateRefines
<1>4. ASSUME NEW e \in Entries, GetPageHit(e) PROVE Store!Next
  <2>1. Live(e) /\ page_amount \in 0 .. MaxPage
    BY <1>4 DEF GetPageHit, Inv, TypeOK, R!TypeOK
  <2>2. cache[e].page_id \in Store!Pages
    BY <2>1, CacheAssumption DEF Inv, EntriesNamePages, Store!Pages
  <2> QED BY <1>4, <2>2, GetHitRefines
<1>5. ASSUME NEW v \in Entries, NEW p \in 1 .. page_amount, GetPageMiss(v, p)
      PROVE  Store!Next
  <2>1. page_amount \in 0 .. MaxPage
    BY DEF Inv, TypeOK, R!TypeOK
  <2>2. p \in Store!Pages
    BY <2>1, CacheAssumption DEF Store!Pages
  <2> QED BY <1>5, <2>2, GetMissRefines
<1>6. CASE \E v \in Entries : EvictionFails(v)
  BY <1>6, EvictionFailsRefines
<1>7. CASE \E h \in {held.newest, held.older} \ {None}, d \in Contents :
              WriteThrough(h, d)
  BY <1>7, WriteRefines DEF Store!Pages
<1>8. CASE FlushBegin                       BY <1>8, FlushBeginRefines
<1>9. CASE FlushEntry                       BY <1>9, FlushEntryRefines
<1>10. CASE FlushEntryFails                 BY <1>10, FlushFailsRefines
<1>11. CASE FlushReturn                     BY <1>11, FlushReturnRefines
<1>12. CASE DestroyReturn                   BY <1>12, DestroyRefines
<1>13. CASE Crash                           BY <1>13, CrashRefines
<1>14. CASE UNCHANGED vars                  BY <1>14, StutterRefines
<1> QED BY <1>1, <1>2, <1>3, <1>4, <1>5, <1>6, <1>7, <1>8, <1>9, <1>10,
           <1>11, <1>12, <1>13, <1>14 DEF Next

LEMMA RefinementInit == Init => Store!Init
<1> SUFFICES ASSUME Init PROVE Store!Init
  OBVIOUS
<1>1. R!NoFile.pages = R!EmptyFile.pages
  BY DEF R!NoFile, R!EmptyFile
<1>2. R!NoFile.pages = [p \in R!Pages |-> Absent]
  BY <1>1 DEF R!EmptyFile
<1>3. Seen = Store!Nothing /\ Cut = {}
  BY DEF Init, Seen, Cut, NothingHeld, Store!Nothing
<1>4. Saving = "no" /\ ~Resetting
  BY CacheAssumption DEF Init, Saving, Resetting
<1> QED BY <1>2, <1>3, <1>4 DEF Init, R!Init, Store!Init, Store!Pages, Resetting

(* The cache is invisible: whatever is evicted, in whatever order pages    *)
(* are written and wherever reads, writes or the process fail, callers see *)
(* a store of pages that returns last values, saves all at a flush and     *)
(* comes back as it was saved.                                             *)
THEOREM CacheImplementsStore == Spec => ImplementsStore
<1>1. Init => PointerInv
  BY CacheAssumption, CacheNewFacts DEF Init, PointerInv, RelevancyOrder,
     NewestIsTop, HeldOrder, HeldPointersValid, NothingHeld
<1>2. Spec => []PointerInv
  BY <1>1, Invariance, PointerStep, PTL DEF Spec
<1>3. Spec => []HeaderInv
  BY HeaderInit, HeaderStep, Invariance, PTL DEF Spec
<1> QED BY <1>2, <1>3, Invariance, RefinementInit, RefinementStep, PTL
        DEF Spec, ImplementsStore, Store!Spec
=============================================================================
