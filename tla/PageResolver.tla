---------------------------- MODULE PageResolver ----------------------------
(***************************************************************************)
(* The database file and its header: file_manager.c and page_resolver.c.   *)
(*                                                                         *)
(* The file is reached through one stdio stream.  Every operation starts   *)
(* with fseek, which hands the stream's unwritten bytes to the operating   *)
(* system, so exactly the last fwrite can still be in the stream's buffer. *)
(* "file" is what the stream shows its reader, "disk" what the operating   *)
(* system holds; a process that dies leaves one of the two behind.         *)
(***************************************************************************)
EXTENDS Naturals

CONSTANTS
    MaxPage,        \* bound: how many pages are ever created
    Contents,       \* what a caller may put into a page
    Zero,           \* a page of zero bytes (memset, or a hole in the file)
    Headers,        \* values of the application header
    DefaultHeader,  \* the application header of a new file
    Absent,         \* bytes that lie behind the end of the file
    IOErrors        \* whether fseek, fread and fwrite may fail

ASSUME ResolverAssumption ==
    /\ MaxPage \in Nat \ {0}
    /\ DefaultHeader \in Headers
    /\ Absent \notin Contents \cup {Zero} \cup Headers \cup Nat
    /\ IOErrors \in BOOLEAN

VARIABLES
    file,                     \* the file as the stream sees it
    disk,                     \* the file as the operating system holds it
    opened,                   \* whether a page_resolver owns the file
    page_amount,              \* file_header.page_amount in memory
    was_file_header_altered,
    application_header,       \* the application header in memory
    header_failed             \* history: a header write has failed

vars == <<file, disk, opened, page_amount, was_file_header_altered,
          application_header, header_failed>>

Pages == 1 .. MaxPage
PageData == Contents \cup {Zero}

FileState ==
    [exists : BOOLEAN,
     page_amount : (0 .. MaxPage) \cup {Absent},
     application_header : Headers \cup {Absent},
     pages : [Pages -> PageData \cup {Absent}]]

EmptyFile ==
    [exists |-> TRUE, page_amount |-> Absent, application_header |-> Absent,
     pages |-> [p \in Pages |-> Absent]]

NoFile == [EmptyFile EXCEPT !.exists = FALSE]

Openable(f) == f.page_amount # Absent /\ f.application_header # Absent

(* Mutant: the header counts the id that will be handed out next.          *)
HeaderWritten_CountsNext(f) == [f EXCEPT !.page_amount = page_amount + 1]

(* write_header: the header in memory goes to the start of the file.       *)
HeaderWritten(f) == [f EXCEPT !.page_amount = page_amount]

(* file_manager_write at a page's offset; a write behind the end of the    *)
(* file leaves zero bytes in the gap.                                      *)
PageWritten(f, p, c) ==
    [f EXCEPT !.pages =
        [q \in Pages |->
            IF q = p THEN c
            ELSE IF q < p /\ f.pages[q] = Absent THEN Zero ELSE f.pages[q]]]

(* page_resolver_write_page: first the header if it was altered, then the  *)
(* page.                                                                   *)
BeforePage_NoHeader == file  \* mutant: the page goes first

BeforePage == IF was_file_header_altered THEN HeaderWritten(file) ELSE file
Written(p, c) == PageWritten(BeforePage, p, c)

Init ==
    /\ file = NoFile
    /\ disk = NoFile
    /\ opened = FALSE
    /\ page_amount = 0
    /\ was_file_header_altered = FALSE
    /\ application_header = DefaultHeader
    /\ header_failed = FALSE
-----------------------------------------------------------------------------
(* page_resolver_ctor on a name with no file: create it, write the file    *)
(* header, then the application header.                                    *)
CreateFile ==
    /\ ~opened /\ ~file.exists
    /\ disk' = [EmptyFile EXCEPT !.page_amount = 0]
    /\ file' = [disk' EXCEPT !.application_header = DefaultHeader]
    /\ opened' = TRUE
    /\ page_amount' = 0
    /\ was_file_header_altered' = TRUE
    /\ application_header' = DefaultHeader
    /\ UNCHANGED header_failed

(* Mutant: fopen truncates a file that was there.                          *)
CreateFileInterrupted_Truncates ==
    /\ ~opened
    /\ file' = EmptyFile
    /\ disk' = EmptyFile
    /\ UNCHANGED <<opened, page_amount, was_file_header_altered,
                   application_header, header_failed>>

(* The process dies, or the header write fails, after fopen has made the   *)
(* file and before its header is written.                                  *)
CreateFileInterrupted ==
    /\ ~opened /\ ~file.exists
    /\ file' = EmptyFile
    /\ disk' = EmptyFile
    /\ UNCHANGED <<opened, page_amount, was_file_header_altered,
                   application_header, header_failed>>

(* Mutant: the page count of an existing file is not taken over.           *)
OpenFile_CountsFromZero ==
    /\ ~opened /\ file.exists /\ Openable(file)
    /\ opened' = TRUE
    /\ page_amount' = 0
    /\ was_file_header_altered' = FALSE
    /\ application_header' = file.application_header
    /\ UNCHANGED <<file, disk, header_failed>>

(* page_resolver_ctor on an existing file: both headers are read.          *)
OpenFile ==
    /\ ~opened /\ file.exists /\ Openable(file)
    /\ opened' = TRUE
    /\ page_amount' = file.page_amount
    /\ was_file_header_altered' = FALSE
    /\ application_header' = file.application_header
    /\ UNCHANGED <<file, disk, header_failed>>

(* ... and a file without them is refused, whenever it is tried.           *)
OpenFileFails ==
    /\ ~opened /\ file.exists /\ ~Openable(file)
    /\ UNCHANGED vars

(* Mutant: the header is not marked.                                       *)
GetNewPageId_NotMarked ==
    /\ opened /\ page_amount < MaxPage
    /\ page_amount' = page_amount + 1
    /\ UNCHANGED <<file, disk, opened, was_file_header_altered,
                   application_header, header_failed>>

(* page_resolver_get_new_page_id; guarded by the bound MaxPage.            *)
GetNewPageId ==
    /\ opened /\ page_amount < MaxPage
    /\ page_amount' = page_amount + 1
    /\ was_file_header_altered' = TRUE
    /\ UNCHANGED <<file, disk, opened, application_header, header_failed>>

WritePage(p, c) ==
    /\ opened
    /\ disk' = BeforePage
    /\ file' = Written(p, c)
    /\ was_file_header_altered' = FALSE
    /\ UNCHANGED <<opened, page_amount, application_header, header_failed>>

(* write_header clears the flag before it writes: when the write fails the *)
(* header is not tried again until another page is created.                *)
WriteHeaderFails ==
    /\ IOErrors /\ opened /\ was_file_header_altered
    /\ was_file_header_altered' = FALSE
    /\ header_failed' = TRUE
    /\ disk' \in {disk, file}
    /\ UNCHANGED <<file, opened, page_amount, application_header>>

(* The header, if it was altered, is written and the page is not.          *)
WriteDataFails ==
    /\ IOErrors /\ opened
    /\ file' = BeforePage
    /\ disk' \in IF was_file_header_altered THEN {file, file'} ELSE {disk, file}
    /\ was_file_header_altered' = FALSE
    /\ UNCHANGED <<opened, page_amount, application_header, header_failed>>

WritePageFails == WriteHeaderFails \/ WriteDataFails

(* page_resolver_read_page leaves nothing in the stream's buffer.          *)
ReadPage ==
    /\ opened
    /\ disk' = file
    /\ UNCHANGED <<file, opened, page_amount, was_file_header_altered,
                   application_header, header_failed>>

(* A caller changes the application header through the pointer that        *)
(* page_resolver_get_application_header returned.                          *)
AlterApplicationHeader(h) ==
    /\ opened /\ h # application_header
    /\ application_header' = h
    /\ UNCHANGED <<file, disk, opened, page_amount, was_file_header_altered,
                   header_failed>>

FlushApplicationHeader ==
    /\ opened
    /\ disk' = file
    /\ file' = [file EXCEPT !.application_header = application_header]
    /\ UNCHANGED <<opened, page_amount, was_file_header_altered,
                   application_header, header_failed>>

(* page_resolver_destroy: fclose; neither header is written.               *)
Destroy ==
    /\ opened
    /\ opened' = FALSE
    /\ disk' = file
    /\ UNCHANGED <<file, page_amount, was_file_header_altered,
                   application_header, header_failed>>

(* The process dies with or without its last fwrite in the file.           *)
Crash ==
    /\ opened
    /\ opened' = FALSE
    /\ disk' \in {disk, file}
    /\ file' = disk'
    /\ UNCHANGED <<page_amount, was_file_header_altered, application_header,
                   header_failed>>

Next ==
    \/ CreateFile
    \/ CreateFileInterrupted
    \/ OpenFile
    \/ OpenFileFails
    \/ GetNewPageId
    \/ \E p \in 1 .. page_amount, c \in PageData : WritePage(p, c)
    \/ WritePageFails
    \/ ReadPage
    \/ \E h \in Headers : AlterApplicationHeader(h)
    \/ FlushApplicationHeader
    \/ Destroy
    \/ Crash

Spec == Init /\ [][Next]_vars
-----------------------------------------------------------------------------
TypeOK ==
    /\ file \in FileState
    /\ disk \in FileState
    /\ opened \in BOOLEAN
    /\ page_amount \in 0 .. MaxPage
    /\ was_file_header_altered \in BOOLEAN
    /\ application_header \in Headers
    /\ header_failed \in BOOLEAN

(* What a header says of the pages behind it.                              *)
Covers(f) ==
    \A p \in Pages : f.pages[p] # Absent =>
        f.page_amount # Absent /\ p <= f.page_amount

(* page_resolver_write_page puts the header in front of every page it has  *)
(* not counted yet, so a page is never in the file, nor left there by a    *)
(* crash, with an id the header would hand out again.  Only a header write *)
(* that failed breaks this, because write_header drops the flag first.     *)
HeaderCoversPages == ~header_failed => Covers(file) /\ Covers(disk)

(* Once the flag is down the header in the file is the one in memory.      *)
HeaderUpToDate ==
    opened /\ ~was_file_header_altered /\ ~header_failed =>
        file.page_amount = page_amount

(* The page count that a restart would read never goes back, whatever      *)
(* fails and whenever the process dies: ids are not handed out twice.      *)
PageAmountNeverShrinks ==
    [][disk.page_amount # Absent =>
        disk'.page_amount # Absent /\ disk'.page_amount >= disk.page_amount]_vars

(* Only a crash while the file is being made leaves a file that no later   *)
(* start can open: once a restart would find both headers it always will.  *)
StaysOpenable == [][Openable(disk) => Openable(disk')]_vars
=============================================================================
