------------------------- MODULE PageResolverProofs -------------------------
(***************************************************************************)
(* Proofs about the database file: its header never falls behind its pages *)
(* and never goes back, for every number of pages and every content.       *)
(***************************************************************************)
EXTENDS PageResolver, TLAPS

(* The header on disk never runs ahead of the one in the stream, nor that  *)
(* of the one in memory; a closed file has nothing left in the stream.     *)
HeaderOrder ==
    /\ disk.page_amount # Absent =>
          file.page_amount # Absent /\ disk.page_amount <= file.page_amount
    /\ disk.application_header # Absent => file.application_header # Absent
    /\ opened => Openable(file) /\ file.page_amount <= page_amount
    /\ ~opened => disk = file
    /\ disk.exists = file.exists
    /\ ~file.exists => ~opened /\ file.page_amount = Absent
                              /\ file.application_header = Absent

Inv == TypeOK /\ HeaderOrder /\ HeaderUpToDate /\ HeaderCoversPages

USE DEF Pages, PageData

(* A file that is not there yet, and one that is empty.                    *)
LEMMA EmptyFileType ==
    /\ EmptyFile \in FileState /\ NoFile \in FileState
    /\ ~NoFile.exists /\ EmptyFile.exists
    /\ \A f \in {EmptyFile, NoFile} :
          /\ f.page_amount = Absent /\ f.application_header = Absent
          /\ \A p \in Pages : f.pages[p] = Absent
<1>1. EmptyFile \in FileState
  BY DEF EmptyFile, FileState
<1>2. NoFile \in FileState
  BY <1>1 DEF NoFile, FileState
<1>3. /\ EmptyFile.exists /\ EmptyFile.page_amount = Absent
      /\ EmptyFile.application_header = Absent
      /\ EmptyFile.pages = [p \in Pages |-> Absent]
  BY DEF EmptyFile
<1>4. /\ ~NoFile.exists /\ NoFile.page_amount = EmptyFile.page_amount
      /\ NoFile.application_header = EmptyFile.application_header
      /\ NoFile.pages = EmptyFile.pages
  BY <1>1 DEF NoFile, FileState
<1> QED BY <1>1, <1>2, <1>3, <1>4

(* Writing a header or a page keeps the file a file.                       *)
LEMMA WrittenType ==
    ASSUME TypeOK, NEW f \in FileState, NEW p \in Pages, NEW c \in PageData
    PROVE  /\ HeaderWritten(f) \in FileState
           /\ PageWritten(f, p, c) \in FileState
BY DEF TypeOK, FileState, HeaderWritten, PageWritten

LEMMA BeforePageType ==
    ASSUME TypeOK
    PROVE  BeforePage \in FileState
BY WrittenType DEF BeforePage, TypeOK, FileState, HeaderWritten

LEMMA InitInv == Init => Inv
<1> SUFFICES ASSUME Init PROVE Inv
  OBVIOUS
<1>1. TypeOK
  <2>1. file \in FileState /\ disk \in FileState
    BY EmptyFileType DEF Init
  <2>2. page_amount \in 0 .. MaxPage /\ application_header \in Headers
    BY ResolverAssumption DEF Init
  <2>3. /\ opened \in BOOLEAN /\ was_file_header_altered \in BOOLEAN
        /\ header_failed \in BOOLEAN
    BY DEF Init
  <2> QED BY <2>1, <2>2, <2>3 DEF TypeOK
<1>2. HeaderOrder /\ HeaderUpToDate /\ HeaderCoversPages
  BY ResolverAssumption, EmptyFileType
     DEF Init, HeaderOrder, HeaderUpToDate, HeaderCoversPages, Covers
<1> QED BY <1>1, <1>2 DEF Inv

LEMMA StepInv == Inv /\ [Next]_vars => Inv'
<1> SUFFICES ASSUME Inv, [Next]_vars PROVE Inv'
  OBVIOUS
<1> USE ResolverAssumption DEF Inv
<1>1. CASE CreateFile
  <2>1. TypeOK'
    <3>1. disk' \in FileState
      BY <1>1, EmptyFileType DEF CreateFile, FileState
    <3>2. file' \in FileState
      BY <1>1, <3>1 DEF CreateFile, FileState
    <3>3. page_amount' \in 0 .. MaxPage /\ application_header' \in Headers
      BY <1>1 DEF CreateFile
    <3>4. /\ opened' \in BOOLEAN /\ was_file_header_altered' \in BOOLEAN
          /\ header_failed' \in BOOLEAN
      BY <1>1 DEF CreateFile, TypeOK
    <3> QED BY <3>1, <3>2, <3>3, <3>4 DEF TypeOK
  <2>2. /\ disk'.page_amount = 0 /\ disk'.application_header = Absent
        /\ file'.page_amount = 0 /\ file'.application_header # Absent
        /\ file'.exists
        /\ \A p \in Pages : file'.pages[p] = Absent /\ disk'.pages[p] = Absent
    BY <1>1, EmptyFileType DEF CreateFile, FileState
  <2> QED
    BY <1>1, <2>1, <2>2 DEF CreateFile, HeaderOrder, HeaderUpToDate,
       HeaderCoversPages, Covers, Openable
<1>2. CASE CreateFileInterrupted
  BY <1>2, EmptyFileType DEF CreateFileInterrupted, TypeOK, HeaderOrder,
     HeaderUpToDate, HeaderCoversPages, Covers, Openable
<1>3. CASE OpenFile
  BY <1>3 DEF OpenFile, TypeOK, FileState, HeaderOrder, HeaderUpToDate,
     HeaderCoversPages, Covers, Openable
<1>4. CASE OpenFileFails
  BY <1>4 DEF OpenFileFails, vars, TypeOK, HeaderOrder, HeaderUpToDate,
     HeaderCoversPages, Covers, Openable
<1>5. CASE GetNewPageId
  BY <1>5 DEF GetNewPageId, TypeOK, FileState, HeaderOrder, HeaderUpToDate,
     HeaderCoversPages, Covers, Openable
<1>6. ASSUME NEW p \in 1 .. page_amount, NEW c \in PageData, WritePage(p, c)
      PROVE  Inv'
  <2> p \in Pages
    BY DEF TypeOK
  <2>1. TypeOK'
    BY <1>6, WrittenType, BeforePageType DEF WritePage, Written, TypeOK
  <2>2. HeaderOrder'
    BY <1>6 DEF WritePage, Written, BeforePage, HeaderWritten, PageWritten,
       TypeOK, FileState, HeaderOrder, Openable
  <2>3. HeaderUpToDate'
    BY <1>6 DEF WritePage, Written, BeforePage, HeaderWritten, PageWritten,
       TypeOK, FileState, HeaderUpToDate
  <2>4. HeaderCoversPages'
    BY <1>6 DEF WritePage, Written, BeforePage, HeaderWritten, PageWritten,
       TypeOK, FileState, HeaderOrder, HeaderUpToDate, HeaderCoversPages, Covers
  <2> QED BY <2>1, <2>2, <2>3, <2>4
<1>7. CASE WriteHeaderFails
  <2>1. file' \in {file, disk} /\ disk' \in {file, disk}
    BY <1>7 DEF WriteHeaderFails
  <2>2. TypeOK'
    BY <1>7, <2>1 DEF WriteHeaderFails, TypeOK
  <2>3. HeaderOrder'
    BY <1>7 DEF WriteHeaderFails, TypeOK, FileState, HeaderOrder, Openable
  <2>4. HeaderUpToDate' /\ HeaderCoversPages'
    BY <1>7 DEF WriteHeaderFails, TypeOK, HeaderUpToDate, HeaderCoversPages, Covers
  <2> QED BY <2>2, <2>3, <2>4
<1>8. CASE WriteDataFails
  <2>1. TypeOK'
    BY <1>8, BeforePageType DEF WriteDataFails, TypeOK
  <2>2. HeaderOrder'
    BY <1>8 DEF WriteDataFails, BeforePage, HeaderWritten,
       TypeOK, FileState, HeaderOrder, Openable
  <2>3. HeaderUpToDate' /\ HeaderCoversPages'
    BY <1>8 DEF WriteDataFails, BeforePage, HeaderWritten,
       TypeOK, FileState, HeaderOrder, HeaderUpToDate, HeaderCoversPages,
       Covers, Openable
  <2> QED BY <2>1, <2>2, <2>3
<1>9. CASE ReadPage
  BY <1>9 DEF ReadPage, TypeOK, HeaderOrder, HeaderUpToDate,
     HeaderCoversPages, Openable, FileState
<1>10. ASSUME NEW h \in Headers, AlterApplicationHeader(h)
       PROVE  Inv'
  BY <1>10 DEF AlterApplicationHeader, TypeOK, HeaderOrder, HeaderUpToDate,
     HeaderCoversPages, Openable, FileState
<1>11. CASE FlushApplicationHeader
  BY <1>11 DEF FlushApplicationHeader, TypeOK, HeaderOrder, HeaderUpToDate,
     HeaderCoversPages, Covers, Openable, FileState
<1>12. CASE Destroy
  <2>1. file' \in {file, disk} /\ disk' \in {file, disk}
    BY <1>12 DEF Destroy
  <2>2. TypeOK'
    BY <1>12, <2>1 DEF Destroy, TypeOK
  <2>3. HeaderOrder'
    BY <1>12 DEF Destroy, TypeOK, FileState, HeaderOrder, Openable
  <2>4. HeaderUpToDate' /\ HeaderCoversPages'
    BY <1>12 DEF Destroy, TypeOK, HeaderUpToDate, HeaderCoversPages, Covers
  <2> QED BY <2>2, <2>3, <2>4
<1>13. CASE Crash
  <2>1. file' \in {file, disk} /\ disk' \in {file, disk}
    BY <1>13 DEF Crash
  <2>2. TypeOK'
    BY <1>13, <2>1 DEF Crash, TypeOK
  <2>3. HeaderOrder'
    BY <1>13 DEF Crash, TypeOK, FileState, HeaderOrder, Openable
  <2>4. HeaderUpToDate' /\ HeaderCoversPages'
    <3>1. HeaderUpToDate'
      BY <1>13 DEF Crash, HeaderUpToDate
    <3>2. ASSUME ~header_failed' PROVE Covers(file)' /\ Covers(disk)'
      <4>1. Covers(file) /\ Covers(disk)
        BY <1>13, <3>2 DEF Crash, HeaderCoversPages
      <4>2. file' = disk' /\ (disk' = file \/ disk' = disk)
        BY <1>13 DEF Crash
      <4> QED BY <4>1, <4>2 DEF Covers
    <3> QED BY <3>1, <3>2 DEF HeaderCoversPages
  <2> QED BY <2>2, <2>3, <2>4
<1>14. CASE UNCHANGED vars
  BY <1>14 DEF vars, TypeOK, HeaderOrder, HeaderUpToDate, HeaderCoversPages,
     Covers, Openable
<1> QED
  BY <1>1, <1>2, <1>3, <1>4, <1>5, <1>6, <1>7, <1>8, <1>9, <1>10, <1>11,
     <1>12, <1>13, <1>14 DEF Next, WritePageFails

LEMMA Invariance == Spec => []Inv
BY InitInv, StepInv, PTL DEF Spec

(* Every variable keeps its type, for every instance.                      *)
THEOREM TypeCorrect == Spec => []TypeOK
<1>1. Inv => TypeOK
  BY DEF Inv
<1> QED BY <1>1, Invariance, PTL

(* With the flag down, the header in the file is the one in memory, unless *)
(* a header write failed.                                                  *)
THEOREM HeaderCurrent == Spec => []HeaderUpToDate
<1>1. Inv => HeaderUpToDate
  BY DEF Inv
<1> QED BY <1>1, Invariance, PTL

(* While no header write has failed, no page is in the stream or on disk   *)
(* behind a header that does not count it.                                 *)
THEOREM HeaderCovers == Spec => []HeaderCoversPages
<1>1. Inv => HeaderCoversPages
  BY DEF Inv
<1> QED BY <1>1, Invariance, PTL

(* The page count on disk only grows, over failures and crashes.           *)
THEOREM PageAmountGrows == Spec => PageAmountNeverShrinks
<1> DEFINE Grows ==
      disk.page_amount # Absent =>
          disk'.page_amount # Absent /\ disk'.page_amount >= disk.page_amount
<1>1. Inv /\ [Next]_vars => [Grows]_vars
  <2> SUFFICES ASSUME Inv, Next PROVE Grows
    OBVIOUS
  <2> USE DEF Inv, HeaderOrder, Openable
  <2>1. TypeOK
    BY DEF Inv
  <2>2. ASSUME disk' \in {disk, file} PROVE Grows
    BY <2>1, <2>2 DEF TypeOK, FileState
  <2>3. ASSUME opened, disk' = BeforePage PROVE Grows
    <3>1. /\ file.page_amount \in 0 .. MaxPage
          /\ disk.page_amount \in (0 .. MaxPage) \cup {Absent}
          /\ page_amount \in 0 .. MaxPage
      BY <2>1, <2>3 DEF TypeOK, FileState
    <3>2. BeforePage.page_amount \in {file.page_amount, page_amount}
      BY <2>1 DEF BeforePage, HeaderWritten, TypeOK, FileState
    <3>3. file.page_amount <= page_amount
      BY <2>3
    <3> QED BY <2>3, <3>1, <3>2, <3>3, ResolverAssumption
  <2>4. CASE CreateFile \/ CreateFileInterrupted
    BY <2>4 DEF CreateFile, CreateFileInterrupted
  <2>5. CASE OpenFile \/ OpenFileFails \/ GetNewPageId \/ ReadPage
              \/ FlushApplicationHeader \/ Destroy \/ Crash
              \/ \E h \in Headers : AlterApplicationHeader(h)
    BY <2>2, <2>5 DEF OpenFile, OpenFileFails, GetNewPageId, ReadPage,
       FlushApplicationHeader, Destroy, Crash, AlterApplicationHeader, vars
  <2>6. CASE \E p \in 1 .. page_amount, c \in PageData : WritePage(p, c)
    BY <2>3, <2>6 DEF WritePage
  <2>7. CASE WritePageFails
    BY <2>2, <2>3, <2>7 DEF WritePageFails, WriteHeaderFails, WriteDataFails,
       BeforePage
  <2> QED BY <2>4, <2>5, <2>6, <2>7 DEF Next
<1> QED BY <1>1, Invariance, PTL DEF Spec, PageAmountNeverShrinks

(* A file that could be opened again after a crash stays one that can.     *)
THEOREM OpenableForever == Spec => StaysOpenable
<1>1. Inv /\ [Next]_vars => [Openable(disk) => Openable(disk')]_vars
  <2> SUFFICES ASSUME Inv, Next, Openable(disk) PROVE Openable(disk')
    OBVIOUS
  <2> USE DEF Inv, HeaderOrder, Openable
  <2>1. TypeOK /\ Openable(file)
    BY DEF Inv
  <2>2. Openable(BeforePage)
    BY <2>1, ResolverAssumption DEF TypeOK, FileState, BeforePage, HeaderWritten
  <2>3. disk' \in {disk, file, BeforePage}
    <3>1. CASE CreateFile \/ CreateFileInterrupted
      BY <3>1 DEF CreateFile, CreateFileInterrupted
    <3>2. CASE OpenFile \/ OpenFileFails \/ GetNewPageId \/ ReadPage
                \/ FlushApplicationHeader \/ Destroy \/ Crash
                \/ \E h \in Headers : AlterApplicationHeader(h)
      BY <3>2 DEF OpenFile, OpenFileFails, GetNewPageId, ReadPage,
         FlushApplicationHeader, Destroy, Crash, AlterApplicationHeader, vars
    <3>3. CASE \E p \in 1 .. page_amount, c \in PageData : WritePage(p, c)
      BY <3>3 DEF WritePage
    <3>4. CASE WritePageFails
      BY <3>4 DEF WritePageFails, WriteHeaderFails, WriteDataFails, BeforePage
    <3> QED BY <3>1, <3>2, <3>3, <3>4 DEF Next
  <2> QED BY <2>1, <2>2, <2>3
<1> QED BY <1>1, Invariance, PTL DEF Spec, StaysOpenable
=============================================================================
