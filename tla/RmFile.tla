------------------------------- MODULE RmFile -------------------------------
(***************************************************************************)
(* A table file: RmFileHandle (record/rm_file_handle.cpp) opened and       *)
(* closed by RmManager (record/rm_manager.h), over pages that keep their   *)
(* contents (PageStore, which BufferPool implements).                      *)
(*                                                                         *)
(* A page is a header (next_free_page_no, num_records), a bitmap and the   *)
(* slots.  The pages with room form a list that starts in the file header. *)
(* Each operation is one action: it is what one thread does to the file    *)
(* between two calls.                                                      *)
(*                                                                         *)
(* Most operations fetch a page and never unpin it, so the model keeps the *)
(* set of pages that stay pinned: they fill the buffer pool.               *)
(***************************************************************************)
EXTENDS Integers, FiniteSets

CONSTANTS
    SlotsPerPage,  \* file_hdr_.num_records_per_page
    MaxPages,      \* bound: a file grows to at most this many pages
    PoolSize,      \* frames of the buffer pool
    Values,        \* record contents
    Zero           \* the slot of a page just created

RM_NO_PAGE == -1
RM_FILE_HDR_PAGE == 0
RM_FIRST_RECORD_PAGE == 1

Slots == 0 .. SlotsPerPage - 1
RecordPages == RM_FIRST_RECORD_PAGE .. MaxPages - 1
Rids == [page_no : RecordPages, slot_no : Slots]

ASSUME RmAssumption ==
    /\ SlotsPerPage \in Nat \ {0}
    /\ MaxPages \in Nat \ {0}
    /\ PoolSize \in Nat
    /\ Zero \in Values

VARIABLES
    file_hdr_,   \* the header in memory: num_pages, first_free_page_no
    page,        \* page[n]: the contents of page n
    fd2pageno_,  \* the page number DiskManager::AllocatePage gives next
    pinned,      \* pages fetched and never unpinned
    diskHdr,     \* the header in page 0 of the file on disk
    cachedHdr,   \* the header in page 0 in the buffer pool, while that is pinned
    status       \* "open", "closed" or, after a null dereference, "crashed"

rmvars == <<file_hdr_, page, fd2pageno_, pinned, diskHdr, cachedHdr, status>>

-----------------------------------------------------------------------------
(* Types                                                                   *)

RmFileHdr == [num_pages : 1 .. MaxPages,
              first_free_page_no : RecordPages \cup {RM_NO_PAGE}]
RmPage == [next_free_page_no : RecordPages \cup {RM_NO_PAGE},
           num_records : 0 .. SlotsPerPage,
           bitmap : SUBSET Slots,
           slots : [Slots -> Values]]

\* RmManager::create_file: only the header page, no page with room.
NewFileHdr == [num_pages |-> 1, first_free_page_no |-> RM_NO_PAGE]

TypeOK ==
    /\ file_hdr_ \in RmFileHdr
    /\ page \in [RecordPages -> RmPage]
    /\ fd2pageno_ \in 1 .. MaxPages
    /\ pinned \subseteq RecordPages \cup {RM_FILE_HDR_PAGE}
    /\ diskHdr \in RmFileHdr
    /\ cachedHdr \in RmFileHdr
    /\ status \in {"open", "closed", "crashed"}

-----------------------------------------------------------------------------
(* Bitmap and buffer pool                                                  *)

\* Bitmap::next_bit: the first position after curr with that bit, or the
\* number of slots.
next_bit(bit, bitmap, curr) ==
    LET found == {i \in Slots : i > curr /\ (i \in bitmap) = bit}
    IN IF found = {} THEN SlotsPerPage
       ELSE CHOOSE i \in found : \A j \in found : i <= j

\* Mutant: the bit is not looked at.
is_setIgnored(bitmap, pos) == TRUE

\* Bitmap::is_set
is_set(bitmap, pos) == pos \in bitmap

first_bit(bit, bitmap) == next_bit(bit, bitmap, -1)

\* BufferPoolManager finds a frame as long as not all of them are pinned; a
\* page that is pinned is a hit.
HasFrame == Cardinality(pinned) < PoolSize
Fetchable(n) == n \in pinned \/ HasFrame

\* The page numbers of the file that hold records.
PagesInFile == RM_FIRST_RECORD_PAGE .. file_hdr_.num_pages - 1

EmptyPage(next_free) ==
    [next_free_page_no |-> next_free, num_records |-> 0, bitmap |-> {},
     slots |-> [s \in Slots |-> Zero]]

-----------------------------------------------------------------------------

Init ==
    /\ file_hdr_ = NewFileHdr
    /\ page = [n \in RecordPages |-> EmptyPage(RM_NO_PAGE)]
    /\ fd2pageno_ = NewFileHdr.num_pages
    /\ pinned = {}
    /\ diskHdr = NewFileHdr
    /\ cachedHdr = NewFileHdr
    /\ status = "open"

\* create_new_page_handle, as insert_record calls it: the new page goes to the
\* front of the list and stays pinned.
NeedsPage == file_hdr_.first_free_page_no = RM_NO_PAGE
HdrWithPage == IF NeedsPage
               THEN [num_pages |-> file_hdr_.num_pages + 1, first_free_page_no |-> fd2pageno_]
               ELSE file_hdr_
PagesWithPage == IF NeedsPage
                 THEN [page EXCEPT ![fd2pageno_] = EmptyPage(file_hdr_.first_free_page_no)]
                 ELSE page

\* A page that holds this many records leaves the list (insert_record) ...
IsFull(num_records) == num_records >= SlotsPerPage

\* Mutant: off by one.
WasFullOffByOne(num_records) == num_records = SlotsPerPage

\* ... and one whose count goes down to this is put back (delete_record).
WasFull(num_records) == num_records = SlotsPerPage - 1

\* insert_record(buf): the first free slot of the first page with room; a page
\* that is full now leaves the list.  The page is unpinned again.
insert_record(buf) ==
    /\ status = "open"
    /\ IF NeedsPage THEN HasFrame /\ fd2pageno_ < MaxPages
                    ELSE Fetchable(file_hdr_.first_free_page_no)
    /\ LET hdr == HdrWithPage
           n == hdr.first_free_page_no
           pg == PagesWithPage[n]
           slot_no == first_bit(FALSE, pg.bitmap)
           filled == [pg EXCEPT !.bitmap = @ \cup {slot_no},
                                !.num_records = @ + 1,
                                !.slots[slot_no] = buf]
       IN IF slot_no # SlotsPerPage
          THEN /\ page' = [PagesWithPage EXCEPT ![n] = filled]
               /\ file_hdr_' = IF IsFull(filled.num_records)
                               THEN [hdr EXCEPT !.first_free_page_no = pg.next_free_page_no]
                               ELSE hdr
          ELSE page' = PagesWithPage /\ file_hdr_' = hdr
    /\ fd2pageno_' = IF NeedsPage THEN fd2pageno_ + 1 ELSE fd2pageno_
    /\ pinned' = IF NeedsPage THEN pinned \cup {fd2pageno_} ELSE pinned
    /\ UNCHANGED <<diskHdr, cachedHdr, status>>

\* A new page is needed and NewPage returns nullptr: create_new_page_handle
\* writes through it.
insert_record_crashes ==
    /\ status = "open"
    /\ NeedsPage
    /\ ~HasFrame
    /\ status' = "crashed"
    /\ UNCHANGED <<file_hdr_, page, fd2pageno_, pinned, diskHdr, cachedHdr>>

\* delete_record(rid): nothing happens to a slot that holds no record.  A page
\* that was full goes to the front of the list (release_page_handle).
delete_record(rid) ==
    /\ status = "open"
    /\ rid.page_no \in PagesInFile
    /\ Fetchable(rid.page_no)
    /\ pinned' = pinned \cup {rid.page_no}
    /\ LET pg == page[rid.page_no]
           emptied == [pg EXCEPT !.bitmap = @ \ {rid.slot_no}, !.num_records = @ - 1]
       IN IF ~is_set(pg.bitmap, rid.slot_no)
          THEN UNCHANGED <<page, file_hdr_>>
          ELSE IF WasFull(emptied.num_records)
          THEN /\ page' = [page EXCEPT ![rid.page_no] =
                      [emptied EXCEPT !.next_free_page_no = file_hdr_.first_free_page_no]]
               /\ file_hdr_' = [file_hdr_ EXCEPT !.first_free_page_no = rid.page_no]
          ELSE /\ page' = [page EXCEPT ![rid.page_no] = emptied]
               /\ UNCHANGED file_hdr_
    /\ UNCHANGED <<fd2pageno_, diskHdr, cachedHdr, status>>

\* update_record(rid, buf): the slot is written whether it holds a record or not.
update_record(rid, buf) ==
    /\ status = "open"
    /\ rid.page_no \in PagesInFile
    /\ Fetchable(rid.page_no)
    /\ pinned' = pinned \cup {rid.page_no}
    /\ page' = [page EXCEPT ![rid.page_no].slots[rid.slot_no] = buf]
    /\ UNCHANGED <<file_hdr_, fd2pageno_, diskHdr, cachedHdr, status>>

\* get_record(rid), is_record(rid) and any other fetch_page_handle of page n
\* leave a pin behind.  Page 0 is asked for only by the user of a scan that
\* began in an empty file; the pool then keeps the header it read.
fetch_page_handle(n) ==
    /\ status = "open"
    /\ n \in PagesInFile \/ (n = RM_FILE_HDR_PAGE /\ PagesInFile = {})
    /\ Fetchable(n)
    /\ pinned' = pinned \cup {n}
    /\ cachedHdr' = IF n = RM_FILE_HDR_PAGE /\ n \notin pinned THEN diskHdr ELSE cachedHdr
    /\ UNCHANGED <<file_hdr_, page, fd2pageno_, diskHdr, status>>

\* What page 0 of the file is in the end when the file is closed.
HdrWritten == IF RM_FILE_HDR_PAGE \in pinned THEN cachedHdr ELSE file_hdr_

\* RmManager::close_file: the header goes straight to disk, and then every
\* page of the file that is in the pool, page 0 with the others.
close_file ==
    /\ status = "open"
    /\ diskHdr' = HdrWritten
    /\ status' = "closed"
    /\ UNCHANGED <<file_hdr_, page, fd2pageno_, pinned, cachedHdr>>

\* Mutant: the last page is allocated a second time.
NextPageOneShort == IF PagesInFile = {} THEN diskHdr.num_pages ELSE diskHdr.num_pages - 1

\* What the constructor of RmFileHandle passes to set_fd2pageno.
NextPageAfterOpen == diskHdr.num_pages

\* RmManager::open_file in a new process: the server opens the tables it finds
\* when it starts (SmManager::open_db).  The handle takes the header it reads;
\* when close_file has put an old page 0 in its place the pages of the file are
\* still there, but their numbers are given out once more.
open_file ==
    /\ status = "closed"
    /\ file_hdr_' = diskHdr
    /\ fd2pageno_' = NextPageAfterOpen
    /\ status' = "open"
    /\ pinned' = {}
    /\ cachedHdr' = NewFileHdr
    /\ UNCHANGED <<page, diskHdr>>

Next ==
    \/ \E v \in Values : insert_record(v)
    \/ insert_record_crashes
    \/ \E rid \in Rids : delete_record(rid)
    \/ \E rid \in Rids, v \in Values : update_record(rid, v)
    \/ \E n \in RecordPages \cup {RM_FILE_HDR_PAGE} : fetch_page_handle(n)
    \/ close_file
    \/ open_file

Spec == Init /\ [][Next]_rmvars

-----------------------------------------------------------------------------
(* Invariants                                                              *)

\* The free-page list is the sequence s: it starts in the file header and each
\* page names the next one.
FreeListIs(s) ==
    LET after(i) == IF i \in DOMAIN s THEN s[i] ELSE RM_NO_PAGE
    IN /\ file_hdr_.first_free_page_no = after(1)
       /\ \A i \in DOMAIN s : page[s[i]].next_free_page_no = after(i + 1)

Distinct(s) == \A i, j \in DOMAIN s : s[i] = s[j] => i = j

PagesWithRoom == {n \in PagesInFile : page[n].bitmap # Slots}

\* The free-page list visits every page that has room, each one once, and no
\* full page: no slot is lost after deletions, in any order, have put pages
\* back, and insert_record always finds a slot in the page it takes.
FreeListIsExact ==
    \E n \in 0 .. MaxPages : \E s \in [1 .. n -> PagesWithRoom] :
        /\ Distinct(s)
        /\ FreeListIs(s)
        /\ PagesWithRoom = {s[i] : i \in DOMAIN s}

\* num_records, which decides when a page leaves and enters the list, counts
\* the bits of the bitmap, also in a page whose number was given out twice.
CountsMatchBitmaps ==
    \A n \in RecordPages : page[n].num_records = Cardinality(page[n].bitmap)

\* The header and the disk manager agree on the next page number, so the page
\* create_new_page_handle numbers is the one the header counts.
AllocatorInStep == fd2pageno_ = file_hdr_.num_pages

\* Every page an operation fetched has been unpinned when it returns.
NoPinLeftBehind == pinned = {}

-----------------------------------------------------------------------------
(* The file implements a store of records (refinement).                    *)

Used == {rid \in Rids : rid.page_no \in PagesInFile /\ rid.slot_no \in page[rid.page_no].bitmap}

Store == INSTANCE RecordStore WITH
    records <- [rid \in Used |-> page[rid.page_no].slots[rid.slot_no]],
    exposed <- RM_FILE_HDR_PAGE \in pinned

\* An insertion returns a rid nobody holds and touches no other record, a
\* deletion removes one record, and records keep their values through page
\* allocation, list maintenance, closing and reopening.  They are lost, all of
\* them, when the file is opened after it was closed with page 0 in the pool,
\* where only the user of a scan of the new file puts it, and at no other time.
ImplementsRecordStore == Store!Spec

=============================================================================
