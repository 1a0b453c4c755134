------------------------------- MODULE RmScan -------------------------------
(***************************************************************************)
(* RmScan (record/rm_scan.cpp): one thread iterates over the records of a  *)
(* table file while other threads insert, delete and update.  The file     *)
(* handle has no latch; a step of the scan is one call of its constructor  *)
(* or of next().                                                           *)
(***************************************************************************)
EXTENDS RmFile

VARIABLES
    rid_,      \* the scan's position, or NoScan when there is no scan
    visited,   \* history: the positions this scan has returned
    stable     \* history: the records that existed when the scan began and
               \* have not been deleted since

scanvars == <<rid_, visited, stable>>
vars == <<rmvars, scanvars>>

NoScan == [page_no |-> RM_NO_PAGE, slot_no |-> -1]
End == [page_no |-> file_hdr_.num_pages, slot_no |-> SlotsPerPage]

\* Positions a scan can be at: the uninitialised slot_no of a scan that began
\* in a file whose pages are all empty is some slot or the end of the page.
Positions == [page_no : 0 .. MaxPages, slot_no : 0 .. SlotsPerPage]

ScanTypeOK ==
    /\ rid_ \in Positions \cup {NoScan}
    /\ visited \subseteq Positions
    /\ stable \subseteq Rids

is_end == rid_ = End

\* Rids in file order.
Before(r, q) == r.page_no < q.page_no \/ (r.page_no = q.page_no /\ r.slot_no < q.slot_no)

\* Mutants: the first slot of the pages that follow is skipped; the search in
\* page n starts at its first slot again.
FirstFromSkipping(n, curr) ==
    LET slotIn(m) == next_bit(TRUE, page[m].bitmap, IF m = n THEN curr ELSE 0)
        hits == {m \in PagesInFile : m >= n /\ slotIn(m) # SlotsPerPage}
    IN IF hits = {} THEN End
       ELSE LET m == CHOOSE m \in hits : \A k \in hits : m <= k
            IN [page_no |-> m, slot_no |-> slotIn(m)]

FirstFromRestarting(n, curr) ==
    LET slotIn(m) == next_bit(TRUE, page[m].bitmap, -1)
        hits == {m \in PagesInFile : m >= n /\ slotIn(m) # SlotsPerPage}
    IN IF hits = {} THEN End
       ELSE LET m == CHOOSE m \in hits : \A k \in hits : m <= k
            IN [page_no |-> m, slot_no |-> slotIn(m)]

\* The first record at page n or later, after slot curr of page n; else End.
FirstFrom(n, curr) ==
    LET slotIn(m) == next_bit(TRUE, page[m].bitmap, IF m = n THEN curr ELSE -1)
        hits == {m \in PagesInFile : m >= n /\ slotIn(m) # SlotsPerPage}
    IN IF hits = {} THEN End
       ELSE LET m == CHOOSE m \in hits : \A k \in hits : m <= k
            IN [page_no |-> m, slot_no |-> slotIn(m)]

\* The pages fetched from page n to position r; none of them is unpinned.
Touched(n, r) == {m \in PagesInFile \cup {RM_FILE_HDR_PAGE} : n <= m /\ m <= r.page_no}

\* Pages are fetched in order while the pool has frames.
PinnedAfter(touched) ==
    pinned \cup {m \in touched :
                    Cardinality(pinned \cup {k \in touched : k <= m}) <= PoolSize}

\* Position r is reached, or a fetch on the way throws and the scan is gone.
MoveTo(r, n) ==
    /\ pinned' = PinnedAfter(Touched(n, r))
    /\ cachedHdr' = IF RM_FILE_HDR_PAGE \in pinned' \ pinned THEN diskHdr ELSE cachedHdr
    /\ UNCHANGED <<file_hdr_, page, fd2pageno_, diskHdr, status>>
    /\ IF Touched(n, r) \subseteq pinned'
       THEN /\ rid_' = r
            /\ visited' = IF r = End THEN visited ELSE visited \cup {r}
            /\ UNCHANGED stable
       ELSE rid_' = NoScan /\ visited' = {} /\ stable' = {}

\* The constructor, when the file has a record: the first one.
BeginAtRecord ==
    /\ status = "open" /\ rid_ = NoScan
    /\ Used # {}
    /\ LET r == FirstFrom(RM_FIRST_RECORD_PAGE, -1) IN
        /\ pinned' = PinnedAfter(Touched(RM_FIRST_RECORD_PAGE, r))
        /\ IF Touched(RM_FIRST_RECORD_PAGE, r) \subseteq pinned'
           THEN rid_' = r /\ visited' = {r} /\ stable' = Used
           ELSE UNCHANGED scanvars
    /\ UNCHANGED <<file_hdr_, page, fd2pageno_, diskHdr, cachedHdr, status>>

\* The constructor in a file with only its header page: the position is past
\* the slots of page 0, which is not the end of the scan.
BeginInNewFile ==
    /\ status = "open" /\ rid_ = NoScan
    /\ PagesInFile = {}
    /\ rid_' = [page_no |-> RM_FILE_HDR_PAGE, slot_no |-> SlotsPerPage]
    /\ visited' = {rid_'}
    /\ stable' = {}
    /\ UNCHANGED rmvars

\* The constructor in a file whose pages are all empty: slot_no is never set.
BeginInEmptiedFile ==
    /\ status = "open" /\ rid_ = NoScan
    /\ PagesInFile # {} /\ Used = {}
    /\ pinned' = PinnedAfter(PagesInFile)
    /\ IF PagesInFile \subseteq pinned'
       THEN \E s \in 0 .. SlotsPerPage :
               /\ rid_' = [page_no |-> file_hdr_.num_pages - 1, slot_no |-> s]
               /\ visited' = {rid_'}
               /\ stable' = {}
       ELSE UNCHANGED scanvars
    /\ UNCHANGED <<file_hdr_, page, fd2pageno_, diskHdr, cachedHdr, status>>

\* next(): the scan's user calls it while is_end() is false.
next ==
    /\ status = "open"
    /\ rid_ # NoScan
    /\ ~is_end
    /\ MoveTo(FirstFrom(rid_.page_no, rid_.slot_no), rid_.page_no)

\* The scan object is destroyed at the end of the loop.
Finish ==
    /\ is_end
    /\ rid_' = NoScan /\ visited' = {} /\ stable' = {}
    /\ UNCHANGED rmvars

\* The thread of the scan or another one uses the file.
Other ==
    /\ \/ \E v \in Values : insert_record(v)
       \/ insert_record_crashes
       \/ \E rid \in Rids : delete_record(rid)
       \/ \E rid \in Rids, v \in Values : update_record(rid, v)
       \/ \E n \in RecordPages \cup {RM_FILE_HDR_PAGE} : fetch_page_handle(n)
    /\ stable' = stable \cap Used'
    /\ UNCHANGED <<rid_, visited>>

\* The file is not closed under a scan.
CloseOrOpen ==
    /\ rid_ = NoScan
    /\ close_file \/ open_file
    /\ UNCHANGED scanvars

ScanInit ==
    /\ Init
    /\ rid_ = NoScan /\ visited = {} /\ stable = {}

ScanNext ==
    \/ BeginAtRecord
    \/ BeginInNewFile
    \/ BeginInEmptiedFile
    \/ next
    \/ Finish
    \/ Other
    \/ CloseOrOpen

ScanSpec == ScanInit /\ [][ScanNext]_vars

-----------------------------------------------------------------------------
(* Properties                                                              *)

\* Whatever other threads insert and delete meanwhile, a scan misses no record
\* that was there all the time: it has returned every one of them up to its
\* position, and when it is over all of them.
ScanMissesNoStableRecord ==
    rid_ # NoScan =>
        \A r \in stable : (is_end \/ ~Before(rid_, r)) => r \in visited

\* A scan returns no record twice and never goes back, also when next() starts
\* from a record that was deleted, or a slot that was refilled, after it was
\* returned.
ScanGoesForward ==
    [][rid_ # NoScan /\ rid_' # NoScan /\ rid_' # rid_ => Before(rid_, rid_')]_vars

\* A scan that has not ended points at a slot of a page of records, which is
\* what its users pass to get_record.
ScanPointsAtSlot ==
    rid_ # NoScan /\ ~is_end => rid_ \in Rids

=============================================================================
