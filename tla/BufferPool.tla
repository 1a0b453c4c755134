----------------------------- MODULE BufferPool -----------------------------
(***************************************************************************)
(* BufferPoolManager (storage/buffer_pool_manager.cpp) with its LRU        *)
(* replacer and the page I/O of DiskManager.  Every public method holds    *)
(* latch_ from its first statement to its return, so each one is a single  *)
(* action; what interleaves is the calls of different clients, and the     *)
(* writes clients make through the Page pointers they were given.          *)
(*                                                                         *)
(* A client is one pinned use of a page: FetchPage or NewPage gives it a   *)
(* pointer to a frame, it may write through the pointer, and it ends with  *)
(* UnpinPage.  A thread that pins several pages is several clients.        *)
(***************************************************************************)
EXTENDS Integers, FiniteSets, LruReplacer

CONSTANTS
    PoolSize,    \* pool_size_: number of frames
    Fds,         \* descriptors of the open files
    MaxPages,    \* bound: AllocatePage is called while a file has fewer pages
    HalfRange,   \* pages of a file whose offset is a non-negative int:
                 \* 2^31 / PAGE_SIZE = 524288 in the program
    Clients,     \* bound: number of pins held at one time
    Data,        \* page contents
    Zero,        \* the page ResetMemory leaves
    Misuse       \* which rules of use the callers break (see CallerRules)

INVALID_FRAME_ID == -1
INVALID_PAGE_ID == -1

Frames == 0 .. PoolSize - 1
PageIds == [fd : Fds, page_no : 0 .. MaxPages - 1]

\* The id_ of a frame never used: page_no is initialised, fd is not.  No
\* caller asks for page INVALID_PAGE_ID, so the indeterminate fd is never
\* compared with success and one value stands for all of them.
NoPage == [fd |-> -1, page_no |-> INVALID_PAGE_ID]

CallerRules == {"deletePinned", "refetchDeleted"}

ASSUME PoolAssumption ==
    /\ PoolSize \in Nat \ {0}
    /\ MaxPages \in Nat
    /\ HalfRange \in Nat \ {0}
    /\ Fds \subseteq Nat
    /\ IsFiniteSet(Clients)
    /\ Zero \in Data
    /\ Misuse \subseteq CallerRules

VARIABLES
    pages_,      \* pages_[f]: the Page object of frame f
    page_table_, \* page_table_[p]: the frame of page p, or INVALID_FRAME_ID
    free_list_,  \* frames that hold no page
    LRUlist_,    \* frames the replacer may victimise, oldest first
    disk,        \* disk[l]: what the file holds at location l
    fd2pageno_,  \* fd2pageno_[fd]: the next page number AllocatePage gives out
    handle,      \* handle[c]: the page and frame client c holds, and whether it
                 \* wrote to it since the page was last flushed
    retired      \* pages on which DeletePage succeeded

vars == <<pages_, page_table_, free_list_, LRUlist_, disk, fd2pageno_, handle, retired>>
lists == <<free_list_, LRUlist_>>

-----------------------------------------------------------------------------
(* Disk addresses                                                          *)

\* Lseek(fd, page_no * PAGE_SIZE, SEEK_SET): the product is an int, so the
\* offset, counted in pages, wraps at 2 * HalfRange into the signed range.
Offset(page_no) == ((page_no + HalfRange) % (2 * HalfRange)) - HalfRange

\* lseek rejects a negative offset and Lseek throws UnixError.
Seekable(p) == Offset(p.page_no) >= 0

Locations == [fd : Fds, offset : 0 .. HalfRange - 1]
Location(p) == [fd |-> p.fd, offset |-> Offset(p.page_no)]

\* write_page and read_page at a location lseek accepts.  A read past the end
\* of the file leaves the frame as ResetMemory left it, so a location never
\* written reads as Zero.
write_page(p, data) == [disk EXCEPT ![Location(p)] = data]
read_page(p) == disk[Location(p)]

-----------------------------------------------------------------------------
(* Types and helpers                                                       *)

Idle == [page |-> NoPage, frame |-> INVALID_FRAME_ID, wrote |-> FALSE]
Handles == [page : PageIds, frame : Frames, wrote : BOOLEAN] \cup {Idle}

Page == [id_ : PageIds \cup {NoPage}, data_ : Data, is_dirty_ : BOOLEAN,
         pin_count_ : Nat]

TypeOK ==
    /\ pages_ \in [Frames -> Page]
    /\ page_table_ \in [PageIds -> Frames \cup {INVALID_FRAME_ID}]
    /\ free_list_ \in Seq(Frames)
    /\ LRUlist_ \in Seq(Frames)
    /\ disk \in [Locations -> Data]
    /\ fd2pageno_ \in [Fds -> 0 .. MaxPages]
    /\ handle \in [Clients -> Handles]
    /\ retired \in SUBSET PageIds

Cached(p) == p \in PageIds /\ page_table_[p] # INVALID_FRAME_ID
FrameOf(p) == page_table_[p]

Allocated == {p \in PageIds : p.page_no < fd2pageno_[p.fd]}

\* The clients whose pointer is to frame f.
Users(f) == {c \in Clients : handle[c].frame = f}

\* The frame FetchPage and NewPage take over: the front of the free list if
\* there is one, else the replacer's victim.
HasFrame == free_list_ # <<>> \/ HasVictim(LRUlist_)
TakenFrame == IF free_list_ # <<>> THEN Head(free_list_) ELSE VictimOf(LRUlist_)
FreeListAfter == IF free_list_ # <<>> THEN Tail(free_list_) ELSE free_list_
LRUlistAfter == IF free_list_ # <<>> THEN LRUlist_ ELSE AfterVictim(LRUlist_)

\* The page of frame f has to be written before the frame is reused.
NeedsWriteBack(f) == pages_[f].is_dirty_ /\ Cached(pages_[f].id_)
WriteBackThrows(f) == NeedsWriteBack(f) /\ ~Seekable(pages_[f].id_)

\* Mutant: the entry of the old page is not erased.
RemapKeepsOld(old, new, f) ==
    [p \in PageIds |->
        IF p = new /\ page_table_[p] = INVALID_FRAME_ID THEN f ELSE page_table_[p]]

\* page_table_.erase(old) and page_table_.insert({new, f}): insert keeps an
\* entry that is already there.
Remap(old, new, f) ==
    [p \in PageIds |->
        IF p = new /\ (p = old \/ page_table_[p] = INVALID_FRAME_ID) THEN f
        ELSE IF p = old THEN INVALID_FRAME_ID
        ELSE page_table_[p]]

\* Mutant: the number is given out again.
AllocateSame(fd) == UNCHANGED fd2pageno_

\* DiskManager::AllocatePage returns fd2pageno_[fd] and advances it.
AllocatePage(fd) == fd2pageno_' = [fd2pageno_ EXCEPT ![fd] = @ + 1]

\* Mutant: the caller's is_dirty replaces the mark an earlier caller left.
UnpinnedOverwriting(pg, is_dirty) ==
    [pg EXCEPT !.pin_count_ = @ - 1, !.is_dirty_ = is_dirty]

\* What UnpinPage does to a pinned Page: a dirty mark is never taken back.
Unpinned(pg, is_dirty) ==
    [pg EXCEPT !.pin_count_ = @ - 1, !.is_dirty_ = @ \/ is_dirty]

\* The constructor puts every frame in the free list.
InitialFreeList == [i \in 1 .. PoolSize |-> i - 1]

-----------------------------------------------------------------------------
(* Initial state: the constructor, over files that already have pages.     *)

Init ==
    /\ pages_ = [f \in Frames |-> [id_ |-> NoPage, data_ |-> Zero,
                                   is_dirty_ |-> FALSE, pin_count_ |-> 0]]
    /\ page_table_ = [p \in PageIds |-> INVALID_FRAME_ID]
    /\ free_list_ = InitialFreeList
    /\ LRUlist_ = <<>>
    /\ fd2pageno_ \in [Fds -> 0 .. MaxPages]
    /\ disk \in [Locations -> Data]
    /\ \A l \in Locations : l.offset >= fd2pageno_[l.fd] => disk[l] = Zero
    /\ handle = [c \in Clients |-> Idle]
    /\ retired = {}

-----------------------------------------------------------------------------
(* FetchPage                                                               *)

\* Callers ask for pages of the file only, and not for one they deleted.
MayFetch(c, p) ==
    /\ handle[c] = Idle
    /\ p \in Allocated
    /\ p \in retired => "refetchDeleted" \in Misuse

FetchHit(c, p) ==
    /\ MayFetch(c, p)
    /\ Cached(p)
    /\ LET f == FrameOf(p) IN
        /\ LRUlist_' = ReplacerPin(LRUlist_, f)
        /\ pages_' = [pages_ EXCEPT ![f].pin_count_ = @ + 1]
        /\ handle' = [handle EXCEPT ![c] = [page |-> p, frame |-> f, wrote |-> FALSE]]
    /\ UNCHANGED <<page_table_, free_list_, disk, fd2pageno_, retired>>

\* The requested page is not cached and a frame is there for it.  (With no
\* frame FetchPage returns nullptr and changes nothing.)
FetchMiss(c, p) ==
    /\ MayFetch(c, p)
    /\ ~Cached(p)
    /\ HasFrame
    /\ LET f == TakenFrame
           old == pages_[f].id_
           written == IF NeedsWriteBack(f) THEN write_page(old, pages_[f].data_) ELSE disk
       IN
        /\ ~WriteBackThrows(f)
        /\ Seekable(p)
        /\ free_list_' = FreeListAfter
        /\ LRUlist_' = ReplacerPin(LRUlistAfter, f)
        /\ disk' = written
        /\ page_table_' = Remap(old, p, f)
        /\ pages_' = [pages_ EXCEPT ![f] = [id_ |-> p, data_ |-> written[Location(p)],
                                            is_dirty_ |-> FALSE, pin_count_ |-> 1]]
        /\ handle' = [handle EXCEPT ![c] = [page |-> p, frame |-> f, wrote |-> FALSE]]
    /\ UNCHANGED <<fd2pageno_, retired>>

\* Writing back the old page throws: the frame has left its list already.
FetchThrowsOnWrite(c, p) ==
    /\ MayFetch(c, p)
    /\ ~Cached(p)
    /\ HasFrame
    /\ WriteBackThrows(TakenFrame)
    /\ free_list_' = FreeListAfter
    /\ LRUlist_' = LRUlistAfter
    /\ UNCHANGED <<pages_, page_table_, disk, fd2pageno_, handle, retired>>

\* Reading the new page throws: the page is mapped, zeroed and not pinned,
\* and the frame is in no list.
FetchThrowsOnRead(c, p) ==
    /\ MayFetch(c, p)
    /\ ~Cached(p)
    /\ HasFrame
    /\ LET f == TakenFrame
           old == pages_[f].id_
       IN
        /\ ~WriteBackThrows(f)
        /\ ~Seekable(p)
        /\ free_list_' = FreeListAfter
        /\ LRUlist_' = LRUlistAfter
        /\ disk' = IF NeedsWriteBack(f) THEN write_page(old, pages_[f].data_) ELSE disk
        /\ page_table_' = Remap(old, p, f)
        /\ pages_' = [pages_ EXCEPT ![f].id_ = p, ![f].data_ = Zero, ![f].is_dirty_ = FALSE]
    /\ UNCHANGED <<fd2pageno_, handle, retired>>

-----------------------------------------------------------------------------
(* NewPage                                                                 *)

NewPage(c, fd) ==
    /\ handle[c] = Idle
    /\ fd2pageno_[fd] < MaxPages
    /\ HasFrame
    /\ LET f == TakenFrame
           old == pages_[f].id_
           p == [fd |-> fd, page_no |-> fd2pageno_[fd]]
           \* the page_table_ is asked for the frame that is written and cleaned
           g == IF NeedsWriteBack(f) THEN FrameOf(old) ELSE f
       IN
        /\ ~WriteBackThrows(f)
        /\ free_list_' = FreeListAfter
        /\ LRUlist_' = ReplacerPin(LRUlistAfter, f)
        /\ AllocatePage(fd)
        /\ disk' = IF NeedsWriteBack(f) THEN write_page(old, pages_[g].data_) ELSE disk
        /\ page_table_' = Remap(old, p, f)
        /\ pages_' = [x \in Frames |->
                         IF x = f
                         THEN [id_ |-> p, data_ |-> Zero, pin_count_ |-> 1,
                               is_dirty_ |-> pages_[f].is_dirty_
                                             /\ ~(NeedsWriteBack(f) /\ g = f)]
                         ELSE IF x = g THEN [pages_[g] EXCEPT !.is_dirty_ = FALSE]
                         ELSE pages_[x]]
        /\ handle' = [handle EXCEPT ![c] = [page |-> p, frame |-> f, wrote |-> FALSE]]
    /\ UNCHANGED retired

\* Writing back the old page throws: the page number is used up and the frame
\* has left its list.
NewPageThrows(c, fd) ==
    /\ handle[c] = Idle
    /\ fd2pageno_[fd] < MaxPages
    /\ HasFrame
    /\ WriteBackThrows(TakenFrame)
    /\ free_list_' = FreeListAfter
    /\ LRUlist_' = LRUlistAfter
    /\ AllocatePage(fd)
    /\ UNCHANGED <<pages_, page_table_, disk, handle, retired>>

-----------------------------------------------------------------------------
(* Use of a page, UnpinPage                                                *)

\* A client writes through the pointer it was given, without a latch.
WriteData(c, v) ==
    /\ handle[c] # Idle
    /\ pages_' = [pages_ EXCEPT ![handle[c].frame].data_ = v]
    /\ handle' = [handle EXCEPT ![c].wrote = TRUE]
    /\ UNCHANGED <<page_table_, lists, disk, fd2pageno_, retired>>

\* UnpinPage(page, is_dirty).  A caller that wrote says so, unless the page
\* was flushed since.  The call returns FALSE, and changes nothing in the
\* pool, when the page is not in the table or its pin count is 0.
UnpinPage(c, is_dirty) ==
    /\ handle[c] # Idle
    /\ handle[c].wrote => is_dirty
    /\ LET p == handle[c].page
           f == FrameOf(p)
       IN IF Cached(p) /\ pages_[f].pin_count_ > 0
          THEN /\ pages_' = [pages_ EXCEPT ![f] = Unpinned(@, is_dirty)]
               /\ LRUlist_' = IF pages_[f].pin_count_ = 1
                              THEN ReplacerUnpin(LRUlist_, f) ELSE LRUlist_
          ELSE UNCHANGED <<pages_, LRUlist_>>
    /\ handle' = [handle EXCEPT ![c] = Idle]
    /\ UNCHANGED <<page_table_, free_list_, disk, fd2pageno_, retired>>

-----------------------------------------------------------------------------
(* FlushPage, FlushAllPages, DeletePage                                    *)

\* The clients of the frames in F have their writes on disk.
Saved(F) ==
    [c \in Clients |-> [handle[c] EXCEPT !.wrote = @ /\ handle[c].frame \notin F]]

\* Written whether dirty or not, pinned or not.  (FALSE when not cached.)
FlushPage(p) ==
    /\ Cached(p)
    /\ Seekable(p)
    /\ disk' = write_page(p, pages_[FrameOf(p)].data_)
    /\ pages_' = [pages_ EXCEPT ![FrameOf(p)].is_dirty_ = FALSE]
    /\ handle' = Saved({FrameOf(p)})
    /\ UNCHANGED <<page_table_, lists, fd2pageno_, retired>>

\* Every frame whose id_ is of file fd is written, in frame order, whether the
\* page table still knows it or not, up to the first one lseek rejects.
FlushAllPages(fd) ==
    LET OfFile == {f \in Frames : pages_[f].id_.fd = fd
                                  /\ pages_[f].id_.page_no # INVALID_PAGE_ID}
        Flushed == {f \in OfFile : \A g \in OfFile : g <= f => Seekable(pages_[g].id_)}
        WrittenAt(l) == {f \in Flushed : Location(pages_[f].id_) = l}
    IN
    /\ disk' = [l \in Locations |->
                   IF WrittenAt(l) = {} THEN disk[l] ELSE pages_[Max(WrittenAt(l))].data_]
    /\ pages_' = [f \in Frames |->
                     IF f \in Flushed THEN [pages_[f] EXCEPT !.is_dirty_ = FALSE]
                     ELSE pages_[f]]
    /\ handle' = Saved(Flushed)
    /\ UNCHANGED <<page_table_, lists, fd2pageno_, retired>>

\* DeletePage of a cached page.  The id_ of the frame is not reset, and a
\* pinned page is refused only after it was handed to the replacer.
DeletePage(p) ==
    /\ Cached(p)
    /\ pages_[FrameOf(p)].pin_count_ # 0 => "deletePinned" \in Misuse
    /\ LET f == FrameOf(p) IN
        \/ /\ pages_[f].pin_count_ # 0
           /\ LRUlist_' = ReplacerUnpin(ReplacerPin(LRUlist_, f), f)
           /\ UNCHANGED <<pages_, page_table_, free_list_, disk, retired>>
        \/ /\ pages_[f].pin_count_ = 0
           /\ Seekable(p)
           /\ LRUlist_' = ReplacerPin(LRUlist_, f)
           /\ disk' = write_page(p, pages_[f].data_)
           /\ page_table_' = [page_table_ EXCEPT ![p] = INVALID_FRAME_ID]
           /\ pages_' = [pages_ EXCEPT ![f].is_dirty_ = FALSE, ![f].data_ = Zero]
           /\ free_list_' = Append(free_list_, f)
           /\ retired' = retired \cup {p}
    /\ UNCHANGED <<fd2pageno_, handle>>

\* Writing the page throws: the frame has left the replacer.
DeletePageThrows(p) ==
    /\ Cached(p)
    /\ pages_[FrameOf(p)].pin_count_ = 0
    /\ ~Seekable(p)
    /\ LRUlist_' = ReplacerPin(LRUlist_, FrameOf(p))
    /\ UNCHANGED <<pages_, page_table_, free_list_, disk, fd2pageno_, handle, retired>>

-----------------------------------------------------------------------------

Next ==
    \/ \E c \in Clients, p \in PageIds :
          \/ FetchHit(c, p)
          \/ FetchMiss(c, p)
          \/ FetchThrowsOnWrite(c, p)
          \/ FetchThrowsOnRead(c, p)
    \/ \E c \in Clients, fd \in Fds : NewPage(c, fd) \/ NewPageThrows(c, fd)
    \/ \E c \in Clients, v \in Data : WriteData(c, v)
    \/ \E c \in Clients, d \in BOOLEAN : UnpinPage(c, d)
    \/ \E p \in PageIds : FlushPage(p) \/ DeletePage(p) \/ DeletePageThrows(p)
    \/ \E fd \in Fds : FlushAllPages(fd)

Spec == Init /\ [][Next]_vars

-----------------------------------------------------------------------------
(* Invariants                                                              *)

InFreeList(f) == Listed(free_list_, f)
InReplacer(f) == Listed(LRUlist_, f)

\* A frame is offered for reuse at most once: neither list has a frame twice
\* and no frame is in both.  Otherwise FetchPage or NewPage would give the same
\* frame to two pages.
ReuseIsExclusive ==
    /\ IsInjective(free_list_)
    /\ IsInjective(LRUlist_)
    /\ \A f \in Frames : ~(InFreeList(f) /\ InReplacer(f))

\* No frame is taken from a client: a frame in a list has no pin.  This is
\* what Replacer::Pin promises (replacer.h: a pinned frame "should not be
\* victimized until it is unpinned").
PinnedIsNotReusable ==
    \A f \in Frames : InFreeList(f) \/ InReplacer(f) => pages_[f].pin_count_ = 0

\* No frame is lost to the pool: one that nobody pins is in a list, unless its
\* page is one whose I/O throws (FetchPage and DeletePage then leave the frame
\* in no list).
UnpinnedIsReusable ==
    \A f \in Frames :
        pages_[f].pin_count_ = 0 /\ ~InFreeList(f) /\ ~InReplacer(f)
            => ~Seekable(pages_[f].id_)

\* The page table and the id_ fields describe the same placement: the table
\* leads to a frame that holds the page and is not free, and every frame that
\* is not free is found under its id_.
PageTableMatchesFrames ==
    /\ \A p \in PageIds : Cached(p) => /\ pages_[FrameOf(p)].id_ = p
                                      /\ ~InFreeList(FrameOf(p))
    /\ \A f \in Frames : ~InFreeList(f) => /\ Cached(pages_[f].id_)
                                          /\ FrameOf(pages_[f].id_) = f

\* A client's pointer stays good while it holds its pin: the page is still in
\* the frame the pointer leads to, so its UnpinPage will be accepted, and a
\* frame's pin count is the number of clients that use it.
PinsProtectFrames ==
    /\ \A c \in Clients : handle[c] # Idle => /\ Cached(handle[c].page)
                                             /\ FrameOf(handle[c].page) = handle[c].frame
    /\ \A f \in Frames : pages_[f].pin_count_ = Cardinality(Users(f))

\* Dropping a clean frame loses nothing: a cached page that is neither marked
\* dirty nor being written by a client that has yet to say so equals its copy
\* on disk.
CleanPagesOnDisk ==
    \A p \in PageIds :
        Cached(p) /\ Seekable(p) /\ ~pages_[FrameOf(p)].is_dirty_
            => \/ pages_[FrameOf(p)].data_ = read_page(p)
               \/ \E c \in Users(FrameOf(p)) : handle[c].wrote

\* What a frame in the free list still says is harmless: it is clean, and the
\* page its id_ names was deleted (DeletePage does not reset id_) and is neither
\* cached nor ever fetched again; cached pages are pages of their file.
StaleIdsAreDead ==
    /\ \A f \in Frames : InFreeList(f) => /\ ~pages_[f].is_dirty_
                                         /\ pages_[f].id_ \in retired \cup {NoPage}
    /\ \A p \in PageIds : Cached(p) => p \in Allocated \ retired
    /\ retired \subseteq Allocated

\* The pool's records of which page is where and who uses it agree, while callers
\* keep the rules: the parts above together, which are inductive only so.  After
\* any fetches, evictions, deletions and exceptions no frame is offered twice or
\* taken from a client, and no leftover id of a deleted page leads anywhere.
PlacementInv ==
    /\ TypeOK
    /\ ReuseIsExclusive
    /\ PinnedIsNotReusable
    /\ PageTableMatchesFrames
    /\ PinsProtectFrames
    /\ StaleIdsAreDead

-----------------------------------------------------------------------------
(* The pool implements a store of pages (refinement).                      *)

Pages == {p \in PageIds : Seekable(p)}

\* What a reader of page p sees: the cached copy, else the one on disk.
Content(p) ==
    IF p \in retired THEN Zero
    ELSE IF Cached(p) THEN pages_[FrameOf(p)].data_ ELSE read_page(p)

Store == INSTANCE PageStore WITH
    content <- [p \in Pages |-> Content(p)],
    open <- [c \in Clients |-> IF handle[c].page \in Pages THEN handle[c].page ELSE NoPage],
    allocated <- Allocated \cap Pages

\* Caching is invisible: whatever is fetched, evicted, flushed or deleted in
\* between, a page (whose I/O does not throw) holds what was last written to
\* it, and NewPage hands out a zeroed page that nobody was given before.
ImplementsPageStore == Store!Spec
=============================================================================
