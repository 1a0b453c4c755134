----------------------------- MODULE SmCatalog -----------------------------
(***************************************************************************)
(* The catalog: SmManager (system/sm_manager.cpp) with the files RmManager *)
(* and IxManager create, open, close and destroy through DiskManager, and  *)
(* the pages of those files that the buffer pool holds.                    *)
(*                                                                         *)
(* Three things have to agree: the catalog in memory (db_), db.meta, which *)
(* only create_db and close_db write, and the files, which every statement *)
(* changes at once.  Between the catalog and the pages stands the          *)
(* descriptor of a file: the pool names pages by it and keeps them when    *)
(* the file is closed, and the system gives the number away again.         *)
(*                                                                         *)
(* A table has at most one page of records, an index a tree of one leaf;   *)
(* the pool never fills up, so nothing is evicted (BufferPool is about     *)
(* that).  A record is its key.                                            *)
(***************************************************************************)
EXTENDS Integers, SequencesExt

CONSTANTS
    Tables,     \* table names
    Cols,       \* columns of every table that statements index
    Rows,       \* records
    Junk,       \* the bytes of a slot that holds no record
    Fds,        \* descriptors that are left for the files
    MaxFrames   \* bound: frames of the pool that are used

NoCol == "table"  \* in the path of a record file

ASSUME CatalogAssumption ==
    /\ IsFiniteSet(Cols) /\ NoCol \notin Cols
    /\ Junk \notin Rows
    /\ MaxFrames \in Nat

VARIABLES
    up,        \* the server process runs
    meta,      \* db.meta on disk
    db_,       \* the catalog in memory: table -> its indexed columns
    files,     \* the directory: path -> contents
    handles,   \* fhs_ and ihs_: path -> descriptor and file header
    path2fd_,  \* DiskManager's open files (fd2path_ is its inverse)
    pool,      \* the frames in use, in the order of their numbers
    rows,      \* history: the records each table was given
    intact,    \* history: files whose records close_db is known to have saved
    dropped,   \* history: files of db.meta destroyed since it was written
    crashed    \* history: the process has died at least once

disk == <<meta, files>>
process == <<up, db_, handles, path2fd_, pool>>
history == <<rows, intact, dropped, crashed>>
vars == <<disk, process, history>>

-----------------------------------------------------------------------------
(* Paths, pages and frames                                                 *)

TabPath(t) == [tab |-> t, col |-> NoCol]
IxPath(t, c) == [tab |-> t, col |-> c]

\* The files a catalog names.
FilesOf(tabs) == {TabPath(t) : t \in DOMAIN tabs}
                 \cup UNION {{IxPath(t, c) : c \in tabs[t]} : t \in DOMAIN tabs}

FILE_HDR_PAGE == 0
FIRST_RECORD_PAGE == 1
IX_INIT_ROOT_PAGE == 2
IX_INIT_NUM_PAGES == 3
Pages == {FILE_HDR_PAGE, FIRST_RECORD_PAGE, IX_INIT_ROOT_PAGE}

\* A page is a header (num_pages) or the records or entries it holds.
ZeroPage == [num_pages |-> 0, rows |-> {}]
HdrPage(n) == [ZeroPage EXCEPT !.num_pages = n]
NewFile(n) == [p \in Pages |-> IF p = FILE_HDR_PAGE THEN HdrPage(n) ELSE ZeroPage]

\* page_table_ keeps the first frame it was told for an id: insert() does not
\* replace an entry (and without evictions no entry is erased).
FramesOf(pl, fd, n) == {i \in DOMAIN pl : pl[i].fd = fd /\ pl[i].page = n}
InPool(pl, fd, n) == FramesOf(pl, fd, n) # {}
FrameOf(pl, fd, n) == Min(FramesOf(pl, fd, n))
Untouched(pl, fd) == \A i \in DOMAIN pl : pl[i].fd # fd

\* BufferPoolManager::NewPage and FetchPage, of page n of the file p open as fd.
NewPage(pl, fd, n) == Append(pl, [fd |-> fd, page |-> n, data |-> ZeroPage])
FetchPage(pl, fs, p, fd, n) ==
    IF InPool(pl, fd, n) THEN pl
    ELSE Append(pl, [fd |-> fd, page |-> n, data |-> fs[p][n]])

\* What a user of the pool reads of a page, and a change to a fetched page.
Data(pl, fs, p, fd, n) ==
    IF InPool(pl, fd, n) THEN pl[FrameOf(pl, fd, n)].data ELSE fs[p][n]
AddRows(pl, fd, n, rs) == [pl EXCEPT ![FrameOf(pl, fd, n)].data.rows = @ \cup rs]
CutRow(pl, fd, n, r) == [pl EXCEPT ![FrameOf(pl, fd, n)].data.rows = @ \ {r}]

\* FlushAllPages: every frame with the descriptor is written, in order.
Flushed(pl, fd, file) ==
    [n \in Pages |-> IF InPool(pl, fd, n) THEN pl[Max(FramesOf(pl, fd, n))].data ELSE file[n]]

\* Mutant: the pages in the pool are left to be written later.
ClosedUnflushed(pl, h, file) ==
    [file EXCEPT ![FILE_HDR_PAGE] = HdrPage(h.num_pages)]

\* RmManager::close_file and IxManager::close_index, up to the close: the
\* header, then the pages in the pool.
Closed(pl, h, file) ==
    Flushed(pl, h.fd, [file EXCEPT ![FILE_HDR_PAGE] = HdrPage(h.num_pages)])

With(f, p, x) == [q \in DOMAIN f \cup {p} |-> IF q = p THEN x ELSE f[q]]
Without(f, ps) == Restrict(f, DOMAIN f \ ps)

\* DiskManager: a file is created past the pool and must not exist; the
\* descriptor of a file that is opened is one no open file has.
is_file(p) == p \in DOMAIN files
create_file(fs, p, num_pages) == With(fs, p, NewFile(num_pages))
destroy_file(fs, ps) == Without(fs, ps)
UnusedFds == Fds \ Range(path2fd_)
open_file(fds, p, fd) == With(fds, p, fd)
close_file(fds, ps) == Without(fds, ps)

\* db.meta holds an entry for each table, with the columns marked as indexed:
\* operator<< and operator>> of DbMeta, TabMeta and ColMeta.
WriteMeta(tabs) == {[name |-> t, indexed |-> tabs[t]] : t \in DOMAIN tabs}
ReadMeta(m) == [t \in {e.name : e \in m} |-> (CHOOSE e \in m : e.name = t).indexed]
FilesOfMeta == FilesOf(ReadMeta(meta))

-----------------------------------------------------------------------------
(* Rows as statements see them                                             *)

\* The records a scan of the table returns, if there are any.
Visible(t) ==
    LET h == handles[TabPath(t)]
    IN IF h.num_pages = 1 THEN {}
       ELSE Data(pool, files, TabPath(t), h.fd, FIRST_RECORD_PAGE).rows

Entries(t, c) ==
    Data(pool, files, IxPath(t, c), handles[IxPath(t, c)].fd, IX_INIT_ROOT_PAGE).rows

\* RmScan on the table: a scan of a file without pages reads page 0.
Scanned(pl, t) ==
    LET h == handles[TabPath(t)]
    IN FetchPage(pl, files, TabPath(t), h.fd,
                 IF h.num_pages = 1 THEN FILE_HDR_PAGE ELSE FIRST_RECORD_PAGE)

\* insert_entry of rs into the root leaf of an index, whose file is in fs.
InsertEntries(pl, fs, p, fd, rs) ==
    AddRows(FetchPage(pl, fs, p, fd, IX_INIT_ROOT_PAGE), fd, IX_INIT_ROOT_PAGE, rs)

\* insert_entry of r into every index of t: the roots that are not in the pool
\* are read, one after the other.
RootOf(pl, t, c) == FrameOf(pl, handles[IxPath(t, c)].fd, IX_INIT_ROOT_PAGE)
RootsRead(pl, t) ==
    LET absent == {c \in db_[t] : ~InPool(pl, handles[IxPath(t, c)].fd, IX_INIT_ROOT_PAGE)}
        frame(c) == [fd |-> handles[IxPath(t, c)].fd, page |-> IX_INIT_ROOT_PAGE,
                     data |-> files[IxPath(t, c)][IX_INIT_ROOT_PAGE]]
        order == SetToSeq(absent)
    IN pl \o [i \in 1 .. Cardinality(absent) |-> frame(order[i])]
InsertInIndexes(pl, t, r) ==
    LET read == RootsRead(pl, t)
    IN [i \in DOMAIN read |->
          IF \E c \in db_[t] : i = RootOf(read, t, c)
          THEN [read[i] EXCEPT !.data.rows = @ \cup {r}] ELSE read[i]]

-----------------------------------------------------------------------------
(* Starting and stopping                                                   *)

\* An exception, named by its class: the statement (or open_db) ends and leaves
\* everything as it was.
Throw(e) == e \in STRING /\ UNCHANGED vars

Init ==
    /\ up = FALSE /\ meta = WriteMeta(<<>>) /\ db_ = <<>>
    /\ files = <<>> /\ handles = <<>> /\ path2fd_ = <<>>
    /\ pool = <<>>
    /\ rows = <<>> /\ intact = {} /\ dropped = {} /\ crashed = FALSE

\* db.meta is read and every file it names is opened.
open_db ==
    /\ FilesOfMeta \subseteq DOMAIN files
    /\ up' = TRUE
    /\ db_' = ReadMeta(meta)
    /\ \E fds \in Injection(FilesOfMeta, Fds) :
        /\ path2fd_' = fds
        /\ handles' = [p \in FilesOfMeta |->
                        [fd |-> fds[p], num_pages |-> files[p][FILE_HDR_PAGE].num_pages,
                         own |-> p \in intact]]
    /\ pool' = <<>>
    /\ rows' = [t \in DOMAIN ReadMeta(meta) |-> IF t \in DOMAIN rows THEN rows[t] ELSE {}]
    /\ intact' = {}
    /\ UNCHANGED <<disk, dropped, crashed>>

\* main: a database that does not exist is created before it is opened, which
\* is the initial state.
Boot == ~up /\ open_db

\* open_file throws for a file that is gone, and main exits.
BootFails ==
    /\ ~up
    /\ ~(FilesOfMeta \subseteq DOMAIN files)
    /\ Throw("FileNotFound")

Stopped ==
    /\ up' = FALSE /\ db_' = <<>> /\ handles' = <<>> /\ path2fd_' = <<>> /\ pool' = <<>>

\* The files that are right on disk after close_db: a table not if its page 0 is
\* in the pool, from where the flush takes the old header.
Saved == {p \in DOMAIN handles : handles[p].own /\ ~InPool(pool, handles[p].fd, FILE_HDR_PAGE)}

\* Mutant: db.meta is not written.
close_dbWithoutMeta ==
    /\ up
    /\ files' = [p \in DOMAIN files |->
                  IF p \in DOMAIN handles THEN Closed(pool, handles[p], files[p]) ELSE files[p]]
    /\ Stopped
    /\ intact' = Saved
    /\ dropped' = {}
    /\ UNCHANGED <<meta, rows, crashed>>

\* SIGINT: close_db, with no statement running.
close_db ==
    /\ up
    /\ meta' = WriteMeta(db_)
    /\ files' = [p \in DOMAIN files |->
                  IF p \in DOMAIN handles THEN Closed(pool, handles[p], files[p]) ELSE files[p]]
    /\ Stopped
    /\ intact' = Saved
    /\ dropped' = {}
    /\ UNCHANGED <<rows, crashed>>

\* The process dies between two statements: what the pool holds is lost.
Crash ==
    /\ up
    /\ Stopped
    /\ rows' = <<>> /\ intact' = {}
    /\ crashed' = TRUE
    /\ UNCHANGED <<disk, dropped>>

\* It dies in drop_table: the record file is destroyed, then the index files.
CrashInDropTable(t) ==
    /\ up /\ t \in DOMAIN db_
    /\ \E cs \in SUBSET db_[t] :
        LET gone == {TabPath(t)} \cup {IxPath(t, c) : c \in cs}
        IN files' = destroy_file(files, gone) /\ dropped' = dropped \cup (gone \cap FilesOfMeta)
    /\ Stopped
    /\ rows' = <<>> /\ intact' = {}
    /\ crashed' = TRUE
    /\ UNCHANGED meta

-----------------------------------------------------------------------------
(* Statements                                                              *)

create_table(t) ==
    /\ up
    /\ \/ t \in DOMAIN db_ /\ Throw("TableExists")
       \/ t \notin DOMAIN db_ /\ is_file(TabPath(t)) /\ Throw("FileExists")
       \/ /\ t \notin DOMAIN db_ /\ ~is_file(TabPath(t))
          /\ files' = create_file(files, TabPath(t), 1)
          /\ db_' = With(db_, t, {})
          /\ \E fd \in UnusedFds :
              /\ path2fd_' = open_file(path2fd_, TabPath(t), fd)
              /\ handles' = With(handles, TabPath(t),
                                  [fd |-> fd, num_pages |-> 1, own |-> Untouched(pool, fd)])
          /\ rows' = With(rows, t, {})
          /\ UNCHANGED <<meta, up, pool, intact, dropped, crashed>>

\* drop_table, with drop_index for its indexed columns.  The pages that close
\* writes are gone with the files; their frames stay in the pool.  The name that
\* fhs_.erase is given was freed with the TabMeta; names of up to 15 characters,
\* which a string holds inside, are still there, and tables here have such names.
drop_table(t) ==
    /\ up
    /\ \/ t \notin DOMAIN db_ /\ Throw("TableNotFound")
       \/ /\ t \in DOMAIN db_
          /\ LET gone == {TabPath(t)} \cup {IxPath(t, c) : c \in db_[t]} IN
              /\ files' = destroy_file(files, gone)
              /\ path2fd_' = close_file(path2fd_, gone)
              /\ handles' = Without(handles, gone)
              /\ dropped' = dropped \cup (gone \cap FilesOfMeta)
          /\ db_' = Without(db_, {t})
          /\ rows' = Without(rows, {t})
          /\ UNCHANGED <<meta, up, pool, intact, crashed>>

\* The file is created on disk, past the pool; then the tree is filled through
\* the pool with the records of the table.  A scan of a table without records
\* returns one slot that holds none.
create_index(t, c) ==
    /\ up
    /\ \/ t \notin DOMAIN db_ /\ Throw("TableNotFound")
       \/ t \in DOMAIN db_ /\ c \in db_[t] /\ Throw("IndexExists")
       \/ t \in DOMAIN db_ /\ c \notin db_[t] /\ is_file(IxPath(t, c)) /\ Throw("FileExists")
       \/ /\ t \in DOMAIN db_ /\ c \notin db_[t] /\ ~is_file(IxPath(t, c))
          /\ \E fd \in UnusedFds, junk \in Rows \cup {Junk} :
              LET found == IF Visible(t) = {} THEN {junk} ELSE Visible(t) IN
              /\ Visible(t) # {} => junk = Junk
              /\ files' = create_file(files, IxPath(t, c), IX_INIT_NUM_PAGES)
              /\ path2fd_' = open_file(path2fd_, IxPath(t, c), fd)
              /\ pool' = InsertEntries(Scanned(pool, t), files', IxPath(t, c), fd, found)
              /\ handles' = With(handles, IxPath(t, c),
                                  [fd |-> fd, num_pages |-> IX_INIT_NUM_PAGES,
                                   own |-> Untouched(pool, fd) /\ handles[TabPath(t)].own
                                           /\ Visible(t) # {}])
          /\ Len(pool') <= MaxFrames
          /\ db_' = [db_ EXCEPT ![t] = @ \cup {c}]
          /\ UNCHANGED <<meta, up, history>>

\* Mutants: the handle stays in ihs_; col->index stays set.
drop_indexKeepsHandle(t, c) ==
    /\ up /\ t \in DOMAIN db_ /\ c \in db_[t]
    /\ files' = destroy_file(files, {IxPath(t, c)})
    /\ path2fd_' = close_file(path2fd_, {IxPath(t, c)})
    /\ dropped' = dropped \cup ({IxPath(t, c)} \cap FilesOfMeta)
    /\ db_' = [db_ EXCEPT ![t] = @ \ {c}]
    /\ UNCHANGED <<meta, up, pool, handles, rows, intact, crashed>>

drop_indexKeepsFlag(t, c) ==
    /\ up /\ t \in DOMAIN db_ /\ c \in db_[t]
    /\ files' = destroy_file(files, {IxPath(t, c)})
    /\ path2fd_' = close_file(path2fd_, {IxPath(t, c)})
    /\ handles' = Without(handles, {IxPath(t, c)})
    /\ dropped' = dropped \cup ({IxPath(t, c)} \cap FilesOfMeta)
    /\ UNCHANGED <<meta, up, db_, pool, rows, intact, crashed>>

drop_index(t, c) ==
    /\ up /\ t \in DOMAIN db_
    /\ \/ c \notin db_[t] /\ Throw("IndexNotFound")
       \/ /\ c \in db_[t]
          /\ LET gone == {IxPath(t, c)} IN
              /\ files' = destroy_file(files, gone)
              /\ path2fd_' = close_file(path2fd_, gone)
              /\ handles' = Without(handles, gone)
              /\ dropped' = dropped \cup (gone \cap FilesOfMeta)
          /\ db_' = [db_ EXCEPT ![t] = @ \ {c}]
          /\ UNCHANGED <<meta, up, pool, rows, intact, crashed>>

\* drop_index of a table that does not exist: db_.tabs_[tab_name] makes one up,
\* without columns, and get_col returns the null end of its vector.
drop_indexNoTable(t) == t \notin DOMAIN db_ /\ Crash

\* CREATE or DROP INDEX on a column the table does not have: get_col returns the
\* end of the vector, and what lies there decides.  The statement is refused or
\* ends the process (that it goes on with a column made of those bytes is not
\* followed).
NoSuchColumn(t) ==
    /\ up /\ t \in DOMAIN db_
    /\ Throw("IndexExists") \/ Throw("IndexNotFound") \/ Crash

\* INSERT: the record, then an entry for it in every index of the table.  A new
\* page is created for the first one, and then looked up by its id.
InsertRow(t, r) ==
    /\ up /\ t \in DOMAIN db_
    /\ r \notin rows[t]
    /\ LET h == handles[TabPath(t)]
           p1 == IF h.num_pages = 1 THEN NewPage(pool, h.fd, FIRST_RECORD_PAGE) ELSE pool
           p2 == FetchPage(p1, files, TabPath(t), h.fd, FIRST_RECORD_PAGE)
           p3 == AddRows(p2, h.fd, FIRST_RECORD_PAGE, {r})
       IN /\ pool' = InsertInIndexes(p3, t, r)
          /\ handles' = [handles EXCEPT ![TabPath(t)].num_pages = 2]
    /\ Len(pool') <= MaxFrames
    /\ rows' = [rows EXCEPT ![t] = @ \cup {r}]
    /\ UNCHANGED <<disk, up, db_, path2fd_, intact, dropped, crashed>>

\* DELETE of a table without an index (IxIndex has the deletion of entries).
DeleteRow(t, r) ==
    /\ up /\ t \in DOMAIN db_ /\ db_[t] = {}
    /\ r \in Visible(t)
    /\ LET fd == handles[TabPath(t)].fd
       IN pool' = CutRow(Scanned(pool, t), fd, FIRST_RECORD_PAGE, r)
    /\ Len(pool') <= MaxFrames
    /\ rows' = [rows EXCEPT ![t] = @ \ {r}]
    /\ UNCHANGED <<disk, up, db_, handles, path2fd_, intact, dropped, crashed>>

Next ==
    \/ Boot \/ BootFails \/ close_db \/ Crash
    \/ \E t \in Tables :
        \/ CrashInDropTable(t) \/ create_table(t) \/ drop_table(t)
        \/ drop_indexNoTable(t) \/ NoSuchColumn(t)
        \/ \E c \in Cols : create_index(t, c) \/ drop_index(t, c)
        \/ \E r \in Rows : InsertRow(t, r) \/ DeleteRow(t, r)

Spec == Init /\ [][Next]_vars

-----------------------------------------------------------------------------
(* Properties                                                              *)

\* While the server runs, every table and index of the catalog has its file, one
\* handle and one descriptor, the handles of two files never share a
\* descriptor, and nothing else is open: statements never find a name without a
\* handle (fhs_.at and ihs_.at would end the process).
CatalogIsBacked ==
    up => /\ FilesOf(db_) \subseteq DOMAIN files
          /\ DOMAIN handles = FilesOf(db_)
          /\ path2fd_ = [p \in FilesOf(db_) |-> handles[p].fd]
          /\ IsInjective(path2fd_)

\* As long as the process has not died, the files on disk are those of the
\* catalog: in memory while the server runs, in db.meta after a shutdown.  So a
\* restart finds every table and index again and a name that was dropped can be
\* used again.
FilesMatchCatalog ==
    ~crashed => DOMAIN files = FilesOf(IF up THEN db_ ELSE ReadMeta(meta))

\* After any crashes, the server can be started unless a file that db.meta names
\* was dropped after db.meta was written: open_db finds all others.
MissingFilesWereDropped ==
    FilesOfMeta \ DOMAIN files \subseteq dropped

\* A table shows the records it was given, and an index has an entry for exactly
\* those, in every file whose descriptor had no pages in the pool when it was
\* opened (and, for an index, that was built over a table with records).  A
\* restart keeps them, unless the table was scanned before it had a page.
OwnRowsWithFreshDescriptor ==
    up => \A t \in DOMAIN db_ :
            /\ handles[TabPath(t)].own => Visible(t) = rows[t]
            /\ \A c \in db_[t] : handles[IxPath(t, c)].own => Entries(t, c) = rows[t]

\* A table never shows a record it was not given, whatever descriptor its file
\* got: the page of records that NewPage adds for it starts empty.
TableShowsOnlyItsRows ==
    up /\ ~crashed => \A t \in DOMAIN db_ : Visible(t) \subseteq rows[t]

=============================================================================
