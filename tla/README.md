# Formal model of rmdb

TLA+ specifications, TLC configurations and TLAPS proofs for the database
management system in `src/db/rmdb/src`: a single-process, multi-threaded
relational server with a buffer pool, slotted table files, B+ tree indexes,
transactions with undo, and a SQL front end. Paths below are relative to that
directory.

* [1. The system](#1-the-system)
* [2. Modules](#2-modules)
* [3. Runs](#3-runs)
* [4. What is proved](#4-what-is-proved)
* [5. Disagreements found](#5-disagreements-found)
* [6. What is not modelled](#6-what-is-not-modelled)
* [7. Plan](#7-plan)
* [8. Running it](#8-running-it)

## 1. The system

`rmdb.cpp` accepts connections and gives each a thread (`client_handler`). The
thread parses a statement into the global `ast::parse_tree` and hands it to
`Interp::interp_sql`, which finds or begins the client's transaction, runs an
executor tree over table files and indexes, and commits by itself outside
`begin ... commit`. Nothing serialises the threads: the lock manager grants
every request without keeping it, and no executor makes one.

```
 client threads (rmdb.cpp)
   Interp (interp.h) ------ TransactionManager ---- LockManager (grants all)
     QlManager, executors          | undo
       RmFileHandle / RmScan <-----+     IxIndexHandle / IxScan
                 \                        /
               BufferPoolManager -- LRUReplacer      SmManager (catalog, files)
                       |                                   |
                   DiskManager ----------------------------+
```

| component | state it keeps | operations | hard because | correct when |
|---|---|---|---|---|
| buffer pool, `storage/buffer_pool_manager.cpp` | frames, page table, free list | FetchPage, NewPage, UnpinPage, FlushPage, FlushAllPages, DeletePage | clients share frames and write through pointers outside the latch; eviction at the limit; I/O that throws half way | a pinned frame is never reused, no frame is lost, no write is lost, table and frames agree |
| LRU replacer, `replacer/lru_replacer.cpp` | list of unpinned frames | Victim, Pin, Unpin | called from every operation of the pool | each frame is listed once |
| disk manager, `storage/disk_manager.cpp` | descriptors, next page number per descriptor | read_page, write_page, AllocatePage, create/open/close/destroy_file | offsets are `int`; numbers restart with the descriptor | a page has a location of its own |
| page latch, `common/rwlatch.cpp` | reader count, writer flag, two condition variables | WLock, WUnlock, RLock, RUnlock | lost wakeups, writer against readers | mutual exclusion, nobody sleeps on a free latch |
| table file, `record/rm_file_handle.cpp`, `rm_manager.h` | file header in memory and on disk, pages with bitmap and count, list of pages with room | insert, delete, update, get, is_record; create, open, close | list maintained from counts; header written past the pool; pins kept | the list holds exactly the pages with room; records survive restarts |
| table scan, `record/rm_scan.cpp` | a position | constructor, next, is_end | the file changes between two calls | misses no record that was there all the time, never goes back |
| transactions, `transaction/transaction_manager.cpp`, `interp.h`, `execution/` | Transaction objects, txn_map, next id, per-client id, write sets | begin, commit, abort, statements | two-step id, statements that fail half way, undo into other slots, no locks | undo restores the table; a statement runs in its own live transaction |
| B+ tree, `index/` | nodes, leaf list, file header | insert_entry, delete_entry, get_value, bounds, scan | splits, merges, readers without the latch, page numbers after a restart | keys sorted, tree balanced, leaf list complete |
| executors, `execution/` | none of their own; they change tables and indexes | insert, delete, update, select: name checks, plan, scans, joins, projection | several indexes per row, steps that throw half way, conditions turned round and fed from the left side | a query returns what it stands for; an index names the rows of its table |
| catalog, `system/sm_manager.cpp` | `db_`, `db.meta`, open handles, files | create/open/close db, create/drop table and index | meta written only at close; descriptors reused over cached pages | files, handles and meta agree; a table shows its own rows |
| scanner, `parser/lex.yy.cpp` | current buffer, position, start condition (globals) | yy_scan_string, yylex, yy_delete_buffer | compressed tables, backing up, the end of the buffer; shared by all threads | longest match, first rule; the current buffer is never one that was freed |
| parser, `parser/yacc.tab.cpp` | stacks, `ast::parse_tree` | yyparse | tables with default reductions, values above the top of the stack, stacks that cannot grow | the tree is the statement; exactly the grammar is accepted |
| server, `rmdb.cpp`, and client program | sockets, threads | accept, handle, SIGINT | socket passed by address, shared scanner and parse tree, shutdown while clients run | a client gets its own answers, and gets one |
| lock manager, clock replacer, log, recovery, checkpoint | none (stubs) | - | - | - |
| result printing | - | - | - | - |

What a test hardly reaches is listed, line by line, under `hazards` in
`PROJECT.json`, with the properties that would catch it going wrong.

## 2. Modules

Names are the code's. Each action is one call made by one thread, or the part of
it after which another thread may run; its guard states the early returns, and a
call that changes nothing (FetchPage returning `nullptr`, FlushPage of a page that
is not cached) is a stuttering step and so no action.

### LruReplacer, BufferPool, PageStore

`LruReplacer` gives Victim, Pin and Unpin as operators on the list of frames,
oldest first.

`BufferPool` is `BufferPoolManager` with that replacer and the page I/O of
`DiskManager`. All public methods hold `latch_` throughout, so each is one
action; the state is `pages_`, `page_table_`, `free_list_`, the replacer's
`LRUlist_`, the file contents `disk` and `fd2pageno_`. What interleaves is the
calls of different *clients*, a client being one pinned use of a page: it
fetches or creates the page, may write through the pointer (`WriteData`, no
latch), and unpins it. `handle[c]` is what it holds. Details kept because they
decide something:

* `page_table_.insert` leaves an entry that is there; `Remap` does too.
* `NewPage` writes back and cleans the frame the page table names for the old
  page, not the one it took over.
* `DeletePage` hands the frame to the replacer before it refuses a pinned page,
  and leaves `id_` in the frame it frees.
* `page_no * PAGE_SIZE` is an `int`: `Offset` wraps, in units of pages, at
  `2 * HalfRange`, and `lseek` rejects a negative offset. `FetchThrowsOnWrite`,
  `FetchThrowsOnRead`, `NewPageThrows` and `DeletePageThrows` are the states the
  exception leaves. Other I/O errors are not modelled.
* The `fd` of a frame that was never used is indeterminate; one value stands for
  all, as no caller asks for page -1.

Two rules of use are constants (`Misuse`): callers delete no pinned page and do
not fetch a page they deleted. Only
tests call DeletePage so far and they keep both rules.

`PageStore` is the abstract promise: a page is a cell that keeps what was last
written. `BufferPool!ImplementsPageStore` instantiates it with the cached copy,
else the one on disk, for pages that can be addressed.

### RwLatch

`ReaderWriterLatch` as a monitor: what a thread does between taking `mutex_` and
releasing it is one step; a waiting thread is in `asleep` until it is notified or
wakes for no reason. Nobody in the repository takes the latch yet, so callers are
arbitrary.

### RecordStore, RmFile, RmScan

`RmFile` is a table file over pages that keep their contents (the promise of
`PageStore`): header in memory, header on disk, header in the pool when page 0
was read through it; pages with list pointer, count, bitmap and slots; the next
page number of the disk manager. An operation is one action. The operations
leave their pages pinned, so the model keeps the set `pinned`; when it fills the
pool a fetch throws (no action) and a needed new page is a null dereference
(`insert_record_crashes`). The user of a scan of a file that has no record page
reads page 0, the header, into the pool; `close_file` writes the header and then
every cached page of the file, so that this old page 0 is what stays on disk.
`open_file` is that of the next process (the server opens existing tables only
when it starts): the handle takes whatever header it finds, and the page numbers
go on from there.

`RecordStore` is the abstract promise: records by rid, and a flag `exposed`, the
header page is in the pool. `Reopen` keeps the records of a table that is not
exposed and loses those of one that is. `ImplementsRecordStore` maps the used
slots, and page 0 in the pool, to it: the loss is stated, and nothing else is lost.

`RmScan` adds one scan. `visited` and `stable` are history variables: positions
returned, and records that were there when the scan began and still are. A scan
begun over pages that are all empty leaves `slot_no` uninitialised: any value.
Between scans the file may be closed and opened again by the next process.

### Transactions

Threads run statements against a table of one page, in which a rid is a slot and
insert_record takes the first free one. Threads interleave at each record
operation, between reading and advancing `next_txn_id_` in `Begin`, and at the
ends of statements. `delete` and `update` collect rids first (`Collect`) and then
write them one by one; `Throw` is the RedBaseError that `client_handler` reports
without ending the transaction, before a write, between two, or after the last
one (the executors log a write before they insert its index entries); `AssertFails` is the assert of `GetTransaction`.
The fields `deletes` and `before` of a transaction are history. Indexes and
several tables are in Executors.

### IxIndex

The B+ tree over pages that keep their contents. `ix` holds the nodes by page
number (parent, `num_key`, leaf links, pairs of key and rid) with `root_page`,
`first_leaf`, `last_leaf` and the next page number; the operators carry the
code's names and thread the tree through the calls in the code's order
(`insert_entry` -> `Split` -> `InsertIntoParent` -> ..., `delete_entry` ->
`CoalesceOrRedistribute` -> `Redistribute` or `Coalesce` -> ...). Both hold
`root_latch_`, so each is one action. `entries` is history. Details kept because
they decide something:

* Keys are ints of four bytes. `delete_entry` compares the lowest byte of the
  first key to see if it changed (`FirstByte`), so that a separator may stay too
  low; `insert_pairs`, as a split calls it, compares keys at *byte* distances and
  leaves out a pair whose bytes seem equal to the ones before (`SeemsEqual`,
  `Drops`).
* Inner nodes keep the pairs past `num_key`, and InternalLookup reads the first
  of them: a search may follow it into a leaf that was merged away (`Misled`).
  Operations that do are followed like all others. `strays` is history, 0 until
  one does and then the number of operations since; the properties about keys
  are claimed while it is 0.
* `lost` is history: an assert of `find_child` has failed (`InsertFails`,
  `DeleteFails`), a search has ended in a page that is no node (`EndsNowhere`, page 0
  for the key 0 of a zeroed slot), a split has dropped a pair or has overwritten
  a page in use (`Overwrites`). The model does not follow what comes after.
* Leaves are split at `GetMaxSize() - 1` and inner nodes at `GetMaxSize()`;
  leaves and inner nodes have different least sizes (`Least`), and a root leaf
  is looked at below 2.
* After the last key is deleted `root_page` is -1 and every operation throws
  (`OperationThrows`).
* The constructor adds one to what the disk manager has for the descriptor, which is
  0 in a new process: after `Reopen` page numbers are given out from 1 again.
* lower_bound may return a position past the last key of a leaf, at which
  get_rid throws (`Readable`); upper_bound returns the end of the index there.

`Tidy` drops what no operation reads: nodes no pair leads to, the links of dead
leaves, and what is left behind in leaves. The latter decides only what GetValue
answers for a key that is not there (it finds one just deleted from the end of
its leaf), of which nothing is claimed. Also left out: `num_pages` and
`first_free_page_no`, which nothing reads, and pins. A second insertion of a key
keeps the first rid; rids are named by their keys here.

### ScannerTables, Scanner

`ScannerTables` holds the arrays flex generated into `lex.yy.cpp`; `Scanner` is
`yylex` on the buffer of one statement. A step is one round of its loop: the
automaton runs until it jams (`RunToJam`, with the transitions a state inherits
through `yy_def` and `yy_meta`), backs up (`FindAction`), and the rule found is
executed. A match that took the NUL at the end of the buffer is run again without
it (`yy_get_previous_state`), or is the end of the file. The start state at the
beginning is either condition, since it survives from statement to statement.
The second half of the module states the rules of `lex.l` as languages, from
which the property defines the match a scanner has to find; it does not use the
tables. A statement is a C string, so there is no NUL inside it. Locations and
messages are left out; the value of a token is in Parser.

### ParserTables, Parser

The same for bison: the arrays of `yacc.tab.cpp`, and `yyparse` with every
semantic action, one action per shift, reduction, acceptance and error. The
statement is chosen token by token as yylex is called, so one run covers every
sequence of tokens up to a length. What a token carries is its position, which
tells two names or two literals apart. `SemValue` is the whole struct: rules copy
it, tokens overwrite one member of `yylval`, and slots above the top keep what
they held, from where the empty `optWhereClause` takes its value. The grammar of
`yacc.y` is stated a second time as a recogniser of positions (`start`, `ddl`,
`dml`, ...), and a tree can be written out again as tokens (`WriteStmt`). The
section "The stack" computes from the tables which state can lie directly on which
(`Neighbours`), and so how deep a stack can get; `StackAssumption` says that this
computation is complete, and TLC evaluates it.

### SmCatalog

`SmManager` with the files that RmManager and IxManager create, open, close and
destroy through DiskManager, and the pages of them that are in the pool. `db_` is
the catalog in memory, `meta` what `operator<<` wrote to `db.meta`, `files` the
directory, `handles` are `fhs_` and `ihs_`, `path2fd_` the open files, `pool` the
frames in the order of their numbers. A statement is one action; `Crash` is the
end of the process between statements and `CrashInDropTable` inside the one that
destroys several files. A table has at most one page of records and an index one
leaf. Details kept because they decide something:

* the pool keeps the pages of a closed file under its descriptor, and a lookup
  finds the first frame `page_table_.insert` was told;
* `FlushAllPages` writes every frame with the descriptor, in the order of the
  frames (of two frames of a page the later one stays on disk), after the header was written past the pool;
* `create_index` scans the table, and a scan of an empty table returns one slot
  that holds no record and brings page 0 into the pool;
* `drop_index` on an unknown table dereferences the end of a vector
  (`drop_indexNoTable`); an unknown column reads past it (`NoSuchColumn`).

The loops of `create_index` over the records and of an insertion over the indexes
are stated by what they do to the pool: the pages fetched, in the order of the
calls, and the entries added.

### Executors, Select

`Executors` is tables and indexes under INSERT, UPDATE, DELETE, CREATE INDEX and
DROP INDEX, one action each, which stops where a call throws. The loops over rids
and over columns are recursive functions on the number of turns. A WHERE clause has
up to `MaxConds` conditions. An index keeps the first rid of a key and is dead when
its last key is deleted, as IxIndex shows. Values are integers; `threw`, `astray` and
the field `refused` of an index are history. Details kept because they decide
something:

* A scan of a table without records returns one position all the same: past the
  slots of page 0 if the file has no record page (`filled` says which tables have),
  any position otherwise. `Views` are what a statement may see: the positions
  of the scan, and the bytes at those that hold no record. CREATE INDEX, DELETE
  and UPDATE go on with them, as the code does: the first makes an entry for the
  position, the others delete and insert the keys of its bytes. `astray` are the
  tables with an index that was created while they were empty.
* How the keys of an index lie in leaves is left open (`Divisions`): for every
  division, a scan whose lower bound lies behind the last key of a leaf throws
  (`BoundThrows`). DELETE and UPDATE then change nothing, as they collect their
  rids first.

`Select` adds the queries, which change nothing: `select_from` is an operator that
checks names, builds the plan (`Plan`: which conditions a scan takes over,
`get_indexNo`: whether it uses an index), and pulls tuples from the scans and
joins with the code's `beginTuple`, `nextTuple` and `feed`, under every view of the
tables and every division of the indexes (`Settings`). `Reference` is what
the query stands for; the result may also be an exception or a failed assert, and
SelectIsRight says when.

### Server

The main thread, the handler threads, the client programs and the sockets between
them. Threads interleave at each system call, after the buffer is set up, at each
token, before the tree is taken and before the buffer is deleted. `sockfd` is the
variable of `start_server` whose address the threads get; `cur`, `pos`,
`yy_start` and `parse_tree` are the globals of scanner and parser. A statement is
a text of token kinds, which may open a comment, close one, or be plain SQL; its
execution is one step that may throw. `LexFreed` and `LexCrashes` are what happens
to a thread whose buffer another one has replaced or freed. `reused` is history:
the clients that `accept` gave a descriptor some thread was still using
(`UsersOf`), because it had read the `sockfd` of another thread's connection. Such
a client can be sent the answer to a statement that came through the descriptor
before, so the properties about conversations are stated for the other clients.
It takes three clients.

## 3. Runs

All bounds are constants in the `.cfg` files. `MC*.cfg` pass, `Bug*.cfg` are
violated and described in section 5. Deadlock checking is off where a bound
(pages, transactions, writes, statements), the end of the text or a process that
is gone ends a behaviour; the latch, index and parser runs check it.

| run | instance | shows |
|---|---|---|
| `buffer_pool` | 2 frames, 1 file of 5 pages of which 3 can be addressed, 2 clients, 2 contents | placement (`PlacementInv`, the invariant of the proof), durability and the refinement of PageStore, over every order of calls, evictions and exceptions included; frames are lost only to the pages that cannot be addressed |
| `latch` | 3 threads, MAX_READERS 3 | exclusion, WriterGetsIn, NoLostWakeup |
| `table` | 2 record pages of 2 slots, 2 frames, 2 values, scans of the empty table included | free list, counts, refinement of RecordStore through closing and reopening; a scan among writers |
| `transactions` | 2 threads, 2 transactions of 2 writes and 1, 2 slots | statements run in a live transaction of their own, nothing is undone twice, abort restores the table exactly without deletions and the number of records with them |
| `index` | nodes of up to 3 pairs (`btree_order` 3), keys -2, -1, 0, 1, 256, 257, 10 pages, a tree of three levels to begin with, restarts, 3 operations from the first that goes astray on | keys, searches and bounds after any sequence of insertions and deletions up to the first that is led astray, the shape of the tree and the leaf list beyond it |
| `scanner` | every text of up to 3 characters of 20 kinds, of 4 characters of 9 kinds, and every keyword in 3 spellings, cut short and with a neighbour on either side | the tables and the driver match as `lex.l` says |
| `parser` | every statement of up to 12 tokens, stacks of 14 entries | the tree is the statement; exactly the grammar is accepted; the stack stays bounded |
| `catalog` | 2 tables with one column indexed, 1 record, 2 descriptors, 4 frames | catalog, handles, files and db.meta agree over shutdowns and crashes; records survive where descriptors are fresh |
| `query` | 3 tables of 1 or 2 columns and up to 1 or 2 rows, 2 values, 1 index, WHERE clauses of up to 1 condition in UPDATE and DELETE, 37 queries | indexes follow their tables; SELECT is right under every plan, view of empty tables and division into leaves |
| `server` | 2 clients with 2 and 1 statements of 3 kinds | conversations stay in step, answers are own, every statement of a served connection is answered |

Why the bounds are enough to meet the interesting cases. Two frames and three
addressable pages make every fetch of a third page an eviction; two clients can
share a page or pin the whole pool; the fourth and fifth page make every I/O call throw
where it can. Two slots per page give a page that is empty, partly full
and full; two pages give a list with a head and an end, taken apart
and put together in any order. Two threads are what the race on the id takes, a
third transaction would only repeat it. Two writes have an order to undo them in;
`bug_rollback` has a third, which the wrong undo takes. The limit of readers is not
reached in `latch`: at the limit a reader that leaves wakes one of the waiters,
and others can starve; the program's limit is UINT_MAX. The safety of the latch
is proved for every limit. `btree_order` 3 is the least the code accepts; five keys then make
a tree of three levels, and six keys on ten pages are what it takes to move a
child between inner nodes, to merge them and to lose the root. The run begins
with five keys that CREATE INDEX found in the table (`Loads`), so that three levels
are there before the pages are used up. Of the six keys 0 and
256, and 1 and 257, have equal lowest bytes; 0 is the key of a zeroed slot; -2 and
-1 have bytes that a split takes for those of a duplicate. Leaves are merged and
leftover pairs followed in many ways before the third stray operation.
The rules of `lex.l` other than keywords look at most two characters ahead or
repeat one class, so three characters meet every pair of neighbours and every
back-up, and four let a string, a number with a sign and a fraction, and a comment
end. Twelve tokens hold every production of the grammar, lists of two and three
elements, and a WHERE after each of them. No statement of any length needs more
than thirteen entries of the stack, which is proved; the run has fourteen where
the program has 200 (YYINITDEPTH), so that a stack that grows with a list is seen.
Two tables over two descriptors force a descriptor to be given away again; four
frames hold the header, the records and a leaf twice. Three tables are the least
with a join under a join; two values make each comparison come out both ways, and bounds of 2 in the WHERE
clauses lie between them. The one index is on the table with two columns and comes
and goes at any time, so that queries meet tables with and without it. Two
clients put two threads into the scanner and two connections into the race for
`sockfd`; the second statement of one client meets what the first left behind.
Symmetry is declared over client threads in `buffer_pool`, and over
descriptors and tables in `catalog`, which no action tells apart; the runs with
liveness properties use none.

Fairness. `RwLatch!FairSpec` is weak fairness of each thread's `Proceed`: a
thread that is awake gets the mutex in the end (the wait on a `std::mutex` is
finite as every holder releases it within the call), and a thread that holds the
latch releases it. Nothing is assumed about calls or spurious wakeups.
`Server!Spec` is weak fairness of each handler thread, of `Accept` and `Exit` in the
main thread, and of a client's wait for its answer: the operating system runs
threads that can run, and TCP delivers what was sent on a connection that stays.
Nothing is assumed about users (connecting, sending, leaving) or SIGINT. No other
specification states fairness: no property about the future is claimed of them.

Each property of a passing run has a mutant in `PROJECT.json`: a changed version
of one definition, as a plausible bug would change it, under which TLC finds the
property violated. The operators are in the modules, marked "Mutant".

## 4. What is proved

With TLAPS, for every value of the constants that satisfies the assumption named
in each module (`PoolAssumption`, `LatchAssumption`, `RmAssumption`,
`TxnAssumption`, `CatalogAssumption`, `ExecutorsAssumption`, `ServerAssumption`; they
give the constants their types, and say that sets of clients and threads are finite
and that names for "nothing" are not names of something). Parser has two:
`DepthAssumption`, that the stack has more than 13 entries, and `StackAssumption`,
finite facts about the arrays bison generated, which are constants of the program
and not parameters: TLC evaluates them in the `parser` run. The
statements quantify over any number of frames, pages, files, slots, clients,
threads, transactions, tables, columns, conditions and tokens; the bounds of
section 3 are gone. Every
proof has one lemma per action under a theorem `Spec => []Inv`, and the properties
follow from the invariant.

| module | theorems | hypotheses |
|---|---|---|
| `BufferPoolProofs` | `PlacementCorrect`, `TypeCorrect`, `PageTableCorrect`, `PinsProtect`, `NoFrameIsLost`; `DurableCorrect`, `CleanIsOnDisk`, `PoolImplementsStore` | callers keep the rules (`Misuse = {}`); for the last three also `NoOverrun`: `MaxPages <= 2 * HalfRange` |
| `RwLatchProofs` | `LatchFieldsCorrect`, `LatchExcludes` | none |
| `RmProofs` | `FileCorrect`, `FileListExact`, `FileImplementsStore`; with a scan: `ScanCorrect`, `ScanIsComplete`, `ScanIsForward`, `FreeListCorrect`, `CountsCorrect`, `ScanImplementsStore` | none |
| `TransactionsProofs` | `TransactionsCorrect`, `TransactionTypes`, `StatementsLive`, `OverIsOver`, `AbortIsExact`, `AbortKeepsCount` | none |
| `SmCatalogProofs` | `CatalogCorrect`, `CatalogBacked`, `FilesMatch`, `OnlyDroppedFilesMissing`, `RowsCorrect`, `OwnRows` | none |
| `ExecutorsProofs` | `ExecCorrect`, `EntriesPoint`, `IndexComplete` | none |
| `ParserProofs` | `StackCorrect`, `StackSuffices` | none |
| `ServerProofs` | `ServerCorrect`, `BufferAlive`, `AnswersOwn`, `ConversationCorrect` | none |

The arguments:

* **Placement** (`PlacementInv`). No part of it is inductive alone: that an evicted
  frame has no users (PinsProtectFrames) needs PinnedIsNotReusable; that its old id
  may be erased from the table needs PageTableMatchesFrames for a victim and
  StaleIdsAreDead for a frame from the free list, whose stale id must not be that
  of a cached page; and that a frame put in a list was in none (ReuseIsExclusive)
  needs PinnedIsNotReusable for UnpinPage, and PageTableMatchesFrames for
  DeletePage. With it UnpinnedIsReusable is inductive: each call either pins the
  frame it takes, lists it, or leaves it with a page whose offset is rejected.
* **Durability** (`DurableInv`). CleanPagesOnDisk needs that a write of one page does
  not reach another's place, which is where `NoOverrun` comes in (`LocationsApart`;
  section 5 says what happens without it), and that a page not given out yet reads
  as zeroes (`FreshReadsZero`), since NewPage zeroes its frame without marking it
  dirty. FlushAllPages also writes frames from the free list, to the place of a
  deleted page; StaleIdsAreDead makes that harmless. The refinement of `PageStore` follows action by
  action: an eviction moves a page's contents from the frame to the disk and is
  invisible, and so is a page whose offset is rejected, which the store leaves out.
* **Latch.** `FieldsMatchHolders` with the types is inductive; exclusion follows.
* **Table file** (`FileInv`). The free list is a sequence of pages without
  repetition, linked by `next_free_page_no`, that holds exactly the pages with room
  (`HasList`, with lemmas for taking its head and for pushing a page); taking a page
  off it when its last slot fills, and putting it back when a full page loses a
  record, needs CountsMatchBitmaps, and a new page must not be one of the file
  (AllocatorInStep). The header on disk is the one in memory or, after a close with
  page 0 in the pool, that of a new file (`HeaderInv`); with the latter the
  next process starts with an empty list over pages that are not empty, and they
  come back one by one as fresh pages. The used slots change as `RecordStore` says.
* **Scan** (`ScanInv`). What is carried along is that every record that is stable
  and not ahead of the scan was returned, whatever other threads insert and delete
  and whatever an uninitialised `slot_no` held.
* **Transactions** (`TxnInv` and, for each thread, `OnlyInv`). Two threads may get one
  id, so `txn_map` says little about who runs what; the types, the ownership of the
  objects statements work on and the count of begins in progress are inductive. The
  exactness of an abort is about a client that is alone, and its invariant is that
  the write set *explains* the table: undoing it from the end leads back to `before`
  (`Explained`), or, with deletions among it, to as many records. It is kept by every
  statement, by one that throws half way too, and by every step of the undo.
* **Catalog** (`CatalogInv`). Each file of the catalog exists and has its handle and its
  descriptor; on disk, a file that db.meta names and that is missing was dropped
  after the last shutdown, through crashes between statements and inside drop_table.
* **Records in the catalog** (`RowsInv`, on top of CatalogInv). A file opened on a
  fresh descriptor has at most one frame in the pool for its page, and that frame, or
  the file where there is none, holds exactly its records or entries (`OwnPage`).
  Frames of other descriptors do not matter, however many stale ones there are, and
  FlushAllPages at shutdown then writes the right page whatever the order of the
  frames; what it saved (`intact`) is what the next process reads.
* **Executors** (`ExecInv`). EntriesPointAtTheirRows and IndexHasEveryRow hold between
  statements and not inside them. Inside, `State` says it for every record but the one
  at hand, and for that one column by column (`Trusted`), unless the table is astray:
  its keys are deleted from the indexes before the record goes or changes (`Gone`), so
  that no entry is left that points at it, and it is written before entries are added
  for it. Deleting the key of a record may delete the entry of another one with the
  same key; then one of the two was refused, which is why completeness is claimed of
  indexes that refused nothing. The hard case is the table that has become empty: an
  UPDATE takes the bytes at a position without a record for one. But the indexes
  of such a table have no entry left; deleting a key from them leaves them dead, so
  that the statement throws before it can insert an entry for the position
  (`Dying`). Which positions the loops still have to visit, and that records there
  stay until then, is carried along (`Ahead`). A statement that throws half way
  leaves entries that still point at their rows, but rows without entries (`threw`).
* **Parser** (`StackInv`). The stack is a path of the automaton: each entry and the one
  below it are in `Neighbours`. A shift adds a pair of `Shifted`; a reduction uncovers a
  state that lies `yyr2[n]` under the top, by induction over the stack, and the goto
  adds a pair of `Reduced`. No path has more than 13 states although the grammar has
  lists, because they are left recursive.
* **Server** (`ServerInv`). That a waiting client has exactly one trace (its statement
  in the socket, in a thread, or its answer on the way) needs that the descriptors,
  the connections and the statements being served belong together, although
  threads may share a descriptor and a descriptor may be given away while in use.
  There is a free descriptor when accept is called because owners are distinct
  clients. That a thread alone in the scanner gets its own tree needs what
  it has read so far (`AloneOK`) and what it made of it (`ResultsOK`).

The loops of the executors and the depth of the stack need an induction over
numbers. It is made by least counterexample: `LeastNatural` (from WFMin), and from
it `LoopExists`, that a recursive function of a loop has a value, and
`LoopInvariant`, that what holds before the first turn and is kept by each holds
after the last.

The proof of the parser also found what the run could not. The 12 tokens of the run
need 12 entries of the stack; longer ones need 13, as the closure of the tables
showed: `UPDATE t SET a = 1 WHERE x = 1 AND x = t.c` is one of them.

The proof of the server found what the runs could not. With two
clients a descriptor is never given away while in use, and ConversationInStep held
for all clients in the run; for three it does not, and so the proof did not go
through. `reused` is the case it left open. An instance with three clients and one
statement of two of them (1.6 million states) was used to check `ServerInv` before it was
proved; the `server` run has two clients because its liveness check takes more.

Only model-checked:

* liveness (`WriterGetsIn`, `NoLostWakeup`, `EveryStatementIsAnswered`): temporal
  reasoning under fairness is out of the prover's reach;
* the four invariants of `IxIndex`, `LongestMatchFirstRule` of `Scanner` and
  `SelectIsRight` of `Select`: their operators are RECURSIVE (a tree descended and
  repaired, an automaton run, joins under joins), for which the prover loses its SMT
  backend;
* `TreeIsStatement` and `RejectsExactlyTheUngrammatical` of `Parser`: they compare the
  result with a recogniser and a writer of the whole statement, so that a proof is an
  induction over trees.

## 5. Disagreements found

Each is a run that TLC finds violated; `findings` in `PROJECT.json` quotes the
line of the repository that says otherwise.

| run | what happens |
|---|---|
| `bug_rollback` | undo after an undone deletion hits the wrong record |
| `bug_descriptor_reuse` | a table created after another was dropped shows the dropped table's records |

The models have other behaviours a reader should know of; changing a constant,
adding the named invariant to a `.cfg` or leaving the named condition out of a
property shows them:

* `Misuse = {"deletePinned"}`: a refused DeletePage leaves the frame of a pinned
  page in the replacer (PinnedIsNotReusable fails).
* `Misuse = {"refetchDeleted"}`: DeletePage leaves `id_` in the freed frame; after
  the page is fetched again, reuse of that frame erases it from the page table
  (PinsProtectFrames fails).
* `MaxPages > 2 * HalfRange`: the offset of a page from 2^20 on is that of another
  page (CleanPagesOnDisk fails).
* RmFile with NoPinLeftBehind: get_record, delete_record, update_record, is_record,
  create_new_page_handle and the scan never unpin their page, though
  `rm_file_handle.cpp:105` asks for it; the pool fills with pins.
* RmScan with ScanPointsAtSlot: a scan of a file without pages or without records
  does not start at its end; and one that is over continues when another thread
  adds a page, since `is_end` reads the current page count.
* Transactions with TransactionIsOwn: two threads read the same `next_txn_id_`
  (`transaction_manager.cpp:24`), the second replaces the first in `txn_map`, and
  the assert of GetTransaction stops the server.
* RmFile: after a scan of the empty table page 0 is in the pool, and close_file
  (`rm_manager.h:55`) flushes it over the header it has just written, although
  `rm_manager.h:38` says the head page never goes through the buffer. The next
  process finds the table empty: `RecordStore!Reopen` with `exposed`.
* IxIndex with `strays = 0` left out of ScanReturnsEntries: InternalLookup
  (`ix_node_handle.cpp:123`) follows a leftover pair into a leaf that was merged
  away, and a key inserted there is lost. A key that is in the tree is
  not found and not deleted when its search goes the same way (leave `Strays(k)` out
  of SearchFindsEntries). `b_plus_tree_delete_test` expects the contrary.
* IxIndex, where `lost` becomes true: a process that opens an existing
  index gives out page numbers from 1 again (`ix_index_handle.cpp:10`), and the first
  split overwrites a page in use; a split may drop a pair that it takes for a
  duplicate (`ix_node_handle.cpp:169`); the deletion of a key that was inserted into a
  leaf that had been merged away fails the assert of `find_child`; and a search that
  follows the zeroed slot of a node ends in page 0. (An insertion that fails the
  assert, `InsertFails`, is not met in the run.)
* IxIndex: lower_bound of a key past the last one of its leaf returns a position
  that get_rid refuses (`ix_index_handle.cpp:652`), so an index scan that starts there
  throws; BoundsEncloseRange says for which keys. upper_bound then returns
  the end of the index, so the scan reads on to it.
* Executors with `astray` left out of EntriesPointAtTheirRows: CREATE INDEX on an
  empty table makes an entry for a position that holds no record, after which a
  row with the key of those bytes is refused. With `threw` left out of
  IndexHasEveryRow: an UPDATE of the indexed column of a table with one row deletes the
  last key, after which the index is dead and the statement throws. A second row
  with a key that is there gets no entry and no error; Abort does not undo index
  entries (the code for it, `transaction_manager.cpp:146`, is commented out).
* Select: a join whose left table is read through an index ends the server
  (`executor_nestedloop_join.h:72` feeds the right side after the left one has ended,
  and `executor_index_scan.h:150` asserts). `select * from a where b.x = 1` ends it as
  well (`execution_manager.cpp:247` asserts that no condition is left). Both are in
  the run, and SelectIsRight says that there is no third way. A SELECT from a table
  that never had a record returns a row of leftover bytes
  (`txn_manager_test.cpp:113` expects none).
* SmCatalog: CREATE INDEX on an empty table inserts an entry for a slot that holds
  no record; two pages with one id are flushed in the order of their frames, so a
  stale page may be the one that stays on disk; after a crash db.meta may name
  files that are gone, and then the server does not start again (`BootFails`).
* Server: with two connections accepted before a thread has started, both threads
  may read the same `sockfd`, so that one connection has two threads and the other
  none (drop `Served` from EveryStatementIsAnswered); two threads in the scanner mix their
  statements or read a freed buffer (drop `alone` from AnswersAreOwn); a comment
  left open by one client swallows the next statements of all of them. When one of
  two threads that share a descriptor closes it, `accept` gives it to the next
  client, who is then sent the other thread's answer (take `reused` out of
  ConversationInStep, with three clients).
  `docs/Rucbase使用文档.md:107` says that several clients may be started at the same
  time.
* Transactions: `commit` after `abort` makes the transaction COMMITTED, and a
  select sees the writes of running transactions, as nothing is locked.

## 6. What is not modelled

* Threads inside one operation of a table file or an index, and inside `txn_map`:
  data races on page bytes and containers, which have no states to enumerate at
  this level. For the same reason index readers, which do not take `root_latch_`,
  run between the operations of writers and not inside them.
* The pins that index operations leave behind. What an index does after an assert
  has failed, a pair was dropped or a page in use was overwritten (`lost`).
* The bytes that DELETE and UPDATE change at the position a scan of an empty table
  returns: Executors follows what they do to the indexes, but the
  position is past the slots of a page, of the header page of a new file, and what
  else lies there is not modelled.
* A process that ends without closing its table files (RmFile has none; SmCatalog has
  crashes, with one page of records per table), and a file that is opened twice in
  one process, which only unit tests do.
* CREATE INDEX and DROP INDEX on an unknown column read past a vector:
  `NoSuchColumn` of SmCatalog has the refusal and the crash, and not the file that
  could be created from what is found there.
* I/O errors other than the rejected offset; short reads and writes; statements or
  answers that arrive in pieces or are longer than the buffers
  (`record_printer.h` appends to the 8192 bytes of an answer without a check).
* Lock manager (its effect, no locks, is in Transactions), clock replacer, log
  manager, recovery, checkpoint: stubs without a caller.
* Record printing, locations in messages, `ast_printer.h`, googletest (vendored);
  `lex.yy.c` and `yacc.tab.c`, which are older outputs of the generators that the
  build does not use.

## 7. Plan

Done: the storage stack (LruReplacer, BufferPool, PageStore, RwLatch, RmFile,
RecordStore, RmScan), Transactions, IxIndex, the front end (Scanner, Parser), the
catalog, the executors and the server; the proofs of section 4, which cover every
safety property but those section 4 lists as only model-checked.

Next:

1. `IxIndex`: lemmas about the node operators, kept apart from the recursive ones so
   that they can be proved; the pins of its operations composed with the pool,
   and an abstract map from keys to rids that it implements until it goes astray.
2. `Select`: one scan first (its conditions, and the range of an index that contains
   every row they select), then a join as the product of two such scans.

## 8. Running it

    tlc -config MCBufferPool.cfg MCBufferPool
    tlapm BufferPoolProofs.tla

The module and the `.cfg` of each run are in `PROJECT.json`. The longest
ones, `server`, `query`, `table` and `index`, take two to three minutes. The proofs are in the
modules named `*Proofs`; from nothing, the longest, `ServerProofs`,
`TransactionsProofs` and `BufferPoolProofs`, take a few minutes each.
