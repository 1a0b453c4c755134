------------------------------ MODULE IxIndex ------------------------------
(***************************************************************************)
(* The B+ tree index (index/): IxNodeHandle, IxIndexHandle, IxManager and  *)
(* the positions IxScan goes through.  insert_entry and delete_entry hold  *)
(* root_latch_ from beginning to end, so each is one step; the buffer pool *)
(* is taken as the store of pages that module BufferPool shows it to be.   *)
(* Operators take the tree t (its nodes and the fields of file_hdr_) and   *)
(* the page number of a node, and return the tree that results.            *)
(*                                                                         *)
(* Keys are ints of four bytes.  The code reads pairs it has left behind,  *)
(* takes pairs for duplicates by their bytes, and gives out page numbers   *)
(* again after a restart; strays and lost record when this happens.        *)
(***************************************************************************)
EXTENDS Integers, Sequences, FiniteSetsExt, TLC

LOCAL S == INSTANCE SequencesExt

CONSTANTS
    btree_order,  \* pairs a node may hold, from the sizes of page and key
    Keys,         \* keys of the indexed column
    Loads,        \* tables that CREATE INDEX may find, as the sequences of their keys,
                  \* none of which it loses
    MaxPages,     \* bound: page numbers of the index file
    MaxStrays     \* bound: operations since one followed a leftover pair, with it

ASSUME IxAssumption ==
    /\ btree_order \in Nat /\ btree_order > 2
    /\ Keys \subseteq Int /\ \A k \in Keys : k \div 2^24 \in -128 .. 127
    /\ \A rows \in Loads : \A i \in DOMAIN rows : rows[i] \in Keys
    /\ MaxPages \in Nat /\ MaxPages > 2
    /\ MaxStrays \in Nat

VARIABLES
    ix,       \* the tree: nodes by page, root_page, first_leaf, last_leaf,
              \* the page number the disk manager gives out next, and whether
              \* a split has dropped a pair
    entries,  \* history: the keys inserted and not deleted since
    strays,   \* history: the operations since one followed a leftover pair, with it
    lost      \* history: an assert has failed, a page that is no node was read
              \* as one, a split dropped a pair, or it overwrote a page in use

vars == <<ix, entries, strays, lost>>

IX_NO_PAGE == -1
IX_LEAF_HEADER_PAGE == 1
IX_INIT_ROOT_PAGE == 2
IX_INIT_NUM_PAGES == 3

GetMaxSize == btree_order + 1
GetMinSize == GetMaxSize \div 2

-----------------------------------------------------------------------------
(* Nodes.  Keys and rids always move together, as pairs.  A slot from      *)
(* num_key on keeps the pair that was last written there, and searches may *)
(* read it.                                                                *)

Slots == 0 .. GetMaxSize - 1
Zeroed == [key |-> 0, rid |-> 0]

Node(leaf, prev, next) ==
    [parent |-> IX_NO_PAGE, num_key |-> 0, is_leaf |-> leaf,
     prev_leaf |-> prev, next_leaf |-> next, pair |-> [i \in Slots |-> Zeroed]]

Live(n) == 0 .. n.num_key - 1
FirstKey(n) == n.pair[0].key
ValueAt(n, i) == n.pair[i].rid

lower_bound(n, target) ==
    Min({i \in Live(n) : n.pair[i].key >= target} \cup {n.num_key})

\* Mutant: the first key that is not below the target.
upper_bound_weak(n, target) ==
    Min({i \in Live(n) \ {0} : n.pair[i].key >= target} \cup {n.num_key})

\* The search starts at slot 1.
upper_bound(n, target) ==
    Min({i \in Live(n) \ {0} : n.pair[i].key > target} \cup {n.num_key})

\* LeafLookup, and the test of Remove: the pair in the slot has the key, also if
\* that slot is num_key and the pair was left behind.
LeafLookup(n, key) == n.pair[lower_bound(n, key)].key = key

\* Mutant: the child before the one whose first key is the key.
InternalLookupLeft(n, key) ==
    LET idx == lower_bound(n, key)
    IN ValueAt(n, IF idx = 0 THEN idx ELSE idx - 1)

InternalLookup(n, key) ==
    LET idx == lower_bound(n, key)
    IN ValueAt(n, IF n.pair[idx].key = key \/ idx = 0 THEN idx ELSE idx - 1)

\* The key is found in a leftover pair that names another child than the last.
Misled(n, key) ==
    /\ lower_bound(n, key) = n.num_key
    /\ InternalLookup(n, key) # ValueAt(n, n.num_key - 1)

insert_pair(n, pos, p) ==
    [n EXCEPT !.pair = [i \in Slots |-> IF i = pos THEN p
                                        ELSE IF i \in pos + 1 .. n.num_key THEN n.pair[i - 1]
                                        ELSE n.pair[i]]]

\* A key that is there already keeps its rid.
Insert(n, key, rid) ==
    LET pos == lower_bound(n, key)
    IN IF pos < n.num_key /\ n.pair[pos].key = key THEN n
       ELSE [insert_pair(n, pos, [key |-> key, rid |-> rid]) EXCEPT !.num_key = @ + 1]

erase_pair(n, pos) ==
    IF pos \notin Live(n) THEN n
    ELSE [n EXCEPT !.num_key = @ - 1,
                   !.pair = [i \in Slots |-> IF i \in pos .. n.num_key - 2 THEN n.pair[i + 1]
                                             ELSE n.pair[i]]]

Remove(n, key) == IF LeafLookup(n, key) THEN erase_pair(n, lower_bound(n, key)) ELSE n

\* find_child has an assert that p is a child.
find_child(n, p) == Min({i \in Live(n) : ValueAt(n, i) = p} \cup {n.num_key})

\* insert_pairs for count pairs of n from slot i on, into an empty node: a pair is
\* left out if the four bytes that begin at its number, counted in bytes, are those
\* that begin one byte before.
ByteAt(n, i, m) == (n.pair[i + m \div 4].key \div 256 ^ (m % 4)) % 256
SeemsEqual(n, i, m) == \A d \in 0 .. 3 : ByteAt(n, i, m + d) = ByteAt(n, i, m - 1 + d)
Copied(n, i, count) ==
    SelectSeq([m \in 1 .. count |-> m - 1], LAMBDA m : m = 0 \/ ~SeemsEqual(n, i, m))
insert_pairs(n, i, count) ==
    LET from == Copied(n, i, count)
    IN [m \in Slots |-> IF m < Len(from) THEN n.pair[i + from[m + 1]] ELSE Zeroed]

-----------------------------------------------------------------------------
(* The tree: searching and keeping its links.                              *)

RECURSIVE LeafBelow(_, _, _)
LeafBelow(t, p, key) ==
    IF p \notin DOMAIN t.node \/ t.node[p].is_leaf THEN p
    ELSE LeafBelow(t, InternalLookup(t.node[p], key), key)

FindLeafPage(t, key) == LeafBelow(t, t.root_page, key)

RECURSIVE MisledBelow(_, _, _)
MisledBelow(t, p, key) ==
    LET n == t.node[p]
    IN /\ p \in DOMAIN t.node /\ ~n.is_leaf
       /\ Misled(n, key) \/ MisledBelow(t, InternalLookup(n, key), key)

IsEmpty(t) == t.root_page = IX_NO_PAGE

\* The pages from p downwards, and those of the tree with the leaf header.
RECURSIVE SubTree(_, _)
SubTree(t, p) ==
    LET n == t.node[p]
    IN {p} \cup (IF n.is_leaf THEN {} ELSE UNION {SubTree(t, ValueAt(n, i)) : i \in Live(n)})

Reached(t) ==
    {IX_LEAF_HEADER_PAGE} \cup (IF IsEmpty(t) THEN {} ELSE SubTree(t, t.root_page))

\* The nodes that pairs lead to from p, those left behind included.
RECURSIVE NamedBelow(_, _)
NamedBelow(t, p) ==
    IF p \notin DOMAIN t.node THEN {}
    ELSE {p} \cup (IF t.node[p].is_leaf THEN {}
                   ELSE UNION {NamedBelow(t, ValueAt(t.node[p], i)) : i \in Slots})

\* The tree without the nodes that no pair leads to, without the links of the nodes that
\* only leftover pairs lead to, which no operation uses but to fail, and without what is
\* left behind in leaves, which matters only to what LeafLookup says of absent keys.
Tidy(t) ==
    LET reached == Reached(t)
        live(n) == [n EXCEPT !.pair = IF n.is_leaf THEN [i \in Slots |-> IF i \in Live(n) THEN @[i]
                                                                        ELSE Zeroed]
                                      ELSE @]
        dead(n) == [live(n) EXCEPT !.parent = 0, !.prev_leaf = 0, !.next_leaf = 0]
    IN [t EXCEPT !.node = [p \in reached \cup NamedBelow(t, t.root_page) |->
                             IF p \in reached THEN live(t.node[p]) ELSE dead(t.node[p])]]

\* AllocatePage and NewPage: the next page number and a page of zeros.
CreateNode(t, leaf) ==
    [t EXCEPT !.node = [p \in DOMAIN @ \cup {t.next_page} |->
                          IF p = t.next_page THEN Node(leaf, 0, 0) ELSE t.node[p]],
              !.next_page = @ + 1]

\* Mutant: the first keys of the ancestors are left as they are.
maintain_parent_skipped(t, p) == t

\* First keys on the way up, until one is right already.
RECURSIVE maintain_parent(_, _)
maintain_parent(t, p) ==
    LET up == t.node[p].parent
        rank == find_child(t.node[up], p)
        key == FirstKey(t.node[p])
    IN IF up = IX_NO_PAGE \/ t.node[up].pair[rank].key = key THEN t
       ELSE maintain_parent([t EXCEPT !.node[up].pair[rank].key = key], up)

\* maintain_child for every child of p.
maintain_child(t, p) ==
    LET children == {ValueAt(t.node[p], i) : i \in Live(t.node[p])}
    IN IF t.node[p].is_leaf THEN t
       ELSE [t EXCEPT !.node = [c \in DOMAIN t.node |->
                IF c \in children THEN [t.node[c] EXCEPT !.parent = p] ELSE t.node[c]]]

\* Mutant: only the predecessor learns that the leaf is gone.
erase_leaf_one_way(t, p) ==
    [t EXCEPT !.node[t.node[p].prev_leaf].next_leaf = t.node[p].next_leaf]

erase_leaf(t, p) ==
    [t EXCEPT !.node[t.node[p].prev_leaf].next_leaf = t.node[p].next_leaf,
              !.node[t.node[p].next_leaf].prev_leaf = t.node[p].prev_leaf]

\* The file header's ends of the leaf list, when leaf p goes.
LeafEndsWithout(t, p) ==
    [t EXCEPT !.first_leaf = IF @ = p THEN t.node[p].next_leaf ELSE @,
              !.last_leaf = IF @ = p THEN t.node[p].prev_leaf ELSE @]

-----------------------------------------------------------------------------
(* Insertion.                                                              *)

\* Pairs that stay in a node that is split.
left_num(n) == IF n.is_leaf THEN (GetMaxSize - 1) \div 2 ELSE GetMinSize

\* insert_pairs leaves out a pair of the right part.
Drops(n) == Len(Copied(n, left_num(n), GetMaxSize - GetMinSize)) < n.num_key - left_num(n)

\* The right part of p moves to a new node, at page t.next_page.
Split(t, p) ==
    LET n == t.node[p]
        q == t.next_page
        right == [CreateNode(t, n.is_leaf).node[q] EXCEPT
                    !.parent = n.parent,
                    !.num_key = n.num_key - left_num(n),
                    !.pair = insert_pairs(n, left_num(n), GetMaxSize - GetMinSize)]
        u == [CreateNode(t, n.is_leaf) EXCEPT
                !.node[p].num_key = left_num(n), !.node[q] = right,
                !.dropped = @ \/ Drops(n)]
    IN IF n.is_leaf
       THEN [u EXCEPT !.node[q].next_leaf = n.next_leaf, !.node[q].prev_leaf = p,
                      !.node[n.next_leaf].prev_leaf = q, !.node[p].next_leaf = q]
       ELSE maintain_child(u, q)

ChildPair(t, p) == [key |-> FirstKey(t.node[p]), rid |-> p]

\* A new root over p and q.
NewRoot(t, p, q) ==
    LET r == t.next_page
        u == CreateNode(t, FALSE)
        n == Insert(Insert(u.node[r], FirstKey(t.node[p]), p), FirstKey(t.node[q]), q)
    IN [u EXCEPT !.node[r] = n, !.node[p].parent = r, !.node[q].parent = r, !.root_page = r]

RECURSIVE InsertIntoParent(_, _, _)
InsertIntoParent(t, p, q) ==
    LET up == t.node[p].parent
        n == insert_pair(t.node[up], find_child(t.node[up], p) + 1, ChildPair(t, q))
        u == [t EXCEPT !.node[up] = [n EXCEPT !.num_key = @ + 1]]
    IN IF t.root_page = p THEN NewRoot(t, p, q)
       ELSE IF u.node[up].num_key < GetMaxSize THEN u
       ELSE InsertIntoParent(Split(u, up), up, u.next_page)

LeafIsFull(n) == n.num_key >= GetMaxSize - 1

\* The page a split of the leaf gives to its right half is t.next_page.
SplitLeaf(t, p) ==
    [InsertIntoParent(Split(t, p), p, t.next_page) EXCEPT
        !.last_leaf = IF @ = p THEN t.next_page ELSE @]

insert_entry(t, key, rid) ==
    LET p == FindLeafPage(t, key)
        u == [t EXCEPT !.node[p] = Insert(@, key, rid)]
        v == IF LeafIsFull(u.node[p]) THEN SplitLeaf(u, p) ELSE u
    IN IF p = v.first_leaf /\ FirstKey(v.node[p]) = key THEN maintain_parent(v, p) ELSE v

-----------------------------------------------------------------------------
(* Deletion.                                                               *)

\* Pairs below which a node takes from a brother or is merged with one.
Least(n) == IF n.is_leaf THEN GetMinSize - 1 ELSE GetMinSize

\* The first pair of the right brother becomes the last of p, or the last of
\* the left brother the first.
Redistribute(t, brother, p) ==
    LET n == t.node[p]
        b == t.node[brother]
        up == t.node[n.parent]
        fromRight == find_child(up, p) < find_child(up, brother)
        taken == IF fromRight THEN b.pair[0] ELSE b.pair[b.num_key - 1]
        grown == [insert_pair(n, IF fromRight THEN n.num_key ELSE 0, taken) EXCEPT !.num_key = @ + 1]
        u == [t EXCEPT !.node[p] = grown,
                       !.node[brother] = erase_pair(b, IF fromRight THEN 0 ELSE b.num_key - 1)]
    IN maintain_child(maintain_parent(u, IF fromRight THEN brother ELSE p), p)

\* The root lost a pair: its only child becomes the root, an empty root leaf
\* is dropped and no root is left.
AdjustRoot(t, p) ==
    LET n == t.node[p]
    IN IF ~n.is_leaf /\ n.num_key = 1
       THEN [t EXCEPT !.node[ValueAt(n, 0)].parent = IX_NO_PAGE, !.root_page = ValueAt(n, 0)]
       ELSE IF n.is_leaf /\ n.num_key = 0
       THEN [LeafEndsWithout(erase_leaf(t, p), p) EXCEPT !.root_page = IX_NO_PAGE]
       ELSE t

\* Node n has a child i that can spare a pair.
Spares(t, n, i) == i \in Live(n) /\ t.node[ValueAt(n, i)].num_key > Least(t.node[ValueAt(n, i)])

\* No brother of p can spare a pair: p is merged with one.
Merges(t, p) ==
    LET up == t.node[t.node[p].parent]
        i == find_child(up, p)
    IN ~Spares(t, up, i - 1) /\ ~Spares(t, up, i + 1)

\* The pairs of the right node move to the left one, its left brother, and its
\* place in the parent is erased; the parent may be short of children then.
RECURSIVE CoalesceOrRedistribute(_, _)
Coalesce(t, left, right) ==
    LET l == t.node[left]
        r == t.node[right]
        up == l.parent
        joined == [l EXCEPT !.num_key = @ + r.num_key,
                            !.pair = [i \in Slots |-> IF i - l.num_key \in Live(r)
                                                      THEN r.pair[i - l.num_key] ELSE l.pair[i]]]
        u == maintain_child([t EXCEPT !.node[left] = joined], left)
        v == IF r.is_leaf THEN LeafEndsWithout(erase_leaf(u, right), right) ELSE u
        w == [v EXCEPT !.node[right].num_key = 0,
                       !.node[up] = erase_pair(@, find_child(@, right))]
        x == maintain_parent(w, left)
    IN IF x.node[up].num_key < GetMinSize THEN CoalesceOrRedistribute(x, up) ELSE x

CoalesceOrRedistribute(t, p) ==
    LET n == t.node[p]
        up == t.node[n.parent]
        i == find_child(up, p)
    IN IF n.parent = IX_NO_PAGE THEN AdjustRoot(t, p)
       ELSE IF n.num_key >= Least(n) THEN t
       ELSE IF Merges(t, p) THEN IF i > 0 THEN Coalesce(t, ValueAt(up, i - 1), p)
                                 ELSE Coalesce(t, p, ValueAt(up, 1))
       ELSE Redistribute(t, ValueAt(up, IF Spares(t, up, i - 1) THEN i - 1 ELSE i + 1), p)

\* What delete_entry compares of a key: its lowest byte.
FirstByte(key) == key % 256

\* Node p is a child of its parent, as the assert of find_child demands.
IsChild(t, p) ==
    LET up == t.node[p].parent
    IN up \in DOMAIN t.node /\ \E i \in Live(t.node[up]) : ValueAt(t.node[up], i) = p

\* The removal of the key from its leaf, and what is left to do.
Removal(t, key) ==
    LET p == FindLeafPage(t, key)
        before == t.node[p]
        after == Remove(before, key)
    IN [leaf |-> p, before |-> before, tree |-> [t EXCEPT !.node[p] = after],
        done |-> after.num_key # before.num_key,
        short |-> after.num_key < (IF before.parent = IX_NO_PAGE THEN 2 ELSE Least(before))]

\* The leaf's separators are corrected if the first byte of its first key has
\* changed, unless the leaf was merged, which has done it.  (For a leaf that is the
\* root there is nothing to correct.)
delete_entry(t, key) ==
    LET r == Removal(t, key)
        v == IF r.short THEN CoalesceOrRedistribute(r.tree, r.leaf) ELSE r.tree
        is_delete == r.short /\ r.before.parent # IX_NO_PAGE /\ Merges(r.tree, r.leaf)
    IN IF ~r.done THEN t
       ELSE IF FirstByte(FirstKey(r.before)) # FirstByte(FirstKey(v.node[r.leaf])) /\ ~is_delete
       THEN maintain_parent(v, r.leaf) ELSE v

\* The asserts in the two operations that fail: those of find_child, for a leaf that
\* has been merged away.
InsertFails(t, key) ==
    LET p == FindLeafPage(t, key)
    IN LeafIsFull(Insert(t.node[p], key, key)) /\ t.root_page # p /\ ~IsChild(t, p)
DeleteFails(t, key) ==
    LET r == Removal(t, key)
        changed == FirstByte(FirstKey(r.before)) # FirstByte(FirstKey(r.tree.node[r.leaf]))
    IN r.done /\ (r.short \/ changed) /\ r.before.parent # IX_NO_PAGE /\ ~IsChild(t, r.leaf)

-----------------------------------------------------------------------------
(* Reading: positions (Iid) and the scan over them.                        *)

Iid(p, slot) == [page_no |-> p, slot_no |-> slot]
leaf_begin(t) == Iid(t.first_leaf, 0)
leaf_end(t) == Iid(t.last_leaf, t.node[t.last_leaf].num_key)

LowerBound(t, key) == LET p == FindLeafPage(t, key) IN Iid(p, lower_bound(t.node[p], key))

\* Past the last key of a leaf, this is the end of the index, not the next leaf.
UpperBound(t, key) ==
    LET p == FindLeafPage(t, key)
        key_idx == upper_bound(t.node[p], key)
    IN IF key_idx = t.node[p].num_key THEN leaf_end(t) ELSE Iid(p, key_idx)

\* IxScan::next()
ScanNext(t, iid) ==
    LET n == t.node[iid.page_no]
    IN IF iid.page_no # t.last_leaf /\ iid.slot_no + 1 = n.num_key THEN Iid(n.next_leaf, 0)
       ELSE Iid(iid.page_no, iid.slot_no + 1)

\* get_rid finds a pair at iid, and next()'s asserts hold there.
Readable(t, iid) ==
    /\ t.node[iid.page_no].is_leaf
    /\ iid.slot_no \in Live(t.node[iid.page_no])

\* The positions a scan from iid to end goes through: it ends at end, at a
\* position it cannot read, or when it has gone through more than all keys.
RECURSIVE ScanFrom(_, _, _, _)
ScanFrom(t, iid, end, limit) ==
    IF iid = end \/ ~Readable(t, iid) \/ limit = 0 THEN <<>>
    ELSE <<iid>> \o ScanFrom(t, ScanNext(t, iid), end, limit - 1)

Scan(t, from, to) == ScanFrom(t, from, to, Cardinality(Keys) + 1)

PairAt(t, iid) == t.node[iid.page_no].pair[iid.slot_no]

-----------------------------------------------------------------------------
(* The file and its users.                                                 *)

\* create_index and the first open_index.
Created ==
    [node |-> [p \in {IX_LEAF_HEADER_PAGE, IX_INIT_ROOT_PAGE} |->
                 LET other == IX_LEAF_HEADER_PAGE + IX_INIT_ROOT_PAGE - p
                 IN Node(TRUE, other, other)],
     root_page |-> IX_INIT_ROOT_PAGE,
     first_leaf |-> IX_INIT_ROOT_PAGE,
     last_leaf |-> IX_INIT_ROOT_PAGE,
     next_page |-> IX_INIT_NUM_PAGES,
     dropped |-> FALSE]

\* CREATE INDEX inserts the keys of the rows that the table has.
Init ==
    /\ \E rows \in Loads :
         /\ ix = Tidy(S!FoldLeft(LAMBDA t, k : insert_entry(t, k, k), Created, rows))
         /\ entries = {rows[i] : i \in DOMAIN rows}
    /\ strays = 0 /\ lost = FALSE

\* The search for the key follows a leftover pair; it ends in a page that is no node.
Strays(key) == MisledBelow(ix, ix.root_page, key)
EndsNowhere(key) == FindLeafPage(ix, key) \notin DOMAIN ix.node

\* The model does not follow what comes after.
Loses ==
    /\ lost' = TRUE
    /\ UNCHANGED <<ix, entries, strays>>

Succeeds(key, t) ==
    /\ t.next_page <= MaxPages + 1
    /\ ix' = Tidy(t)
    /\ strays' = IF strays > 0 \/ Strays(key) THEN strays + 1 ELSE 0
    /\ UNCHANGED lost

\* The leaf is split, and the number of the new page is that of a node.
Overwrites(key) ==
    /\ LeafIsFull(Insert(ix.node[FindLeafPage(ix, key)], key, key))
    /\ ix.next_page \in DOMAIN ix.node

\* The rid stored with a key is named by the key.
InsertEntry(key) ==
    /\ ~lost /\ ~IsEmpty(ix) /\ strays < MaxStrays
    /\ LET t == insert_entry(ix, key, key)
       IN IF EndsNowhere(key) \/ InsertFails(ix, key) \/ Overwrites(key) \/ t.dropped THEN Loses
          ELSE /\ Succeeds(key, t)
               /\ entries' = entries \cup {key}

DeleteEntry(key) ==
    /\ ~lost /\ ~IsEmpty(ix) /\ strays < MaxStrays
    /\ IF EndsNowhere(key) \/ DeleteFails(ix, key) THEN Loses
       ELSE /\ Succeeds(key, delete_entry(ix, key))
            /\ entries' = entries \ {key}

\* FindLeafPage fetches page -1 and the disk manager throws.
OperationThrows ==
    /\ IsEmpty(ix)
    /\ UNCHANGED vars

\* close_index, which writes file_hdr_ and the cached pages, the end of the process,
\* and open_index in the next one: the constructor adds one to what the disk manager
\* has for the descriptor, which is 0 there.
Reopen ==
    /\ ~lost
    /\ ix' = [ix EXCEPT !.next_page = 1]
    /\ UNCHANGED <<entries, strays, lost>>

Next ==
    \/ \E key \in Keys : InsertEntry(key) \/ DeleteEntry(key)
    \/ OperationThrows
    \/ Reopen
    \/ lost /\ UNCHANGED vars

Spec == Init /\ [][Next]_vars

-----------------------------------------------------------------------------
(* Properties.                                                             *)

\* Nodes have at most btree_order pairs, with keys of the column; page numbers
\* are those of the file.
TypeOK ==
    /\ DOMAIN ix.node \subseteq 1 .. MaxPages
    /\ \A p \in DOMAIN ix.node :
         LET n == ix.node[p]
         IN /\ n.parent \in 0 .. MaxPages \cup {IX_NO_PAGE}
            /\ n.num_key \in 0 .. btree_order
            /\ n.is_leaf \in BOOLEAN
            /\ n.prev_leaf \in 0 .. MaxPages /\ n.next_leaf \in 0 .. MaxPages
            /\ DOMAIN n.pair = Slots
            /\ \A i \in Live(n) :
                 /\ n.pair[i].key \in Keys
                 /\ n.pair[i].rid \in (IF n.is_leaf THEN Keys ELSE DOMAIN ix.node)
    /\ ix.root_page \in DOMAIN ix.node \cup {IX_NO_PAGE}
    /\ {ix.first_leaf, ix.last_leaf} \subseteq DOMAIN ix.node
    /\ ix.next_page \in 1 .. MaxPages + 1
    /\ entries \subseteq Keys /\ strays \in 0 .. MaxStrays /\ lost \in BOOLEAN

Tree == Reached(ix) \ {IX_LEAF_HEADER_PAGE}
Leaves == {p \in Tree : ix.node[p].is_leaf}

RECURSIVE Depth(_)
Depth(p) == IF ix.node[p].parent = IX_NO_PAGE THEN 0 ELSE 1 + Depth(ix.node[p].parent)

\* After any sequence of insertions and deletions, with their splits, merges and moves
\* between brothers, none of which was led astray or lost anything, a scan from
\* leaf_begin() to leaf_end() returns each key that is in the index once, in order and
\* with its own rid.
ScanReturnsEntries ==
    LET pos == Scan(ix, leaf_begin(ix), leaf_end(ix))
        read == [i \in 1 .. Len(pos) |-> PairAt(ix, pos[i])]
    IN ~lost /\ strays = 0 =>
         /\ {read[i] : i \in DOMAIN read} = {[key |-> k, rid |-> k] : k \in entries}
         /\ \A i, j \in DOMAIN read : i < j => read[i].key < read[j].key

\* The leaf list is a ring through the leaf header page and exactly the leaves
\* of the tree, the same in both directions, and the file header has its ends.
LeafListIsRing ==
    LET ring == Leaves \cup {IX_LEAF_HEADER_PAGE}
        header == ix.node[IX_LEAF_HEADER_PAGE]
    IN /\ \A p \in ring : /\ ix.node[p].next_leaf \in ring
                          /\ ix.node[ix.node[p].next_leaf].prev_leaf = p
                          /\ ix.node[ix.node[p].prev_leaf].next_leaf = p
       /\ ix.first_leaf = header.next_leaf /\ ix.last_leaf = header.prev_leaf

\* The keys in the leaves from p downwards.
KeysBelow(p) ==
    UNION {{ix.node[q].pair[i].key : i \in Live(ix.node[q])} : q \in SubTree(ix, p) \cap Leaves}

\* Children name their parents, all leaves are equally deep, and no node but the
\* root is below the size at which it would have been merged.
TreeIsBalanced ==
    \A p \in Tree :
      LET n == ix.node[p]
      IN /\ ~n.is_leaf => \A i \in Live(n) : ix.node[ValueAt(n, i)].parent = p
         /\ p # ix.root_page => n.num_key >= Least(n)
         /\ p = ix.root_page <=> n.parent = IX_NO_PAGE
         /\ \A q \in Leaves : p \in Leaves => Depth(p) = Depth(q)

\* The keys of a node are in order, and those below a child are between the key that
\* names the child and the next one.
KeysAreSeparated ==
    \A p \in Tree :
      LET n == ix.node[p]
      IN /\ \A i, j \in Live(n) : i < j => n.pair[i].key < n.pair[j].key
         /\ ~n.is_leaf => \A i \in Live(n) : \A k \in KeysBelow(ValueAt(n, i)) :
               k >= n.pair[i].key /\ (i + 1 \in Live(n) => k < n.pair[i + 1].key)

\* Splits, merges and moves keep the tree and the list of its leaves well formed, also
\* when an operation is led astray, and the keys separated until then.
TreeIsWellFormed ==
    ~lost => LeafListIsRing /\ TreeIsBalanced /\ (strays = 0 => KeysAreSeparated)

\* As long as no insertion or deletion was led astray, GetValue finds every key that is
\* in the index, with its rid, unless its own search is led astray.  (It may also find a
\* key that has been deleted, see LeafLookup.)
SearchFindsEntries ==
    \A k \in entries :
      ~lost /\ strays = 0 /\ ~Strays(k) =>
         LET n == ix.node[FindLeafPage(ix, k)]
         IN LeafLookup(n, k) /\ ValueAt(n, lower_bound(n, k)) = k

\* What an index scan reads between the bounds of k, as long as no operation, nor the
\* search for k, was led astray.  From lower_bound(k) to the end it reads exactly the
\* entries from k on, or get_rid throws at its first position, which it does only for
\* a k that is not in the index and below some entry; those up to k are all before
\* upper_bound(k); and k is read between the two if and only if it is in the index.
BoundsEncloseRange ==
    \A k \in Keys :
      ~lost /\ strays = 0 /\ ~IsEmpty(ix) /\ ~Strays(k) =>
         LET read(from, to) == LET pos == Scan(ix, from, to)
                               IN {PairAt(ix, pos[i]).key : i \in 1 .. Len(pos)}
             lower == LowerBound(ix, k)
             upper == UpperBound(ix, k)
         IN /\ IF Readable(ix, lower) \/ lower = leaf_end(ix)
               THEN /\ read(lower, leaf_end(ix)) = {j \in entries : j >= k}
                    /\ k \in read(lower, upper) <=> k \in entries
               ELSE k \notin entries /\ \E j \in entries : j > k
            /\ {j \in entries : j <= k} \subseteq read(leaf_begin(ix), upper)
=============================================================================
