------------------------------ MODULE RmProofs ------------------------------
(***************************************************************************)
(* Proofs about table files, and about a table scan that runs while other  *)
(* threads use the file, for every number of slots per page, every bound   *)
(* on the file, every buffer pool and every set of values.                 *)
(***************************************************************************)
EXTENDS RmScan, FiniteSetTheorems, WellFoundedInduction, TLAPS

-----------------------------------------------------------------------------
(* Slots and bitmaps                                                       *)

\* A non-empty set of numbers has a least one, which is what the loops over a
\* bitmap and over the pages of a file find.
LEMMA LeastNat ==
    ASSUME NEW S \in SUBSET Nat, S # {}
    PROVE  \E m \in S : \A y \in S : m <= y
<1> DEFINE R == OpToRel(<, Nat)
<1>1. IsWellFoundedOn(R, Nat)
  BY NatLessThanWellFounded
<1>2. \A a, b \in Nat : a < b => <<a, b>> \in R
  BY DEF OpToRel
<1> HIDE DEF R
<1>3. PICK m \in S : \A y \in S : <<y, m>> \notin R
  BY <1>1, WFMin
<1>4. ASSUME NEW y \in S PROVE m <= y
  <2>1. m \in Nat /\ y \in Nat
    BY <1>3
  <2>2. ~(y < m)
    BY <1>2, <1>3, <2>1
  <2> QED BY <2>1, <2>2
<1> QED BY <1>4

\* Bitmap::next_bit finds the first position after curr with the bit, and the
\* number of slots exactly if there is none.
LEMMA NextBit ==
    ASSUME NEW bit \in BOOLEAN, NEW bitmap, NEW curr \in Int
    PROVE  /\ next_bit(bit, bitmap, curr) \in 0 .. SlotsPerPage
           /\ next_bit(bit, bitmap, curr) # SlotsPerPage =>
                 /\ next_bit(bit, bitmap, curr) \in Slots
                 /\ next_bit(bit, bitmap, curr) > curr
                 /\ next_bit(bit, bitmap, curr) \in bitmap <=> bit
           /\ \A i \in Slots : i > curr /\ (i \in bitmap <=> bit) =>
                 /\ next_bit(bit, bitmap, curr) # SlotsPerPage
                 /\ next_bit(bit, bitmap, curr) <= i
<1> DEFINE found == {i \in Slots : i > curr /\ (i \in bitmap) = bit}
           nb == next_bit(bit, bitmap, curr)
<1>1. SlotsPerPage \in Nat /\ Slots = 0 .. SlotsPerPage - 1
  BY RmAssumption DEF Slots
<1>2. CASE found = {}
  <2>1. nb = SlotsPerPage
    BY <1>2 DEF next_bit
  <2> QED BY <1>1, <1>2, <2>1
<1>3. CASE found # {}
  <2>1. found \in SUBSET Nat
    BY <1>1
  <2>2. \E m \in found : \A j \in found : m <= j
    BY <1>3, <2>1, LeastNat
  <2>3. nb = CHOOSE i \in found : \A j \in found : i <= j
    BY <1>3 DEF next_bit
  <2>4. nb \in found /\ \A j \in found : nb <= j
    BY <2>2, <2>3
  <2> QED BY <1>1, <2>4
<1> QED BY <1>2, <1>3

\* The number of bits says whether a page is full.
LEMMA BitmapCount ==
    ASSUME NEW bitmap \in SUBSET Slots
    PROVE  /\ IsFiniteSet(bitmap)
           /\ Cardinality(bitmap) \in 0 .. SlotsPerPage
           /\ Cardinality(bitmap) = SlotsPerPage <=> bitmap = Slots
<1>1. SlotsPerPage \in Nat \ {0} /\ Slots = 0 .. SlotsPerPage - 1
  BY RmAssumption DEF Slots
<1>2. IsFiniteSet(Slots) /\ Cardinality(Slots) = SlotsPerPage
  BY <1>1, FS_Interval
<1>3. /\ IsFiniteSet(bitmap) /\ Cardinality(bitmap) <= SlotsPerPage
      /\ Cardinality(Slots) = Cardinality(bitmap) => Slots = bitmap
  BY <1>2, FS_Subset
<1>4. Cardinality(bitmap) \in Nat
  BY <1>3, FS_CardinalityType
<1> QED BY <1>1, <1>2, <1>3, <1>4

\* A page with room has a first free slot.
LEMMA FirstFree ==
    ASSUME NEW bitmap \in SUBSET Slots, bitmap # Slots
    PROVE  /\ first_bit(FALSE, bitmap) \in Slots
           /\ first_bit(FALSE, bitmap) \notin bitmap
           /\ first_bit(FALSE, bitmap) # SlotsPerPage
<1>1. PICK i \in Slots : i \notin bitmap
  OBVIOUS
<1>2. i > -1 /\ -1 \in Int /\ FALSE \in BOOLEAN
  BY RmAssumption DEF Slots
<1>3. next_bit(FALSE, bitmap, -1) # SlotsPerPage
  BY <1>1, <1>2, NextBit
<1> QED BY <1>2, <1>3, NextBit DEF first_bit

-----------------------------------------------------------------------------
(* The free-page list                                                      *)

\* The pages with room among pages 1 .. np - 1, and what the list s of n pages
\* names after position i - 1.
Room(pgs, np) == {m \in RM_FIRST_RECORD_PAGE .. np - 1 : pgs[m].bitmap # Slots}
Nth(s, n, i) == IF i \in 1 .. n THEN s[i] ELSE RM_NO_PAGE

\* s is the list that starts with page "first" and lists the pages with room.
IsList(first, pgs, np, n, s) ==
    /\ s \in [1 .. n -> Room(pgs, np)]
    /\ \A i, j \in 1 .. n : s[i] = s[j] => i = j
    /\ first = Nth(s, n, 1)
    /\ \A i \in 1 .. n : pgs[s[i]].next_free_page_no = Nth(s, n, i + 1)
    /\ \A m \in Room(pgs, np) : \E i \in 1 .. n : s[i] = m

HasList(first, pgs, np) == \E n \in Nat : \E s : IsList(first, pgs, np, n, s)

\* Only the changed page can enter or leave the set of pages with room.
LEMMA RoomAfter ==
    ASSUME NEW pgs, NEW pgs2, NEW np \in Nat, NEW n \in 1 .. np - 1,
           \A m \in 1 .. np - 1 : m # n => pgs2[m].bitmap = pgs[m].bitmap
    PROVE  Room(pgs2, np) = IF pgs2[n].bitmap = Slots THEN Room(pgs, np) \ {n}
                                                      ELSE Room(pgs, np) \cup {n}
<1>1. \A m : /\ m \in Room(pgs, np) <=> m \in 1 .. np - 1 /\ pgs[m].bitmap # Slots
             /\ m \in Room(pgs2, np) <=> m \in 1 .. np - 1 /\ pgs2[m].bitmap # Slots
  BY DEF Room, RM_FIRST_RECORD_PAGE
<1>2. CASE pgs2[n].bitmap = Slots
  <2>1. \A m : m \in Room(pgs2, np) <=> m \in Room(pgs, np) /\ m # n
    BY <1>1, <1>2
  <2> QED BY <1>2, <2>1
<1>3. CASE pgs2[n].bitmap # Slots
  <2>1. \A m : m \in Room(pgs2, np) <=> m \in Room(pgs, np) \/ m = n
    BY <1>1, <1>3
  <2> QED BY <1>3, <2>1
<1> QED BY <1>2, <1>3

\* A list without repetitions is no longer than the file, so the bound in
\* FreeListIsExact leaves no list out.
LEMMA ListFitsFile ==
    ASSUME NEW n \in Nat, NEW s \in [1 .. n -> RecordPages],
           \A i, j \in 1 .. n : s[i] = s[j] => i = j
    PROVE  n <= MaxPages
<1>1. MaxPages \in Nat \ {0} /\ RecordPages = 1 .. MaxPages - 1
  BY RmAssumption DEF RecordPages, RM_FIRST_RECORD_PAGE
<1>2. IsFiniteSet(RecordPages) /\ Cardinality(RecordPages) = MaxPages - 1
  BY <1>1, FS_Interval
<1>3. IsFiniteSet(1 .. n) /\ Cardinality(1 .. n) = n
  BY FS_Interval
<1>4. ~(Cardinality(RecordPages) < Cardinality(1 .. n))
  BY <1>2, <1>3, FS_PigeonHole
<1> QED BY <1>1, <1>2, <1>3, <1>4

LEMMA ListIsExact ==
    ASSUME TypeOK
    PROVE  FreeListIsExact <=> HasList(file_hdr_.first_free_page_no, page, file_hdr_.num_pages)
<1>1. Room(page, file_hdr_.num_pages) = PagesWithRoom
  BY DEF Room, PagesWithRoom, PagesInFile
<1>2. PagesWithRoom \subseteq RecordPages
  BY RmAssumption DEF PagesWithRoom, PagesInFile, RecordPages, TypeOK, RmFileHdr, RM_FIRST_RECORD_PAGE
<1>3. ASSUME FreeListIsExact
      PROVE  HasList(file_hdr_.first_free_page_no, page, file_hdr_.num_pages)
  <2>1. PICK n \in 0 .. MaxPages : \E s \in [1 .. n -> PagesWithRoom] :
            /\ Distinct(s) /\ FreeListIs(s) /\ PagesWithRoom = {s[i] : i \in DOMAIN s}
    BY <1>3 DEF FreeListIsExact
  <2>2. PICK s \in [1 .. n -> PagesWithRoom] :
            /\ Distinct(s) /\ FreeListIs(s) /\ PagesWithRoom = {s[i] : i \in DOMAIN s}
    BY <2>1
  <2>3. n \in Nat /\ DOMAIN s = 1 .. n
    BY RmAssumption
  <2>4. IsList(file_hdr_.first_free_page_no, page, file_hdr_.num_pages, n, s)
    BY <1>1, <2>2, <2>3 DEF IsList, Distinct, FreeListIs, Nth
  <2> QED BY <2>3, <2>4 DEF HasList
<1>4. ASSUME HasList(file_hdr_.first_free_page_no, page, file_hdr_.num_pages)
      PROVE  FreeListIsExact
  <2>1. PICK n \in Nat : \E s : IsList(file_hdr_.first_free_page_no, page, file_hdr_.num_pages, n, s)
    BY <1>4 DEF HasList
  <2>2. PICK s : IsList(file_hdr_.first_free_page_no, page, file_hdr_.num_pages, n, s)
    BY <2>1
  <2>3. s \in [1 .. n -> PagesWithRoom] /\ s \in [1 .. n -> RecordPages] /\ DOMAIN s = 1 .. n
    BY <1>1, <1>2, <2>2 DEF IsList
  <2>d. \A i, j \in 1 .. n : s[i] = s[j] => i = j
    BY <2>2 DEF IsList
  <2>4. n \in 0 .. MaxPages
    BY <2>3, <2>d, ListFitsFile, RmAssumption
  <2>5. /\ Distinct(s) /\ FreeListIs(s)
        /\ PagesWithRoom = {s[i] : i \in DOMAIN s}
    BY <1>1, <2>2, <2>3 DEF IsList, Distinct, FreeListIs, Nth
  <2> QED BY <2>3, <2>4, <2>5 DEF FreeListIsExact
<1> QED BY <1>3, <1>4

\* The header names a page with room unless there is none.
LEMMA ListHead ==
    ASSUME NEW first, NEW pgs, NEW np \in Nat, HasList(first, pgs, np)
    PROVE  IF first = RM_NO_PAGE THEN Room(pgs, np) = {} ELSE first \in Room(pgs, np)
<1>0. PICK n \in Nat : \E s : IsList(first, pgs, np, n, s)
  BY DEF HasList
<1>1. PICK s : IsList(first, pgs, np, n, s)
  BY <1>0
<1>2. CASE n = 0
  BY <1>1, <1>2 DEF IsList, Nth
<1>3. CASE n # 0
  <2>1. 1 \in 1 .. n /\ first = s[1] /\ s[1] \in Room(pgs, np)
    BY <1>1, <1>3 DEF IsList, Nth
  <2>2. first # RM_NO_PAGE
    BY <2>1 DEF Room, RM_FIRST_RECORD_PAGE, RM_NO_PAGE
  <2> QED BY <2>1, <2>2
<1> QED BY <1>2, <1>3

\* A change that neither fills a page nor makes room keeps the list.
LEMMA ListKept ==
    ASSUME NEW first, NEW pgs, NEW np \in Nat, NEW pgs2, NEW np2 \in Nat,
           HasList(first, pgs, np),
           Room(pgs2, np2) = Room(pgs, np),
           \A m \in Room(pgs, np) : pgs2[m].next_free_page_no = pgs[m].next_free_page_no
    PROVE  HasList(first, pgs2, np2)
<1>0. PICK n \in Nat : \E s : IsList(first, pgs, np, n, s)
  BY DEF HasList
<1>1. PICK s : IsList(first, pgs, np, n, s)
  BY <1>0
<1>2. IsList(first, pgs2, np2, n, s)
  BY <1>1 DEF IsList
<1> QED BY <1>1, <1>2 DEF HasList

\* insert_record: the first page is full now and the header takes its successor.
LEMMA ListPop ==
    ASSUME NEW first, NEW pgs, NEW np \in Nat, NEW pgs2, NEW np2 \in Nat,
           HasList(first, pgs, np), first # RM_NO_PAGE,
           Room(pgs2, np2) = Room(pgs, np) \ {first},
           \A m \in Room(pgs2, np2) : pgs2[m].next_free_page_no = pgs[m].next_free_page_no
    PROVE  HasList(pgs[first].next_free_page_no, pgs2, np2)
<1>0. PICK n \in Nat : \E s : IsList(first, pgs, np, n, s)
  BY DEF HasList
<1>1. PICK s : IsList(first, pgs, np, n, s)
  BY <1>0
<1>2. n # 0 /\ n - 1 \in Nat /\ 1 \in 1 .. n /\ s[1] = first
  BY <1>1 DEF IsList, Nth
<1> DEFINE s2 == [i \in 1 .. n - 1 |-> s[i + 1]]
<1>3. \A i \in 1 .. n - 1 : i + 1 \in 1 .. n /\ i + 1 # 1 /\ s2[i] = s[i + 1]
  BY <1>2
<1>4. s2 \in [1 .. n - 1 -> Room(pgs2, np2)]
  <2>1. ASSUME NEW i \in 1 .. n - 1 PROVE s[i + 1] \in Room(pgs2, np2)
    BY <1>1, <1>2, <1>3 DEF IsList
  <2> QED BY <2>1
<1>5. \A i \in 1 .. n : Nth(s2, n - 1, i) = Nth(s, n, i + 1)
  BY <1>2, <1>3 DEF Nth
<1> HIDE DEF s2
<1>6. \A i, j \in 1 .. n - 1 : s2[i] = s2[j] => i = j
  <2>1. ASSUME NEW i \in 1 .. n - 1, NEW j \in 1 .. n - 1, s2[i] = s2[j] PROVE i = j
    <3>1. i + 1 \in 1 .. n /\ j + 1 \in 1 .. n /\ s[i + 1] = s[j + 1]
      BY <1>3, <2>1
    <3>2. \A a, b \in 1 .. n : s[a] = s[b] => a = b
      BY <1>1 DEF IsList
    <3>3. i + 1 = j + 1
      BY <3>1, <3>2
    <3> QED BY <3>3
  <2> QED BY <2>1
<1>7. pgs[first].next_free_page_no = Nth(s2, n - 1, 1)
  BY <1>1, <1>2, <1>5 DEF IsList
<1>8. ASSUME NEW i \in 1 .. n - 1
      PROVE  pgs2[s2[i]].next_free_page_no = Nth(s2, n - 1, i + 1)
  <2>1. pgs2[s2[i]].next_free_page_no = pgs[s2[i]].next_free_page_no
    BY <1>4
  <2>2. pgs[s[i + 1]].next_free_page_no = Nth(s, n, (i + 1) + 1)
    BY <1>1, <1>3 DEF IsList
  <2>3. Nth(s2, n - 1, i + 1) = Nth(s, n, (i + 1) + 1)
    BY <1>3, <1>5
  <2> QED BY <1>3, <2>1, <2>2, <2>3
<1>9. ASSUME NEW m \in Room(pgs2, np2) PROVE \E i \in 1 .. n - 1 : s2[i] = m
  <2>1. PICK i \in 1 .. n : s[i] = m
    BY <1>1 DEF IsList
  <2>2. i # 1
    BY <1>2, <2>1
  <2>3. i - 1 \in 1 .. n - 1 /\ (i - 1) + 1 = i
    BY <2>2
  <2> QED BY <1>3, <2>1, <2>3
<1>10. IsList(pgs[first].next_free_page_no, pgs2, np2, n - 1, s2)
  BY <1>4, <1>6, <1>7, <1>8, <1>9 DEF IsList
<1> QED BY <1>2, <1>10 DEF HasList

\* release_page_handle and create_new_page_handle: page m goes to the front.
LEMMA ListPush ==
    ASSUME NEW first, NEW pgs, NEW np \in Nat, NEW pgs2, NEW np2 \in Nat, NEW m,
           HasList(first, pgs, np), m \notin Room(pgs, np),
           Room(pgs2, np2) = Room(pgs, np) \cup {m},
           pgs2[m].next_free_page_no = first,
           \A k \in Room(pgs, np) : pgs2[k].next_free_page_no = pgs[k].next_free_page_no
    PROVE  HasList(m, pgs2, np2)
<1>0. PICK n \in Nat : \E s : IsList(first, pgs, np, n, s)
  BY DEF HasList
<1>1. PICK s : IsList(first, pgs, np, n, s)
  BY <1>0
<1> DEFINE s2 == [i \in 1 .. n + 1 |-> IF i = 1 THEN m ELSE s[i - 1]]
<1>2. /\ n + 1 \in Nat /\ 1 \in 1 .. n + 1 /\ s2[1] = m
      /\ \A i \in 1 .. n + 1 : i # 1 => i - 1 \in 1 .. n /\ s2[i] = s[i - 1]
  OBVIOUS
<1>3. s2 \in [1 .. n + 1 -> Room(pgs2, np2)]
  BY <1>1 DEF IsList
<1>4. \A i \in 1 .. n + 1 : Nth(s2, n + 1, i + 1) = Nth(s, n, i)
  <2>1. ASSUME NEW i \in 1 .. n + 1 PROVE Nth(s2, n + 1, i + 1) = Nth(s, n, i)
    <3>1. CASE i = n + 1
      BY <3>1 DEF Nth
    <3>2. CASE i # n + 1
      <4>1. i \in 1 .. n /\ i + 1 \in 1 .. n + 1 /\ i + 1 # 1 /\ (i + 1) - 1 = i
        BY <3>2
      <4> QED BY <1>2, <4>1 DEF Nth
    <3> QED BY <3>1, <3>2
  <2> QED BY <2>1
<1> HIDE DEF s2
<1>5. \A i, j \in 1 .. n + 1 : s2[i] = s2[j] => i = j
  <2>1. ASSUME NEW i \in 1 .. n, s[i] = m PROVE FALSE
    BY <1>1, <2>1 DEF IsList
  <2>2. ASSUME NEW i \in 1 .. n + 1, NEW j \in 1 .. n + 1, s2[i] = s2[j] PROVE i = j
    <3>1. CASE i = 1 \/ j = 1
      BY <1>2, <2>1, <2>2, <3>1
    <3>2. CASE i # 1 /\ j # 1
      <4>1. i - 1 = j - 1
        BY <1>1, <1>2, <2>2, <3>2 DEF IsList
      <4> QED BY <4>1
    <3> QED BY <3>1, <3>2
  <2> QED BY <2>2
<1>6. m = Nth(s2, n + 1, 1)
  BY <1>2 DEF Nth
<1>7. ASSUME NEW i \in 1 .. n + 1
      PROVE  pgs2[s2[i]].next_free_page_no = Nth(s2, n + 1, i + 1)
  <2>1. CASE i = 1
    BY <1>1, <1>2, <1>4, <2>1 DEF IsList
  <2>2. CASE i # 1
    <3>1. i - 1 \in 1 .. n /\ (i - 1) + 1 = i /\ s2[i] = s[i - 1] /\ s[i - 1] \in Room(pgs, np)
      BY <1>1, <1>2, <2>2 DEF IsList
    <3>2. pgs[s[i - 1]].next_free_page_no = Nth(s, n, i)
      BY <1>1, <3>1 DEF IsList
    <3> QED BY <1>4, <3>1, <3>2
  <2> QED BY <2>1, <2>2
<1>8. ASSUME NEW k \in Room(pgs2, np2) PROVE \E i \in 1 .. n + 1 : s2[i] = k
  <2>1. CASE k = m
    BY <1>2, <2>1
  <2>2. CASE k # m
    <3>1. PICK i \in 1 .. n : s[i] = k
      BY <1>1, <2>2 DEF IsList
    <3>2. i + 1 \in 1 .. n + 1 /\ i + 1 # 1 /\ (i + 1) - 1 = i
      OBVIOUS
    <3> QED BY <1>2, <3>1, <3>2
  <2> QED BY <2>1, <2>2
<1>9. IsList(m, pgs2, np2, n + 1, s2)
  BY <1>3, <1>5, <1>6, <1>7, <1>8 DEF IsList
<1> QED BY <1>2, <1>9 DEF HasList

-----------------------------------------------------------------------------
(* The invariant of a file                                                 *)

\* What becomes of the header.  The one on disk is older than the one in memory
\* and describes a file that was no longer; page 0 is read through the pool only
\* while the file has no page of records, so the pool then holds the header of a
\* new file; and close_file leaves one of the two.
HeaderInv ==
    /\ diskHdr.num_pages = 1 => diskHdr = NewFileHdr
    /\ status # "closed" => diskHdr.num_pages <= file_hdr_.num_pages
    /\ RM_FILE_HDR_PAGE \in pinned => cachedHdr = NewFileHdr
    /\ status = "closed" => diskHdr = HdrWritten

\* The parts the runs check and the header, which are inductive together: the
\* counts decide when a page enters and leaves the list, the list decides where a
\* record goes, the allocator has to number the page the header counts, and the
\* header says which pages open_file finds again.
FileInv ==
    /\ TypeOK
    /\ HasList(file_hdr_.first_free_page_no, page, file_hdr_.num_pages)
    /\ CountsMatchBitmaps
    /\ AllocatorInStep
    /\ HeaderInv

LEMMA FileInvParts ==
    ASSUME FileInv
    PROVE  TypeOK /\ FreeListIsExact /\ CountsMatchBitmaps /\ AllocatorInStep
           /\ HeaderInv
BY ListIsExact DEF FileInv

\* A file with only its header page has no list, whatever its pages hold.
LEMMA ListOfNewFile ==
    ASSUME NEW pgs
    PROVE  HasList(RM_NO_PAGE, pgs, 1)
<1>1. Room(pgs, 1) = {}
  BY DEF Room, RM_FIRST_RECORD_PAGE
<1>2. IsList(RM_NO_PAGE, pgs, 1, 0, <<>>)
  BY <1>1 DEF IsList, Nth
<1> QED BY <1>2 DEF HasList

\* A header that counts one page is that of a new file.
LEMMA OnePageIsNew ==
    ASSUME TypeOK, HasList(file_hdr_.first_free_page_no, page, file_hdr_.num_pages),
           file_hdr_.num_pages = 1
    PROVE  file_hdr_ = NewFileHdr
<1>1. Room(page, 1) = {}
  BY DEF Room, RM_FIRST_RECORD_PAGE
<1>2. file_hdr_.first_free_page_no = RM_NO_PAGE
  BY <1>1, ListHead
<1> QED BY <1>2 DEF TypeOK, RmFileHdr, NewFileHdr

\* While the file has no page of records the header on disk is that of a new file.
LEMMA NewFileOnDisk ==
    ASSUME FileInv, status = "open", PagesInFile = {}
    PROVE  diskHdr = NewFileHdr
<1>1. /\ file_hdr_.num_pages \in Nat \ {0} /\ diskHdr.num_pages \in Nat \ {0}
      /\ diskHdr.num_pages <= file_hdr_.num_pages
  BY RmAssumption DEF FileInv, HeaderInv, TypeOK, RmFileHdr
<1>2. file_hdr_.num_pages = 1
  <2>1. CASE file_hdr_.num_pages > 1
    <3>1. 1 \in PagesInFile
      BY <1>1, <2>1 DEF PagesInFile, RM_FIRST_RECORD_PAGE
    <3> QED BY <3>1
  <2> QED BY <1>1, <2>1
<1> QED BY <1>1, <1>2 DEF FileInv, HeaderInv

LEMMA NumPagesNat ==
    ASSUME TypeOK
    PROVE  file_hdr_.num_pages \in Nat \ {0} /\ file_hdr_.num_pages <= MaxPages
BY RmAssumption DEF TypeOK, RmFileHdr

LEMMA EmptyPageType ==
    ASSUME NEW nf \in RecordPages \cup {RM_NO_PAGE}
    PROVE  EmptyPage(nf) \in RmPage
BY RmAssumption DEF EmptyPage, RmPage, RecordPages

\* A record is written into a free slot of a page ...
LEMMA FilledPage ==
    ASSUME NEW pg \in RmPage, pg.num_records = Cardinality(pg.bitmap),
           NEW slot \in Slots, slot \notin pg.bitmap, NEW buf \in Values, NEW filled,
           filled = [pg EXCEPT !.bitmap = @ \cup {slot}, !.num_records = @ + 1,
                               !.slots[slot] = buf]
    PROVE  /\ filled \in RmPage
           /\ filled.bitmap = pg.bitmap \cup {slot}
           /\ filled.num_records = Cardinality(filled.bitmap)
           /\ filled.next_free_page_no = pg.next_free_page_no
           /\ filled.slots[slot] = buf
           /\ \A s \in Slots \ {slot} : filled.slots[s] = pg.slots[s]
           /\ filled.bitmap = Slots <=> IsFull(filled.num_records)
<1>1. /\ pg.bitmap \in SUBSET Slots /\ pg.slots \in [Slots -> Values]
      /\ pg.num_records \in 0 .. SlotsPerPage
      /\ SlotsPerPage \in Nat
  BY RmAssumption DEF RmPage
<1>2. /\ filled.bitmap = pg.bitmap \cup {slot}
      /\ filled.num_records = pg.num_records + 1
      /\ filled.next_free_page_no = pg.next_free_page_no
      /\ filled.slots = [pg.slots EXCEPT ![slot] = buf]
  BY DEF RmPage
<1>3. (pg.bitmap \cup {slot}) \in SUBSET Slots
  BY <1>1
<1>4. Cardinality(pg.bitmap \cup {slot}) = Cardinality(pg.bitmap) + 1
  BY <1>1, BitmapCount, FS_AddElement
<1>5. /\ Cardinality(pg.bitmap \cup {slot}) \in 0 .. SlotsPerPage
      /\ Cardinality(pg.bitmap \cup {slot}) = SlotsPerPage <=> pg.bitmap \cup {slot} = Slots
  BY <1>3, BitmapCount
<1>6. pg.num_records + 1 \in 0 .. SlotsPerPage
  BY <1>4, <1>5
<1>7. filled \in RmPage
  BY <1>6 DEF RmPage
<1> QED BY <1>1, <1>2, <1>4, <1>5, <1>6, <1>7 DEF IsFull

\* ... and deleted from it, which puts the page back into the list if it was full.
LEMMA EmptiedPage ==
    ASSUME NEW pg \in RmPage, pg.num_records = Cardinality(pg.bitmap),
           NEW slot \in Slots, slot \in pg.bitmap, NEW emptied,
           emptied = [pg EXCEPT !.bitmap = @ \ {slot}, !.num_records = @ - 1]
    PROVE  /\ emptied \in RmPage
           /\ emptied.bitmap = pg.bitmap \ {slot}
           /\ emptied.num_records = Cardinality(emptied.bitmap)
           /\ emptied.next_free_page_no = pg.next_free_page_no
           /\ emptied.slots = pg.slots
           /\ emptied.bitmap # Slots
           /\ pg.bitmap = Slots <=> WasFull(emptied.num_records)
<1>1. /\ pg.bitmap \in SUBSET Slots
      /\ pg.num_records \in 0 .. SlotsPerPage
      /\ SlotsPerPage \in Nat
  BY RmAssumption DEF RmPage
<1>2. /\ emptied.bitmap = pg.bitmap \ {slot}
      /\ emptied.num_records = pg.num_records - 1
      /\ emptied.next_free_page_no = pg.next_free_page_no
      /\ emptied.slots = pg.slots
  BY DEF RmPage
<1>3. Cardinality(pg.bitmap \ {slot}) = Cardinality(pg.bitmap) - 1
  BY <1>1, BitmapCount, FS_RemoveElement
<1>4. /\ Cardinality(pg.bitmap \ {slot}) \in 0 .. SlotsPerPage
      /\ Cardinality(pg.bitmap) = SlotsPerPage <=> pg.bitmap = Slots
  BY <1>1, BitmapCount
<1>5. pg.num_records - 1 \in 0 .. SlotsPerPage
  BY <1>3, <1>4
<1>6. emptied \in RmPage
  BY <1>5 DEF RmPage
<1> QED BY <1>1, <1>2, <1>3, <1>4, <1>5, <1>6 DEF WasFull

LEMMA FileInitial == Init => FileInv
<1> SUFFICES ASSUME Init PROVE FileInv
  OBVIOUS
<1>1. MaxPages \in Nat \ {0}
  BY RmAssumption
<1>2. NewFileHdr \in RmFileHdr
  BY <1>1 DEF NewFileHdr, RmFileHdr
<1>3. TypeOK
  BY <1>1, <1>2, EmptyPageType DEF Init, TypeOK, NewFileHdr
<1>4. HasList(RM_NO_PAGE, page, 1)
  BY ListOfNewFile
<1>5. CountsMatchBitmaps
  BY FS_EmptySet DEF Init, CountsMatchBitmaps, EmptyPage
<1> QED BY <1>3, <1>4, <1>5
        DEF FileInv, Init, NewFileHdr, AllocatorInStep, HeaderInv

\* What insert_record does, whether or not it has to create the page first: slot
\* r.slot_no of page r.page_no, which held no record, holds one now.  A page the
\* file did not have before holds no other record, whatever was in it.
Inserts(r, buf) ==
    /\ r \in Rids \ Used
    /\ PagesInFile' = PagesInFile \cup {r.page_no}
    /\ file_hdr_'.num_pages \in {file_hdr_.num_pages, file_hdr_.num_pages + 1}
    /\ page' \in [RecordPages -> RmPage]
    /\ \A m \in RecordPages \ {r.page_no} : page'[m] = page[m]
    /\ page'[r.page_no].slots[r.slot_no] = buf
    /\ r.slot_no \in page'[r.page_no].bitmap
    /\ \A s \in Slots \ {r.slot_no} :
          /\ s \in page'[r.page_no].bitmap <=>
                r.page_no \in PagesInFile /\ s \in page[r.page_no].bitmap
          /\ r.page_no \in PagesInFile =>
                page'[r.page_no].slots[s] = page[r.page_no].slots[s]
    /\ (RM_FILE_HDR_PAGE \in pinned') = (RM_FILE_HDR_PAGE \in pinned)

LEMMA InsertKeeps ==
    ASSUME FileInv, NEW buf \in Values, insert_record(buf)
    PROVE  FileInv' /\ \E r \in Rids : Inserts(r, buf)
<1> DEFINE hdr == HdrWithPage
           pgs == PagesWithPage
           n == hdr.first_free_page_no
           pg == pgs[n]
           slot == first_bit(FALSE, pg.bitmap)
           filled == [pg EXCEPT !.bitmap = @ \cup {slot}, !.num_records = @ + 1,
                                !.slots[slot] = buf]
<1>1. /\ status = "open" /\ UNCHANGED <<diskHdr, cachedHdr, status>>
      /\ NeedsPage => fd2pageno_ < MaxPages
      /\ fd2pageno_' = IF NeedsPage THEN fd2pageno_ + 1 ELSE fd2pageno_
      /\ pinned' = IF NeedsPage THEN pinned \cup {fd2pageno_} ELSE pinned
  BY DEF insert_record
<1>2. IF slot # SlotsPerPage
      THEN /\ page' = [pgs EXCEPT ![n] = filled]
           /\ file_hdr_' = IF IsFull(filled.num_records)
                           THEN [hdr EXCEPT !.first_free_page_no = pg.next_free_page_no]
                           ELSE hdr
      ELSE page' = pgs /\ file_hdr_' = hdr
  BY DEF insert_record
<1>3. /\ MaxPages \in Nat \ {0} /\ RecordPages = 1 .. MaxPages - 1
      /\ SlotsPerPage \in Nat \ {0} /\ Slots = 0 .. SlotsPerPage - 1
      /\ Zero \in Values
  BY RmAssumption DEF RecordPages, RM_FIRST_RECORD_PAGE, Slots
<1>4. /\ TypeOK /\ CountsMatchBitmaps /\ fd2pageno_ = file_hdr_.num_pages
      /\ HasList(file_hdr_.first_free_page_no, page, file_hdr_.num_pages)
      /\ file_hdr_.num_pages \in Nat \ {0} /\ file_hdr_.num_pages <= MaxPages
  BY NumPagesNat DEF FileInv, AllocatorInStep
\* After create_new_page_handle the list is exact again and its head has room.
<1>5. /\ hdr \in RmFileHdr /\ hdr.num_pages = fd2pageno_'
      /\ pgs \in [RecordPages -> RmPage]
      /\ HasList(n, pgs, hdr.num_pages) /\ n # RM_NO_PAGE
      /\ \A m \in RecordPages : pgs[m].num_records = Cardinality(pgs[m].bitmap)
                                /\ (m # n => pgs[m] = page[m])
      /\ IF n \in PagesInFile THEN pgs[n] = page[n] ELSE pgs[n].bitmap = {}
      /\ 1 .. hdr.num_pages - 1 = PagesInFile \cup {n}
      /\ hdr.num_pages \in {file_hdr_.num_pages, file_hdr_.num_pages + 1}
      /\ file_hdr_.num_pages <= hdr.num_pages
  <2>1. CASE ~NeedsPage
    <3>1. hdr = file_hdr_ /\ pgs = page
      BY <2>1 DEF HdrWithPage, PagesWithPage
    <3>2. n # RM_NO_PAGE
      BY <2>1, <3>1 DEF NeedsPage
    <3>3. n \in PagesInFile /\ 1 .. hdr.num_pages - 1 = PagesInFile
      <4>1. n \in Room(page, file_hdr_.num_pages)
        BY <1>4, <3>1, <3>2, ListHead
      <4> QED BY <3>1, <4>1 DEF PagesInFile, Room, RM_FIRST_RECORD_PAGE
    <3> QED BY <1>1, <1>4, <2>1, <3>1, <3>2, <3>3 DEF TypeOK, CountsMatchBitmaps
  <2>2. CASE NeedsPage
    <3>1. /\ hdr = [num_pages |-> file_hdr_.num_pages + 1, first_free_page_no |-> fd2pageno_]
          /\ pgs = [page EXCEPT ![fd2pageno_] = EmptyPage(RM_NO_PAGE)]
          /\ file_hdr_.first_free_page_no = RM_NO_PAGE
      BY <2>2 DEF HdrWithPage, PagesWithPage, NeedsPage
    <3>2. n = fd2pageno_ /\ hdr.num_pages = file_hdr_.num_pages + 1 /\ n \in RecordPages
      BY <1>1, <1>3, <1>4, <2>2, <3>1
    <3>3. hdr \in RmFileHdr
      BY <1>1, <1>3, <1>4, <2>2, <3>1, <3>2 DEF RmFileHdr
    <3>4. /\ EmptyPage(RM_NO_PAGE) \in RmPage
          /\ EmptyPage(RM_NO_PAGE).bitmap = {}
          /\ EmptyPage(RM_NO_PAGE).num_records = 0
          /\ EmptyPage(RM_NO_PAGE).next_free_page_no = RM_NO_PAGE
      BY EmptyPageType DEF EmptyPage
    <3>5. /\ pgs \in [RecordPages -> RmPage]
          /\ pgs[n] = EmptyPage(RM_NO_PAGE)
          /\ \A m \in RecordPages \ {n} : pgs[m] = page[m]
      BY <1>4, <3>1, <3>2, <3>4 DEF TypeOK
    <3>6. n \notin PagesInFile /\ pgs[n].bitmap = {}
      BY <1>4, <3>2, <3>4, <3>5 DEF PagesInFile, RM_FIRST_RECORD_PAGE
    <3>7. \A m \in RecordPages : pgs[m].num_records = Cardinality(pgs[m].bitmap)
      BY <1>4, <3>4, <3>5, FS_EmptySet DEF CountsMatchBitmaps
    <3>8. Room(page, file_hdr_.num_pages) = {}
      BY <1>4, <3>1, ListHead
    <3>9. Room(pgs, hdr.num_pages) = {n}
      <4>1. n \in Room(pgs, hdr.num_pages)
        <5>1. n \in 1 .. hdr.num_pages - 1
          BY <1>3, <1>4, <3>2
        <5>2. 0 \in Slots
          BY <1>3
        <5>3. pgs[n].bitmap = {}
          BY <3>4, <3>5
        <5>4. pgs[n].bitmap # Slots
          BY <5>2, <5>3
        <5> QED BY <5>1, <5>4 DEF Room, RM_FIRST_RECORD_PAGE
      <4>2. ASSUME NEW m \in Room(pgs, hdr.num_pages), m # n PROVE FALSE
        <5>1. m \in 1 .. file_hdr_.num_pages - 1 /\ m \in RecordPages /\ pgs[m].bitmap # Slots
          BY <1>3, <1>4, <3>2, <4>2 DEF Room, RM_FIRST_RECORD_PAGE
        <5>2. m \in Room(page, file_hdr_.num_pages)
          BY <3>5, <4>2, <5>1 DEF Room, RM_FIRST_RECORD_PAGE
        <5> QED BY <3>8, <5>2
      <4> QED BY <4>1, <4>2
    <3>10. HasList(n, pgs, hdr.num_pages)
      <4>1. hdr.num_pages \in Nat
        BY <1>4, <3>2
      <4>2. pgs[n].next_free_page_no = file_hdr_.first_free_page_no
        BY <3>1, <3>4, <3>5
      <4> HIDE DEF hdr, pgs, n
      <4> QED BY <1>4, <3>8, <3>9, <4>1, <4>2, ListPush
    <3>11. n # RM_NO_PAGE
      BY <1>3, <3>2 DEF RM_NO_PAGE
    <3>12. 1 .. hdr.num_pages - 1 = PagesInFile \cup {n}
      BY <1>4, <3>2 DEF PagesInFile, RM_FIRST_RECORD_PAGE
    <3> QED BY <1>1, <1>4, <2>2, <3>2, <3>3, <3>4, <3>5, <3>6, <3>7, <3>10, <3>11, <3>12
  <2> QED BY <2>1, <2>2
<1> HIDE DEF hdr, pgs
<1>6. /\ n \in RecordPages /\ n \in 1 .. hdr.num_pages - 1
      /\ n \in Room(pgs, hdr.num_pages) /\ pg.bitmap # Slots /\ pg \in RmPage
      /\ hdr.num_pages \in Nat /\ hdr.num_pages <= MaxPages
  <2>1. hdr.num_pages \in Nat /\ hdr.num_pages <= MaxPages
    BY <1>3, <1>5 DEF RmFileHdr
  <2>2. n \in Room(pgs, hdr.num_pages)
    BY <1>5, <2>1, ListHead
  <2> QED BY <1>3, <1>5, <2>1, <2>2 DEF Room, RM_FIRST_RECORD_PAGE
<1> HIDE DEF n
<1>7. slot \in Slots /\ slot \notin pg.bitmap /\ slot # SlotsPerPage
  BY <1>6, FirstFree DEF RmPage
<1> HIDE DEF slot
<1>8. /\ filled \in RmPage
      /\ filled.bitmap = pg.bitmap \cup {slot}
      /\ filled.num_records = Cardinality(filled.bitmap)
      /\ filled.next_free_page_no = pg.next_free_page_no
      /\ filled.slots[slot] = buf
      /\ \A s \in Slots \ {slot} : filled.slots[s] = pg.slots[s]
      /\ filled.bitmap = Slots <=> IsFull(filled.num_records)
  BY <1>5, <1>6, <1>7, FilledPage
<1> HIDE DEF filled, pg
<1>pg. pg = pgs[n]
  BY DEF pg
<1>9. /\ page' = [pgs EXCEPT ![n] = filled]
      /\ file_hdr_' = IF IsFull(filled.num_records)
                      THEN [hdr EXCEPT !.first_free_page_no = pg.next_free_page_no]
                      ELSE hdr
  BY <1>2, <1>7
<1>10. /\ page' \in [RecordPages -> RmPage] /\ page'[n] = filled
       /\ \A m \in RecordPages \ {n} : page'[m] = pgs[m]
  BY <1>5, <1>6, <1>8, <1>9
<1>11. /\ file_hdr_' \in RmFileHdr /\ file_hdr_'.num_pages = hdr.num_pages
       /\ file_hdr_'.first_free_page_no =
              IF IsFull(filled.num_records) THEN pg.next_free_page_no ELSE n
  BY <1>5, <1>6, <1>9 DEF RmFileHdr, RmPage, n
<1>12. TypeOK'
  <2>1. fd2pageno_' \in 1 .. MaxPages
    BY <1>1, <1>3, <1>4
  <2>2. pinned' \subseteq RecordPages \cup {RM_FILE_HDR_PAGE}
    <3>1. NeedsPage => fd2pageno_ \in RecordPages
      BY <1>1, <1>3, <1>4
    <3> QED BY <1>1, <1>4, <3>1 DEF TypeOK
  <2> QED BY <1>1, <1>4, <1>10, <1>11, <2>1, <2>2 DEF TypeOK
<1>13. CountsMatchBitmaps'
  <2>1. ASSUME NEW m \in RecordPages
        PROVE  page'[m].num_records = Cardinality(page'[m].bitmap)
    BY <1>5, <1>8, <1>10
  <2> QED BY <2>1 DEF CountsMatchBitmaps
<1>14. HasList(file_hdr_'.first_free_page_no, page', file_hdr_'.num_pages)
  <2>1. ASSUME NEW m \in 1 .. hdr.num_pages - 1
        PROVE  m \in RecordPages /\ (m # n => page'[m] = pgs[m])
    BY <1>3, <1>6, <1>10
  <2>2. Room(page', hdr.num_pages) = IF page'[n].bitmap = Slots
                                     THEN Room(pgs, hdr.num_pages) \ {n}
                                     ELSE Room(pgs, hdr.num_pages) \cup {n}
    <3>1. \A m \in 1 .. hdr.num_pages - 1 : m # n => page'[m].bitmap = pgs[m].bitmap
      BY <2>1
    <3>2. PICK p2, np : p2 = page' /\ np = hdr.num_pages
      OBVIOUS
    <3>3. np \in Nat /\ n \in 1 .. np - 1
      BY <1>6, <3>2
    <3>4. \A m \in 1 .. np - 1 : m # n => p2[m].bitmap = pgs[m].bitmap
      BY <3>1, <3>2
    <3>5. Room(p2, np) = IF p2[n].bitmap = Slots THEN Room(pgs, np) \ {n}
                                                 ELSE Room(pgs, np) \cup {n}
      BY <3>3, <3>4, RoomAfter
    <3> QED BY <3>2, <3>5
  <2>3. \A m \in Room(pgs, hdr.num_pages) :
            page'[m].next_free_page_no = pgs[m].next_free_page_no
    BY <1>8, <1>10, <1>pg, <2>1 DEF Room, RM_FIRST_RECORD_PAGE
  <2>4. CASE IsFull(filled.num_records)
    <3>1. Room(page', hdr.num_pages) = Room(pgs, hdr.num_pages) \ {n}
      BY <1>8, <1>10, <2>2, <2>4
    <3>2. HasList(pgs[n].next_free_page_no, page', hdr.num_pages)
      BY <1>5, <1>6, <2>3, <3>1, ListPop
    <3> QED BY <1>11, <1>pg, <2>4, <3>2
  <2>5. CASE ~IsFull(filled.num_records)
    <3>1. Room(page', hdr.num_pages) = Room(pgs, hdr.num_pages)
      BY <1>6, <1>8, <1>10, <2>2, <2>5
    <3>2. HasList(n, page', hdr.num_pages)
      BY <1>5, <1>6, <2>3, <3>1, ListKept
    <3> QED BY <1>11, <2>5, <3>2
  <2> QED BY <2>4, <2>5
<1>hdr0. (RM_FILE_HDR_PAGE \in pinned') = (RM_FILE_HDR_PAGE \in pinned)
  BY <1>1, <1>4 DEF RM_FILE_HDR_PAGE
<1>hdr. HeaderInv'
  <2>1. diskHdr.num_pages \in Nat /\ diskHdr.num_pages <= file_hdr_.num_pages
    BY <1>1, RmAssumption DEF FileInv, HeaderInv, TypeOK, RmFileHdr
  <2>2. diskHdr'.num_pages <= file_hdr_'.num_pages
    BY <1>1, <1>4, <1>5, <1>6, <1>11, <2>1
  <2> QED BY <1>1, <1>hdr0, <2>2 DEF FileInv, HeaderInv
<1>15. FileInv'
  BY <1>1, <1>5, <1>11, <1>12, <1>13, <1>14, <1>hdr DEF FileInv, AllocatorInStep
<1>16. Inserts([page_no |-> n, slot_no |-> slot], buf)
  <2> DEFINE r == [page_no |-> n, slot_no |-> slot]
  <2>1. r \in Rids /\ r.page_no = n /\ r.slot_no = slot
    BY <1>6, <1>7 DEF Rids
  <2>2. r \notin Used
    BY <1>5, <1>7, <1>pg, <2>1 DEF Used
  <2>3. ASSUME NEW s \in Slots \ {slot}
        PROVE  /\ s \in page'[n].bitmap <=> n \in PagesInFile /\ s \in page[n].bitmap
               /\ n \in PagesInFile => page'[n].slots[s] = page[n].slots[s]
    <3>1. CASE n \in PagesInFile
      BY <1>5, <1>8, <1>10, <1>pg, <3>1
    <3>2. CASE n \notin PagesInFile
      BY <1>5, <1>8, <1>10, <1>pg, <3>2
    <3> QED BY <3>1, <3>2
  <2>4. \A m \in RecordPages \ {n} : page'[m] = page[m]
    BY <1>5, <1>10
  <2>5. slot \in page'[n].bitmap /\ page'[n].slots[slot] = buf
    BY <1>8, <1>10
  <2>6. PagesInFile' = PagesInFile \cup {n}
    BY <1>5, <1>11 DEF PagesInFile, RM_FIRST_RECORD_PAGE
  <2> HIDE DEF r
  <2> QED BY <1>5, <1>10, <1>11, <1>hdr0, <2>1, <2>2, <2>3, <2>4, <2>5, <2>6 DEF Inserts, r
<1> QED BY <1>15, <1>16, <1>6, <1>7 DEF Rids

\* What delete_record does to a slot that holds a record.
Deletes(r) ==
    /\ r \in Used
    /\ file_hdr_'.num_pages = file_hdr_.num_pages
    /\ page' \in [RecordPages -> RmPage]
    /\ \A m \in RecordPages \ {r.page_no} : page'[m] = page[m]
    /\ page'[r.page_no].bitmap = page[r.page_no].bitmap \ {r.slot_no}
    /\ page'[r.page_no].slots = page[r.page_no].slots

LEMMA DeleteKeeps ==
    ASSUME FileInv, NEW rid \in Rids, delete_record(rid)
    PROVE  /\ FileInv' /\ (Deletes(rid) \/ UNCHANGED <<page, file_hdr_>>)
           /\ (RM_FILE_HDR_PAGE \in pinned') = (RM_FILE_HDR_PAGE \in pinned)
<1> DEFINE n == rid.page_no
           slot == rid.slot_no
           pg == page[n]
           emptied == [pg EXCEPT !.bitmap = @ \ {slot}, !.num_records = @ - 1]
           first == file_hdr_.first_free_page_no
           pushed == [emptied EXCEPT !.next_free_page_no = first]
<1>1. /\ status = "open" /\ n \in PagesInFile /\ pinned' = pinned \cup {n}
      /\ UNCHANGED <<fd2pageno_, diskHdr, cachedHdr, status>>
      /\ IF ~is_set(pg.bitmap, slot)
         THEN UNCHANGED <<page, file_hdr_>>
         ELSE IF WasFull(emptied.num_records)
         THEN /\ page' = [page EXCEPT ![n] = pushed]
              /\ file_hdr_' = [file_hdr_ EXCEPT !.first_free_page_no = n]
         ELSE /\ page' = [page EXCEPT ![n] = emptied]
              /\ UNCHANGED file_hdr_
  BY DEF delete_record
<1>2. n \in RecordPages /\ slot \in Slots
  BY DEF Rids
<1>3. /\ TypeOK /\ CountsMatchBitmaps /\ AllocatorInStep /\ HeaderInv
      /\ HasList(first, page, file_hdr_.num_pages)
      /\ file_hdr_.num_pages \in Nat
      /\ n \in 1 .. file_hdr_.num_pages - 1
      /\ page \in [RecordPages -> RmPage] /\ pg \in RmPage
      /\ first \in RecordPages \cup {RM_NO_PAGE}
  BY <1>1, <1>2, NumPagesNat
     DEF FileInv, TypeOK, PagesInFile, RM_FIRST_RECORD_PAGE, RmFileHdr
<1>4. pinned' \subseteq RecordPages \cup {RM_FILE_HDR_PAGE}
  BY <1>1, <1>2, <1>3 DEF TypeOK
<1>hdr. /\ (RM_FILE_HDR_PAGE \in pinned') = (RM_FILE_HDR_PAGE \in pinned)
        /\ file_hdr_'.num_pages = file_hdr_.num_pages => HeaderInv'
  BY <1>1, <1>3 DEF HeaderInv, RM_FILE_HDR_PAGE
<1>5. CASE slot \notin pg.bitmap
  <2>1. UNCHANGED <<page, file_hdr_>>
    BY <1>1, <1>5 DEF is_set
  <2>2. TypeOK' /\ CountsMatchBitmaps'
    BY <1>1, <1>3, <1>4, <2>1 DEF TypeOK, CountsMatchBitmaps, PagesInFile
  <2> QED BY <1>1, <1>3, <1>hdr, <2>1, <2>2 DEF FileInv, AllocatorInStep
<1>6. CASE slot \in pg.bitmap
  <2>1. pg.num_records = Cardinality(pg.bitmap)
    BY <1>2, <1>3 DEF CountsMatchBitmaps
  <2>2. /\ emptied \in RmPage
        /\ emptied.bitmap = pg.bitmap \ {slot}
        /\ emptied.num_records = Cardinality(emptied.bitmap)
        /\ emptied.next_free_page_no = pg.next_free_page_no
        /\ emptied.slots = pg.slots
        /\ emptied.bitmap # Slots
        /\ pg.bitmap = Slots <=> WasFull(emptied.num_records)
    BY <1>2, <1>3, <1>6, <2>1, EmptiedPage
  <2> HIDE DEF emptied
  <2>3. /\ pushed \in RmPage
        /\ pushed.bitmap = emptied.bitmap
        /\ pushed.num_records = emptied.num_records
        /\ pushed.next_free_page_no = first
        /\ pushed.slots = pg.slots
    BY <1>3, <2>2 DEF RmPage
  <2> HIDE DEF pushed
  <2>4. PICK pg2 \in RmPage :
            /\ page' = [page EXCEPT ![n] = pg2]
            /\ pg2.bitmap = pg.bitmap \ {slot} /\ pg2.slots = pg.slots
            /\ pg2.num_records = Cardinality(pg2.bitmap) /\ pg2.bitmap # Slots
            /\ IF pg.bitmap = Slots
               THEN /\ pg2.next_free_page_no = first
                    /\ file_hdr_' = [file_hdr_ EXCEPT !.first_free_page_no = n]
               ELSE /\ pg2.next_free_page_no = pg.next_free_page_no
                    /\ file_hdr_' = file_hdr_
    <3>1. CASE pg.bitmap = Slots
      <4>1. /\ page' = [page EXCEPT ![n] = pushed]
            /\ file_hdr_' = [file_hdr_ EXCEPT !.first_free_page_no = n]
        BY <1>1, <1>6, <2>2, <3>1 DEF is_set
      <4> QED BY <2>2, <2>3, <3>1, <4>1
    <3>2. CASE pg.bitmap # Slots
      <4>1. page' = [page EXCEPT ![n] = emptied] /\ file_hdr_' = file_hdr_
        BY <1>1, <1>6, <2>2, <3>2 DEF is_set
      <4> QED BY <2>2, <3>2, <4>1
    <3> QED BY <3>1, <3>2
  <2>5. /\ page' \in [RecordPages -> RmPage] /\ page'[n] = pg2
        /\ \A m \in RecordPages \ {n} : page'[m] = page[m]
    BY <1>2, <1>3, <2>4
  <2>6. /\ file_hdr_' \in RmFileHdr
        /\ file_hdr_'.num_pages = file_hdr_.num_pages
        /\ file_hdr_'.first_free_page_no = IF pg.bitmap = Slots THEN n ELSE first
    BY <1>2, <1>3, <2>4 DEF TypeOK, RmFileHdr
  <2>7. TypeOK'
    BY <1>1, <1>3, <1>4, <2>5, <2>6 DEF TypeOK
  <2>8. CountsMatchBitmaps'
    <3>1. ASSUME NEW m \in RecordPages
          PROVE  page'[m].num_records = Cardinality(page'[m].bitmap)
      <4>1. CASE m = n
        BY <2>4, <2>5, <4>1
      <4>2. CASE m # n
        BY <1>3, <2>5, <4>2 DEF CountsMatchBitmaps
      <4> QED BY <4>1, <4>2
    <3> QED BY <3>1 DEF CountsMatchBitmaps
  <2>9. HasList(file_hdr_'.first_free_page_no, page', file_hdr_'.num_pages)
    <3>1. PICK p2, np : p2 = page' /\ np = file_hdr_.num_pages
      OBVIOUS
    <3>2. np \in Nat /\ n \in 1 .. np - 1 /\ p2[n] = pg2
      BY <1>3, <2>5, <3>1
    <3>3. \A m \in 1 .. np - 1 : m \in RecordPages
      BY <1>3, <3>1, NumPagesNat, RmAssumption DEF RecordPages, RM_FIRST_RECORD_PAGE
    <3>4. \A m \in 1 .. np - 1 : m # n => p2[m] = page[m]
      BY <2>5, <3>1, <3>3
    <3>5. Room(p2, np) = Room(page, np) \cup {n}
      BY <2>4, <3>2, <3>4, RoomAfter
    <3>6. n \in Room(page, np) <=> pg.bitmap # Slots
      BY <3>2 DEF Room, RM_FIRST_RECORD_PAGE
    <3>7. \A m \in Room(page, np) : m \in 1 .. np - 1
      BY DEF Room, RM_FIRST_RECORD_PAGE
    <3>8. HasList(first, page, np)
      BY <1>3, <3>1
    <3> HIDE DEF first, pg, n
    <3>9. CASE pg.bitmap = Slots
      <4>1. pg2.next_free_page_no = first
        BY <2>4, <3>9
      <4>2. \A m \in Room(page, np) : m # n
        BY <3>6, <3>9
      <4>3. HasList(n, p2, np)
        BY <3>2, <3>4, <3>5, <3>6, <3>7, <3>8, <3>9, <4>1, <4>2, ListPush
      <4> QED BY <2>6, <3>1, <3>9, <4>3
    <3>10. CASE pg.bitmap # Slots
      <4>1. Room(p2, np) = Room(page, np)
        BY <3>5, <3>6, <3>10
      <4>2. pg2.next_free_page_no = page[n].next_free_page_no
        BY <2>4, <3>10 DEF pg
      <4>3. \A m \in Room(page, np) : p2[m].next_free_page_no = page[m].next_free_page_no
        BY <3>2, <3>4, <3>7, <4>2
      <4>4. HasList(first, p2, np)
        BY <3>2, <3>8, <4>1, <4>3, ListKept
      <4> QED BY <2>6, <3>1, <3>10, <4>4
    <3> QED BY <3>9, <3>10
  <2>10. FileInv'
    BY <1>1, <1>3, <1>hdr, <2>6, <2>7, <2>8, <2>9 DEF FileInv, AllocatorInStep
  <2>11. Deletes(rid)
    BY <1>1, <1>6, <2>4, <2>5, <2>6 DEF Deletes, Used
  <2> QED BY <1>hdr, <2>10, <2>11
<1> QED BY <1>5, <1>6, <1>hdr

\* What update_record does, to a slot that holds a record or not.
Updates(r, buf) ==
    /\ file_hdr_' = file_hdr_
    /\ page' \in [RecordPages -> RmPage]
    /\ \A m \in RecordPages : /\ page'[m].bitmap = page[m].bitmap
                              /\ page'[m].num_records = page[m].num_records
                              /\ page'[m].next_free_page_no = page[m].next_free_page_no
    /\ \A m \in RecordPages, s \in Slots :
          page'[m].slots[s] = IF m = r.page_no /\ s = r.slot_no THEN buf ELSE page[m].slots[s]

LEMMA UpdateKeeps ==
    ASSUME FileInv, NEW rid \in Rids, NEW buf \in Values, update_record(rid, buf)
    PROVE  /\ FileInv' /\ Updates(rid, buf)
           /\ (RM_FILE_HDR_PAGE \in pinned') = (RM_FILE_HDR_PAGE \in pinned)
<1>1. /\ status = "open" /\ rid.page_no \in PagesInFile
      /\ pinned' = pinned \cup {rid.page_no}
      /\ page' = [page EXCEPT ![rid.page_no].slots[rid.slot_no] = buf]
      /\ UNCHANGED <<file_hdr_, fd2pageno_, diskHdr, cachedHdr, status>>
  BY DEF update_record
<1>2. rid.page_no \in RecordPages /\ rid.slot_no \in Slots
  BY DEF Rids
<1>3. /\ TypeOK /\ CountsMatchBitmaps /\ AllocatorInStep /\ HeaderInv
      /\ HasList(file_hdr_.first_free_page_no, page, file_hdr_.num_pages)
      /\ file_hdr_.num_pages \in Nat
      /\ page \in [RecordPages -> RmPage] /\ page[rid.page_no] \in RmPage
  BY <1>2, NumPagesNat DEF FileInv, TypeOK
<1> DEFINE pg == page[rid.page_no]
           pg2 == [pg EXCEPT !.slots[rid.slot_no] = buf]
<1>4. page' = [page EXCEPT ![rid.page_no] = pg2]
  BY <1>1
<1>5. /\ pg2 \in RmPage
      /\ pg2.bitmap = pg.bitmap /\ pg2.num_records = pg.num_records
      /\ pg2.next_free_page_no = pg.next_free_page_no
      /\ \A s \in Slots : pg2.slots[s] = IF s = rid.slot_no THEN buf ELSE pg.slots[s]
  BY <1>2, <1>3 DEF RmPage
<1> HIDE DEF pg2
<1>6. /\ page' \in [RecordPages -> RmPage] /\ page'[rid.page_no] = pg2
      /\ \A m \in RecordPages \ {rid.page_no} : page'[m] = page[m]
  BY <1>2, <1>3, <1>4, <1>5
<1>7. Updates(rid, buf)
  BY <1>1, <1>2, <1>5, <1>6 DEF Updates
<1>8. TypeOK'
  BY <1>1, <1>2, <1>3, <1>6 DEF TypeOK
<1>9. CountsMatchBitmaps'
  BY <1>1, <1>3, <1>7 DEF CountsMatchBitmaps, Updates, PagesInFile
<1>10. HasList(file_hdr_'.first_free_page_no, page', file_hdr_'.num_pages)
  <2>1. PICK p2, np, first : p2 = page' /\ np = file_hdr_.num_pages
                             /\ first = file_hdr_.first_free_page_no
    OBVIOUS
  <2>2. np \in Nat /\ HasList(first, page, np)
    BY <1>3, <2>1
  <2>3. \A m \in 1 .. np - 1 : m \in RecordPages
    BY <1>3, <2>1, NumPagesNat, RmAssumption DEF RecordPages, RM_FIRST_RECORD_PAGE
  <2>4. /\ Room(p2, np) = Room(page, np)
        /\ \A m \in Room(page, np) : p2[m].next_free_page_no = page[m].next_free_page_no
    BY <1>7, <2>1, <2>3 DEF Room, Updates, RM_FIRST_RECORD_PAGE
  <2>5. HasList(first, p2, np)
    BY <2>2, <2>4, ListKept
  <2> QED BY <1>1, <2>1, <2>5
<1>11. /\ (RM_FILE_HDR_PAGE \in pinned') = (RM_FILE_HDR_PAGE \in pinned)
       /\ HeaderInv'
  <2>1. rid.page_no # RM_FILE_HDR_PAGE
    BY <1>1 DEF PagesInFile, RM_FIRST_RECORD_PAGE, RM_FILE_HDR_PAGE
  <2> QED BY <1>1, <1>3, <2>1 DEF HeaderInv
<1> QED BY <1>1, <1>3, <1>7, <1>8, <1>9, <1>10, <1>11 DEF FileInv, AllocatorInStep

\* The contents stay, and what the header in memory says of them.
LEMMA UntouchedKeeps ==
    ASSUME FileInv, UNCHANGED <<file_hdr_, page, fd2pageno_>>,
           pinned' \subseteq RecordPages \cup {RM_FILE_HDR_PAGE},
           diskHdr' \in RmFileHdr, cachedHdr' \in RmFileHdr,
           status' \in {"open", "closed", "crashed"},
           HeaderInv'
    PROVE  FileInv'
<1>1. TypeOK' /\ CountsMatchBitmaps' /\ AllocatorInStep'
  BY DEF FileInv, TypeOK, CountsMatchBitmaps, AllocatorInStep, PagesInFile
<1> QED BY <1>1 DEF FileInv

\* Page 0 is read while the header on disk is still that of a new file.
LEMMA FetchKeeps ==
    ASSUME FileInv, NEW n \in RecordPages \cup {RM_FILE_HDR_PAGE}, fetch_page_handle(n)
    PROVE  FileInv'
<1>1. /\ status = "open" /\ UNCHANGED <<file_hdr_, page, fd2pageno_, diskHdr, status>>
      /\ n \in PagesInFile \/ (n = RM_FILE_HDR_PAGE /\ PagesInFile = {})
      /\ pinned' = pinned \cup {n}
      /\ cachedHdr' = IF n = RM_FILE_HDR_PAGE /\ n \notin pinned THEN diskHdr ELSE cachedHdr
  BY DEF fetch_page_handle
<1>2. n = RM_FILE_HDR_PAGE => diskHdr = NewFileHdr
  <2>1. RM_FILE_HDR_PAGE \notin PagesInFile
    BY DEF PagesInFile, RM_FIRST_RECORD_PAGE, RM_FILE_HDR_PAGE
  <2> QED BY <1>1, <2>1, NewFileOnDisk
<1>3. HeaderInv'
  BY <1>1, <1>2 DEF FileInv, HeaderInv
<1> QED BY <1>1, <1>3, UntouchedKeeps DEF FileInv, TypeOK

LEMMA CrashKeeps ==
    ASSUME FileInv, insert_record_crashes
    PROVE  FileInv'
<1>1. HeaderInv'
  BY DEF FileInv, HeaderInv, insert_record_crashes
<1> QED BY <1>1, UntouchedKeeps DEF insert_record_crashes, FileInv, TypeOK

\* close_file leaves the header in memory on disk or, with page 0 in the pool,
\* that of a new file.
LEMMA CloseKeeps ==
    ASSUME FileInv, close_file
    PROVE  FileInv'
<1>1. /\ UNCHANGED <<file_hdr_, page, fd2pageno_, pinned, cachedHdr>>
      /\ status' = "closed" /\ diskHdr' = HdrWritten
  BY DEF close_file
<1>2. HdrWritten' = HdrWritten /\ HdrWritten \in RmFileHdr
  BY <1>1 DEF HdrWritten, FileInv, TypeOK
<1>3. HdrWritten.num_pages = 1 => HdrWritten = NewFileHdr
  BY OnePageIsNew DEF HdrWritten, FileInv, HeaderInv
<1>4. HeaderInv'
  BY <1>1, <1>2, <1>3 DEF FileInv, HeaderInv
<1> QED BY <1>1, <1>2, <1>4, UntouchedKeeps DEF FileInv, TypeOK

\* open_file finds the file as it was closed, or a new one.
LEMMA OpenKeeps ==
    ASSUME FileInv, open_file
    PROVE  /\ FileInv' /\ pinned' = {} /\ page' = page
           /\ IF RM_FILE_HDR_PAGE \in pinned THEN file_hdr_' = NewFileHdr
                                             ELSE file_hdr_' = file_hdr_
<1>1. /\ status = "closed" /\ status' = "open" /\ UNCHANGED <<page, diskHdr>>
      /\ file_hdr_' = diskHdr /\ fd2pageno_' = diskHdr.num_pages
      /\ pinned' = {} /\ cachedHdr' = NewFileHdr
  BY DEF open_file, NextPageAfterOpen
<1>2. /\ NewFileHdr \in RmFileHdr /\ NewFileHdr.num_pages = 1
      /\ NewFileHdr.first_free_page_no = RM_NO_PAGE
  BY RmAssumption DEF NewFileHdr, RmFileHdr
<1>3. IF RM_FILE_HDR_PAGE \in pinned THEN file_hdr_' = NewFileHdr
                                    ELSE file_hdr_' = file_hdr_
  BY <1>1 DEF FileInv, HeaderInv, HdrWritten
<1>4. TypeOK'
  <2>1. diskHdr \in RmFileHdr /\ diskHdr.num_pages \in 1 .. MaxPages
    BY DEF FileInv, TypeOK, RmFileHdr
  <2> QED BY <1>1, <1>2, <2>1 DEF FileInv, TypeOK
<1>5. HasList(file_hdr_'.first_free_page_no, page', file_hdr_'.num_pages)
  BY <1>1, <1>2, <1>3, ListOfNewFile DEF FileInv
<1>6. CountsMatchBitmaps' /\ AllocatorInStep'
  BY <1>1 DEF FileInv, CountsMatchBitmaps, AllocatorInStep
<1>7. HeaderInv'
  <2>1. diskHdr.num_pages \in Nat
    BY RmAssumption DEF FileInv, TypeOK, RmFileHdr
  <2> QED BY <1>1, <2>1 DEF FileInv, HeaderInv
<1> QED BY <1>1, <1>3, <1>4, <1>5, <1>6, <1>7 DEF FileInv

\* Every operation keeps the invariant.
LEMMA FileStep ==
    ASSUME FileInv, [Next]_rmvars
    PROVE  FileInv'
<1>1. CASE UNCHANGED rmvars
  <2>1. UNCHANGED <<file_hdr_, page, fd2pageno_, pinned, diskHdr, cachedHdr, status>>
    BY <1>1 DEF rmvars
  <2>2. HeaderInv'
    BY <2>1 DEF FileInv, HeaderInv, HdrWritten
  <2> QED BY <2>1, <2>2, UntouchedKeeps DEF FileInv, TypeOK
<1>2. CASE Next
  BY <1>2, InsertKeeps, CrashKeeps, DeleteKeeps, UpdateKeeps, FetchKeeps, CloseKeeps, OpenKeeps
     DEF Next
<1> QED BY <1>1, <1>2

-----------------------------------------------------------------------------
(* The file implements a store of records                                  *)

Recs == [rid \in Used |-> page[rid.page_no].slots[rid.slot_no]]

Exposed == RM_FILE_HDR_PAGE \in pinned

LEMMA SameRid ==
    ASSUME NEW r \in Rids, NEW q \in Rids
    PROVE  r = q <=> r.page_no = q.page_no /\ r.slot_no = q.slot_no
BY DEF Rids

LEMMA InsertsUsed ==
    ASSUME NEW r \in Rids, NEW buf, Inserts(r, buf)
    PROVE  /\ Used' = Used \cup {r} /\ r \notin Used
           /\ Recs' = [q \in Used \cup {r} |-> IF q = r THEN buf ELSE Recs[q]]
<1>1. ASSUME NEW q \in Rids PROVE q \in Used' <=> q \in Used \/ q = r
  <2>1. /\ q.page_no \in RecordPages /\ q.slot_no \in Slots
        /\ r.page_no \in RecordPages /\ r.slot_no \in Slots
    BY DEF Rids
  <2>2. CASE q = r
    BY <2>1, <2>2 DEF Used, Inserts
  <2>3. CASE q # r /\ q.page_no = r.page_no
    BY <2>1, <2>3, SameRid DEF Used, Inserts
  <2>4. CASE q.page_no # r.page_no
    BY <2>1, <2>4 DEF Used, Inserts
  <2> QED BY <2>2, <2>3, <2>4
<1>2. Used' = Used \cup {r}
  <2>1. Used \subseteq Rids /\ Used' \subseteq Rids
    BY DEF Used
  <2> QED BY <1>1, <2>1
<1>3. r \notin Used
  BY DEF Inserts
<1>4. ASSUME NEW q \in Used \cup {r}
      PROVE  page'[q.page_no].slots[q.slot_no] = IF q = r THEN buf ELSE Recs[q]
  <2>1. CASE q = r
    BY <2>1 DEF Inserts
  <2>2. CASE q # r
    <3>1. /\ q \in Used /\ q \in Rids /\ q.page_no \in RecordPages /\ q.slot_no \in Slots
          /\ q.page_no \in PagesInFile
          /\ Recs[q] = page[q.page_no].slots[q.slot_no]
      BY <2>2 DEF Rids, Recs, Used
    <3>2. q.page_no # r.page_no \/ q.slot_no # r.slot_no
      BY <2>2, <3>1, SameRid
    <3> QED BY <2>2, <3>1, <3>2 DEF Inserts
  <2> QED BY <2>1, <2>2
<1>5. Recs' = [q \in Used' |-> page'[q.page_no].slots[q.slot_no]]
  BY DEF Recs
<1> QED BY <1>2, <1>3, <1>4, <1>5

LEMMA DeletesUsed ==
    ASSUME NEW r \in Rids, Deletes(r)
    PROVE  /\ Used' = Used \ {r} /\ r \in Used
           /\ Recs' = [q \in Used \ {r} |-> Recs[q]]
<1>1. ASSUME NEW q \in Rids PROVE q \in Used' <=> q \in Used /\ q # r
  <2>1. /\ q.page_no \in RecordPages /\ q.slot_no \in Slots
        /\ r.page_no \in RecordPages /\ r.slot_no \in Slots
        /\ PagesInFile' = PagesInFile
    BY DEF Rids, Deletes, PagesInFile
  <2>2. q.slot_no \in page'[q.page_no].bitmap <=>
           q.slot_no \in page[q.page_no].bitmap /\ q # r
    BY <2>1, SameRid DEF Deletes
  <2> QED BY <2>1, <2>2 DEF Used
<1>2. Used' = Used \ {r}
  <2>1. Used \subseteq Rids /\ Used' \subseteq Rids
    BY DEF Used
  <2> QED BY <1>1, <2>1
<1>3. r \in Used
  BY DEF Deletes
<1>4. ASSUME NEW q \in Used \ {r}
      PROVE  page'[q.page_no].slots[q.slot_no] = Recs[q]
  <2>1. /\ q.page_no \in RecordPages
        /\ Recs[q] = page[q.page_no].slots[q.slot_no]
    BY DEF Rids, Recs, Used
  <2>2. page'[q.page_no].slots = page[q.page_no].slots
    BY <2>1 DEF Deletes
  <2> QED BY <2>1, <2>2
<1>5. Recs' = [q \in Used' |-> page'[q.page_no].slots[q.slot_no]]
  BY DEF Recs
<1> QED BY <1>2, <1>3, <1>4, <1>5

LEMMA UpdatesUsed ==
    ASSUME NEW r \in Rids, NEW buf, Updates(r, buf)
    PROVE  /\ Used' = Used
           /\ Recs' = [q \in Used |-> IF q = r THEN buf ELSE Recs[q]]
<1>1. \A q \in Rids : q.page_no \in RecordPages /\ q.slot_no \in Slots
  BY DEF Rids
<1>2. Used' = Used
  BY <1>1 DEF Used, Updates, PagesInFile
<1>3. ASSUME NEW q \in Used
      PROVE  page'[q.page_no].slots[q.slot_no] = IF q = r THEN buf ELSE Recs[q]
  <2>1. q \in Rids /\ Recs[q] = page[q.page_no].slots[q.slot_no]
    BY DEF Recs, Used
  <2> QED BY <1>1, <2>1, SameRid DEF Updates
<1>4. Recs' = [q \in Used' |-> page'[q.page_no].slots[q.slot_no]]
  BY DEF Recs
<1> QED BY <1>2, <1>3, <1>4

LEMMA UntouchedUsed ==
    ASSUME UNCHANGED <<file_hdr_, page>>
    PROVE  Used' = Used /\ Recs' = Recs
BY DEF Used, Recs, PagesInFile

\* A pin on page 0 exposes the header; a pin on another page is invisible.
LEMMA PinsAreSeen ==
    ASSUME Recs' = Recs, pinned \subseteq pinned'
    PROVE  Store!Next \/ UNCHANGED <<Recs, Exposed>>
<1>1. CASE Exposed' = Exposed
  BY <1>1
<1>2. CASE Exposed' # Exposed
  <2>1. Exposed' = TRUE
    BY <1>2 DEF Exposed
  <2>2. Store!Expose
    BY <2>1 DEF Store!Expose, Recs, Exposed
  <2> QED BY <2>2 DEF Store!Next
<1> QED BY <1>1, <1>2

\* open_file gives the records back, or none.
LEMMA OpenIsReopen ==
    ASSUME FileInv, open_file
    PROVE  /\ Recs' = IF Exposed THEN [r \in {} |-> {}] ELSE Recs
           /\ Exposed' = FALSE
<1>1. /\ pinned' = {} /\ page' = page
      /\ IF Exposed THEN file_hdr_' = NewFileHdr ELSE file_hdr_' = file_hdr_
  BY OpenKeeps DEF Exposed
<1>2. CASE Exposed
  <2>1. PagesInFile' = {}
    BY <1>1, <1>2 DEF PagesInFile, NewFileHdr, RM_FIRST_RECORD_PAGE
  <2>2. Used' = {}
    BY <2>1 DEF Used
  <2> QED BY <1>1, <1>2, <2>2 DEF Recs, Exposed
<1>3. CASE ~Exposed
  BY <1>1, <1>3, UntouchedUsed DEF Exposed
<1> QED BY <1>2, <1>3

\* Every operation is one of the store's, or one the store does not see.
LEMMA StoreStep ==
    ASSUME FileInv, [Next]_rmvars
    PROVE  [Store!Next]_<<Recs, Exposed>>
<1>2. DOMAIN Recs = Used /\ Used \subseteq Rids
  BY DEF Recs, Used
<1>3. ASSUME NEW v \in Values, insert_record(v) PROVE Store!Next
  <2>1. PICK r \in Rids : Inserts(r, v)
    BY <1>3, InsertKeeps
  <2>2. /\ r \notin Used /\ Exposed' = Exposed
        /\ Recs' = [q \in Used \cup {r} |-> IF q = r THEN v ELSE Recs[q]]
    BY <2>1, InsertsUsed DEF Inserts, Exposed
  <2>3. Store!Insert(r, v)
    BY <1>2, <2>2 DEF Store!Insert, Store!Live, Recs, Exposed
  <2> QED BY <2>3 DEF Store!Next
<1>4. ASSUME NEW rid \in Rids, delete_record(rid)
      PROVE  Store!Next \/ UNCHANGED <<Recs, Exposed>>
  <2>0. Exposed' = Exposed
    BY <1>4, DeleteKeeps DEF Exposed
  <2>1. CASE Deletes(rid)
    <3>1. rid \in Used /\ Recs' = [q \in Used \ {rid} |-> Recs[q]]
      BY <2>1, DeletesUsed
    <3>2. Store!Delete(rid)
      BY <1>2, <2>0, <3>1 DEF Store!Delete, Store!Live, Recs, Exposed
    <3> QED BY <3>2 DEF Store!Next
  <2>2. CASE UNCHANGED <<page, file_hdr_>>
    BY <2>0, <2>2, UntouchedUsed
  <2> QED BY <1>4, <2>1, <2>2, DeleteKeeps
<1>5. ASSUME NEW rid \in Rids, NEW v \in Values, update_record(rid, v)
      PROVE  Store!Next \/ UNCHANGED <<Recs, Exposed>>
  <2>1. /\ Recs' = [q \in Used |-> IF q = rid THEN v ELSE Recs[q]]
        /\ Exposed' = Exposed
    BY <1>5, UpdateKeeps, UpdatesUsed DEF Exposed
  <2>2. CASE rid \in Used
    <3>1. Recs' = [Recs EXCEPT ![rid] = v]
      BY <1>2, <2>1
    <3>2. Store!Update(rid, v)
      BY <1>2, <2>1, <2>2, <3>1 DEF Store!Update, Store!Live, Recs, Exposed
    <3> QED BY <3>2 DEF Store!Next
  <2>3. CASE rid \notin Used
    <3>1. Recs = [q \in Used |-> Recs[q]]
      BY DEF Recs
    <3> QED BY <2>1, <2>3, <3>1
  <2> QED BY <2>2, <2>3
<1>6. ASSUME NEW n \in RecordPages \cup {RM_FILE_HDR_PAGE}, fetch_page_handle(n)
      PROVE  Store!Next \/ UNCHANGED <<Recs, Exposed>>
  <2>1. Recs' = Recs /\ pinned' = pinned \cup {n}
    BY <1>6, UntouchedUsed DEF fetch_page_handle
  <2> QED BY <2>1, PinsAreSeen
<1>7. CASE insert_record_crashes \/ close_file \/ UNCHANGED rmvars
  <2>1. UNCHANGED <<file_hdr_, page, pinned>>
    BY <1>7 DEF insert_record_crashes, close_file, rmvars
  <2> QED BY <2>1, UntouchedUsed DEF Exposed
<1>8. CASE open_file
  <2>1. Store!Reopen
    BY <1>8, OpenIsReopen DEF Store!Reopen, Store!NoRecords, Recs, Exposed
  <2> QED BY <2>1 DEF Store!Next
<1> QED BY <1>3, <1>4, <1>5, <1>6, <1>7, <1>8 DEF Next

LEMMA StoreInitial == Init => Recs = [r \in {} |-> {}] /\ Exposed = FALSE
<1> SUFFICES ASSUME Init PROVE Recs = [r \in {} |-> {}] /\ Exposed = FALSE
  OBVIOUS
<1>1. Used = {}
  BY DEF Init, Used, NewFileHdr, PagesInFile, RM_FIRST_RECORD_PAGE
<1> QED BY <1>1 DEF Recs, Exposed, Init

-----------------------------------------------------------------------------
(* Theorems                                                                *)

\* The invariant holds in every state of a table file that one thread at a time
\* uses: the theorems below are its parts.
THEOREM FileCorrect == Spec => []FileInv
BY FileInitial, FileStep, PTL DEF Spec

\* The records of a table file behave as RecordStore: insert_record returns an
\* unused rid and touches no other record, delete_record removes one record,
\* close_file, page allocation and list maintenance are invisible, and open_file
\* gives every record back, unless page 0 was in the pool when the file was
\* closed: then it gives none.
THEOREM FileImplementsStore == Spec => ImplementsRecordStore
<1>1. Init => Store!Init
  BY StoreInitial DEF Store!Init, Store!NoRecords, Recs, Exposed
<1>2. FileInv /\ [Next]_rmvars => [Store!Next]_<<Recs, Exposed>>
  BY StoreStep
<1>3. FileInv /\ [Next]_rmvars =>
         [Store!Next]_<<[rid \in Used |-> page[rid.page_no].slots[rid.slot_no]],
                        RM_FILE_HDR_PAGE \in pinned>>
  BY <1>2 DEF Recs, Exposed
<1> QED BY <1>1, <1>3, FileCorrect, PTL DEF Spec, ImplementsRecordStore, Store!Spec

\* After any sequence of operations the free-page list lists the pages with room,
\* each once, so insert_record finds a slot in the page it takes and never leaves
\* a hole unused.
THEOREM FileListExact == Spec => []FreeListIsExact
<1>1. FileInv => FreeListIsExact
  BY FileInvParts
<1> QED BY <1>1, FileCorrect, PTL

-----------------------------------------------------------------------------
(* Scans                                                                   *)

\* The invariant: the file's own, the stable records are still there, the scan
\* is nowhere past the end, it has returned the stable records up to its
\* position, and one that stands in page 0 began in a new file, whose header is
\* still on disk.
ScanInv ==
    /\ FileInv
    /\ ScanTypeOK
    /\ stable \subseteq Used
    /\ rid_ = NoScan => stable = {}
    /\ rid_ # NoScan => \/ rid_.page_no < file_hdr_.num_pages
                        \/ rid_ = End
    /\ rid_ # NoScan => \A r \in stable : ~Before(rid_, r) => r \in visited
    /\ rid_.page_no = RM_FILE_HDR_PAGE => diskHdr = NewFileHdr

LEMMA ConstantFacts ==
    /\ SlotsPerPage \in Nat \ {0} /\ Slots = 0 .. SlotsPerPage - 1
    /\ MaxPages \in Nat \ {0} /\ RecordPages = 1 .. MaxPages - 1
BY RmAssumption DEF Slots, RecordPages, RM_FIRST_RECORD_PAGE

\* A record lies in a slot of a page of the file.
LEMMA UsedRid ==
    ASSUME TypeOK, NEW u \in Used
    PROVE  /\ u \in Rids /\ u \in Positions
           /\ u.page_no \in Nat \ {0} /\ u.page_no < file_hdr_.num_pages
           /\ u.slot_no \in Nat /\ u.slot_no < SlotsPerPage
           /\ u.page_no \in PagesInFile /\ u.slot_no \in Slots
           /\ u.slot_no \in page[u.page_no].bitmap
<1>1. u \in Rids /\ u.page_no \in PagesInFile /\ u.slot_no \in page[u.page_no].bitmap
  BY DEF Used
<1>2. u = [page_no |-> u.page_no, slot_no |-> u.slot_no]
      /\ u.page_no \in RecordPages /\ u.slot_no \in Slots
  BY <1>1 DEF Rids
<1>3. u.page_no \in 0 .. MaxPages /\ u.slot_no \in 0 .. SlotsPerPage
  BY <1>2, ConstantFacts
<1>4. u \in Positions
  BY <1>2, <1>3 DEF Positions
<1> QED BY <1>1, <1>2, <1>4, ConstantFacts, NumPagesNat DEF PagesInFile, RM_FIRST_RECORD_PAGE

\* RmScan::next and the constructor stop at the first record after a position,
\* and at the end exactly if there is none.
LEMMA FirstFromIsFirst ==
    ASSUME TypeOK, NEW n \in 0 .. MaxPages, NEW curr \in -1 .. SlotsPerPage,
           NEW p, p = [page_no |-> n, slot_no |-> curr]
    PROVE  LET r == FirstFrom(n, curr)
           IN \/ /\ r = End
                 /\ \A u \in Used : ~Before(p, u)
              \/ /\ r \in Used
                 /\ Before(p, r)
                 /\ \A u \in Used : Before(p, u) => ~Before(u, r)
<1> DEFINE slotIn(m) == next_bit(TRUE, page[m].bitmap, IF m = n THEN curr ELSE -1)
           hits == {m \in PagesInFile : m >= n /\ slotIn(m) # SlotsPerPage}
           r == FirstFrom(n, curr)
<1>1. /\ n \in Nat /\ curr \in Int /\ curr >= -1
      /\ p.page_no = n /\ p.slot_no = curr
  BY ConstantFacts
<1>2. PagesInFile \subseteq Nat /\ PagesInFile \subseteq RecordPages
  BY ConstantFacts, NumPagesNat DEF PagesInFile, RM_FIRST_RECORD_PAGE
<1>3. ASSUME NEW m \in PagesInFile
      PROVE  /\ slotIn(m) \in 0 .. SlotsPerPage
             /\ slotIn(m) # SlotsPerPage =>
                   /\ slotIn(m) \in Slots
                   /\ m = n => slotIn(m) > curr
                   /\ slotIn(m) \in page[m].bitmap
             /\ \A i \in Slots : (m = n => i > curr) /\ i \in page[m].bitmap =>
                   slotIn(m) # SlotsPerPage /\ slotIn(m) <= i
  <2> DEFINE c == IF m = n THEN curr ELSE -1
  <2>1. c \in Int /\ TRUE \in BOOLEAN
    BY <1>1
  <2>2. \A i \in Slots : (m = n => i > curr) => i > c
    BY ConstantFacts
  <2>3. m = n => c = curr
    OBVIOUS
  <2>4. slotIn(m) = next_bit(TRUE, page[m].bitmap, c)
    OBVIOUS
  <2> HIDE DEF c, slotIn
  <2>5. PICK bitmap : bitmap = page[m].bitmap
    OBVIOUS
  <2>6. /\ next_bit(TRUE, bitmap, c) \in 0 .. SlotsPerPage
        /\ next_bit(TRUE, bitmap, c) # SlotsPerPage =>
              /\ next_bit(TRUE, bitmap, c) \in Slots
              /\ next_bit(TRUE, bitmap, c) > c
              /\ next_bit(TRUE, bitmap, c) \in bitmap
        /\ \A i \in Slots : i > c /\ i \in bitmap =>
              /\ next_bit(TRUE, bitmap, c) # SlotsPerPage
              /\ next_bit(TRUE, bitmap, c) <= i
    BY <2>1, NextBit
  <2> QED BY <2>2, <2>3, <2>4, <2>5, <2>6
<1>4. r = IF hits = {} THEN End
          ELSE LET m == CHOOSE m \in hits : \A k \in hits : m <= k
               IN [page_no |-> m, slot_no |-> slotIn(m)]
  BY DEF FirstFrom
<1>5. ASSUME NEW u \in Used, Before(p, u)
      PROVE  u.page_no \in hits /\ slotIn(u.page_no) <= u.slot_no
  <2>1. /\ u.page_no \in PagesInFile /\ u.slot_no \in Slots
        /\ u.slot_no \in page[u.page_no].bitmap
        /\ u.page_no \in Nat /\ u.slot_no \in Nat
    BY UsedRid
  <2>2. u.page_no >= n /\ (u.page_no = n => u.slot_no > curr)
    BY <1>1, <1>5, <2>1 DEF Before
  <2> HIDE DEF slotIn
  <2> QED BY <1>3, <2>1, <2>2
<1> HIDE DEF slotIn, r
<1>6. CASE hits = {}
  BY <1>4, <1>5, <1>6 DEF r
<1>7. CASE hits # {}
  <2>1. hits \in SUBSET Nat
    BY <1>2
  <2>2. PICK m \in hits : /\ \A k \in hits : m <= k
                          /\ r = [page_no |-> m, slot_no |-> slotIn(m)]
    <3>1. \E m \in hits : \A k \in hits : m <= k
      BY <1>7, <2>1, LeastNat
    <3> HIDE DEF hits
    <3> QED BY <1>4, <1>7, <3>1
  <2>3. /\ m \in PagesInFile /\ m >= n /\ slotIn(m) # SlotsPerPage
        /\ m \in Nat /\ m \in RecordPages
    BY <1>2
  <2>4. /\ slotIn(m) \in Slots /\ (m = n => slotIn(m) > curr) /\ slotIn(m) \in page[m].bitmap
    BY <1>3, <2>3
  <2>5. r.page_no = m /\ r.slot_no = slotIn(m) /\ r \in Rids
    BY <2>2, <2>3, <2>4 DEF Rids
  <2>6. r \in Used
    BY <2>3, <2>4, <2>5 DEF Used
  <2>7. Before(p, r)
    BY <1>1, <2>3, <2>4, <2>5, ConstantFacts DEF Before
  <2>8. ASSUME NEW u \in Used, Before(p, u), Before(u, r) PROVE FALSE
    <3>1. u.page_no \in hits /\ slotIn(u.page_no) <= u.slot_no
      BY <1>5, <2>8
    <3>2. m <= u.page_no /\ u.page_no \in Nat /\ u.slot_no \in Nat /\ slotIn(m) \in Nat
      BY <2>2, <2>4, <3>1, UsedRid, ConstantFacts
    <3>3. u.page_no = m /\ u.slot_no < slotIn(m)
      BY <2>3, <2>5, <2>8, <3>2 DEF Before
    <3> QED BY <3>1, <3>2, <3>3
  <2> QED BY <2>6, <2>7, <2>8 DEF r
<1> QED BY <1>6, <1>7

\* The order of the file is total on its records.
LEMMA BeforeIsTotal ==
    ASSUME TypeOK, NEW u \in Used, NEW r \in Used
    PROVE  Before(u, r) \/ Before(r, u) \/ u = r
BY UsedRid, SameRid DEF Before

\* Pins alone change in the file while the scan moves.
LEMMA PinsKeep ==
    ASSUME FileInv, status = "open",
           pinned' \subseteq pinned \cup PagesInFile \cup {RM_FILE_HDR_PAGE},
           cachedHdr' \in RmFileHdr,
           RM_FILE_HDR_PAGE \in pinned' => cachedHdr' = NewFileHdr,
           UNCHANGED <<file_hdr_, page, fd2pageno_, diskHdr, status>>
    PROVE  FileInv' /\ Used' = Used /\ End' = End
<1>1. PagesInFile \subseteq RecordPages
  BY ConstantFacts, NumPagesNat DEF FileInv, PagesInFile, RM_FIRST_RECORD_PAGE
<1>2. pinned' \subseteq RecordPages \cup {RM_FILE_HDR_PAGE}
  BY <1>1 DEF FileInv, TypeOK
<1>3. HeaderInv'
  BY DEF FileInv, HeaderInv
<1>4. FileInv'
  BY <1>2, <1>3, UntouchedKeeps DEF FileInv, TypeOK
<1> QED BY <1>4, UntouchedUsed DEF End

LEMMA PinnedAfterBounds ==
    ASSUME NEW touched
    PROVE  PinnedAfter(touched) \subseteq pinned \cup touched
BY DEF PinnedAfter

LEMMA EndIsPosition ==
    ASSUME TypeOK
    PROVE  End \in Positions /\ End.page_no = file_hdr_.num_pages /\ End.slot_no = SlotsPerPage
           /\ End \notin Used /\ NoScan \notin Positions
<1>1. file_hdr_.num_pages \in 0 .. MaxPages /\ SlotsPerPage \in 0 .. SlotsPerPage
  BY NumPagesNat, ConstantFacts
<1>2. End.page_no = file_hdr_.num_pages /\ End.slot_no = SlotsPerPage
  BY DEF End
<1>3. End \notin Used
  BY <1>2, UsedRid, ConstantFacts
<1> QED BY <1>1, <1>2, <1>3 DEF End, Positions, NoScan, RM_NO_PAGE

\* BeginAtRecord: the first record is returned, and none lies before it.
LEMMA BeginAtRecordKeeps ==
    ASSUME ScanInv, BeginAtRecord
    PROVE  ScanInv'
<1> DEFINE n == RM_FIRST_RECORD_PAGE
           r == FirstFrom(n, -1)
<1>1. /\ status = "open" /\ rid_ = NoScan /\ Used # {}
      /\ pinned' = PinnedAfter(Touched(n, r))
      /\ \/ rid_' = r /\ visited' = {r} /\ stable' = Used
         \/ UNCHANGED scanvars
      /\ UNCHANGED <<file_hdr_, page, fd2pageno_, diskHdr, cachedHdr, status>>
  BY DEF BeginAtRecord
<1>2. FileInv /\ TypeOK /\ ScanTypeOK /\ stable \subseteq Used
  BY DEF ScanInv, FileInv
<1>3. /\ pinned' \subseteq pinned \cup PagesInFile \cup {RM_FILE_HDR_PAGE}
      /\ RM_FILE_HDR_PAGE \in pinned' => cachedHdr' = NewFileHdr
  <2>1. RM_FILE_HDR_PAGE \notin Touched(n, r)
    BY DEF Touched, RM_FIRST_RECORD_PAGE, RM_FILE_HDR_PAGE
  <2>2. pinned' \subseteq pinned \cup Touched(n, r)
    BY <1>1, PinnedAfterBounds
  <2> QED BY <1>1, <1>2, <2>1, <2>2 DEF FileInv, HeaderInv, Touched
<1>4. FileInv' /\ Used' = Used /\ End' = End
  BY <1>1, <1>2, <1>3, PinsKeep DEF TypeOK
<1>5. r \in Used /\ \A u \in Used : ~Before(u, r)
  <2> DEFINE p == [page_no |-> n, slot_no |-> -1]
  <2>1. n \in 0 .. MaxPages /\ -1 \in -1 .. SlotsPerPage
    BY ConstantFacts DEF RM_FIRST_RECORD_PAGE
  <2>2. \A u \in Used : Before(p, u)
    BY <1>2, UsedRid DEF Before, RM_FIRST_RECORD_PAGE
  <2> HIDE DEF p
  <2>3. p = [page_no |-> n, slot_no |-> -1]
    BY DEF p
  <2> QED BY <1>1, <1>2, <2>1, <2>2, <2>3, FirstFromIsFirst
<1> HIDE DEF r
<1>6. CASE rid_' = r /\ visited' = {r} /\ stable' = Used
  <2>1. r \in Positions /\ r.page_no < file_hdr_.num_pages
    BY <1>2, <1>5, UsedRid
  <2>2. ScanTypeOK'
    BY <1>2, <1>6, <2>1 DEF ScanTypeOK, Used
  <2>3. \A u \in stable' : ~Before(r, u) => u \in visited'
    BY <1>2, <1>5, <1>6, BeforeIsTotal
  <2>4. rid_'.page_no # RM_FILE_HDR_PAGE
    BY <1>2, <1>5, <1>6, UsedRid DEF RM_FILE_HDR_PAGE
  <2>5. rid_' # NoScan
    BY <1>2, <1>6, <2>1, EndIsPosition
  <2> QED BY <1>1, <1>4, <1>6, <2>1, <2>2, <2>3, <2>4, <2>5 DEF ScanInv, Before
<1>7. CASE UNCHANGED scanvars
  <2>1. UNCHANGED <<rid_, visited, stable>>
    BY <1>7 DEF scanvars
  <2>2. NoScan' = NoScan
    BY DEF NoScan
  <2> QED BY <1>1, <1>2, <1>4, <2>1, <2>2 DEF ScanInv, ScanTypeOK
<1> QED BY <1>1, <1>6, <1>7

\* The constructor in a file without records: there is nothing to miss.
LEMMA BeginEmptyKeeps ==
    ASSUME ScanInv, BeginInNewFile \/ BeginInEmptiedFile
    PROVE  ScanInv'
<1>1. FileInv /\ TypeOK /\ ScanTypeOK /\ stable \subseteq Used /\ rid_ = NoScan
  BY DEF ScanInv, FileInv, BeginInNewFile, BeginInEmptiedFile
<1>2. FileInv' /\ Used' = Used /\ End' = End /\ file_hdr_' = file_hdr_
  <2>1. CASE BeginInNewFile
    <3>1. UNCHANGED <<file_hdr_, page, fd2pageno_, pinned, diskHdr, cachedHdr, status>>
          /\ status = "open"
      BY <2>1 DEF BeginInNewFile, rmvars
    <3> QED BY <1>1, <3>1, PinsKeep DEF TypeOK, FileInv, HeaderInv
  <2>2. CASE BeginInEmptiedFile
    <3>1. /\ pinned' \subseteq pinned \cup PagesInFile /\ status = "open"
          /\ UNCHANGED <<file_hdr_, page, fd2pageno_, diskHdr, cachedHdr, status>>
      BY <2>2, PinnedAfterBounds DEF BeginInEmptiedFile
    <3>2. RM_FILE_HDR_PAGE \notin PagesInFile
      BY DEF PagesInFile, RM_FIRST_RECORD_PAGE, RM_FILE_HDR_PAGE
    <3> QED BY <1>1, <3>1, <3>2, PinsKeep DEF TypeOK, FileInv, HeaderInv
  <2> QED BY <2>1, <2>2
<1>2b. diskHdr' = diskHdr
  BY DEF BeginInNewFile, BeginInEmptiedFile, rmvars
<1>3. CASE UNCHANGED scanvars
  BY <1>1, <1>2, <1>2b, <1>3 DEF scanvars, ScanInv, ScanTypeOK
<1>4. ASSUME NEW s \in 0 .. SlotsPerPage, NEW k \in Nat,
             k < file_hdr_.num_pages, k = 0 => diskHdr = NewFileHdr,
             rid_' = [page_no |-> k, slot_no |-> s],
             visited' = {rid_'}, stable' = {}
      PROVE  ScanInv'
  <2>1. rid_' \in Positions /\ rid_'.page_no = k
    <3>1. k \in 0 .. MaxPages
      BY <1>1, <1>4, NumPagesNat, ConstantFacts
    <3> QED BY <1>4, <3>1 DEF Positions
  <2> QED BY <1>2, <1>2b, <1>4, <2>1 DEF ScanInv, ScanTypeOK, RM_FILE_HDR_PAGE
<1>5. CASE BeginInNewFile
  <2>1. /\ rid_' = [page_no |-> 0, slot_no |-> SlotsPerPage]
        /\ visited' = {rid_'} /\ stable' = {}
    BY <1>5 DEF BeginInNewFile, RM_FILE_HDR_PAGE
  <2>2. 0 \in Nat /\ 0 < file_hdr_.num_pages /\ SlotsPerPage \in 0 .. SlotsPerPage
    BY <1>1, NumPagesNat, ConstantFacts
  <2>3. diskHdr = NewFileHdr
    BY <1>1, <1>5, NewFileOnDisk DEF BeginInNewFile
  <2> QED BY <1>4, <2>1, <2>2, <2>3
<1>6. CASE BeginInEmptiedFile
  <2>1. \/ UNCHANGED scanvars
        \/ \E s \in 0 .. SlotsPerPage :
               /\ rid_' = [page_no |-> file_hdr_.num_pages - 1, slot_no |-> s]
               /\ visited' = {rid_'} /\ stable' = {}
    BY <1>6 DEF BeginInEmptiedFile
  <2>2. file_hdr_.num_pages - 1 \in Nat /\ file_hdr_.num_pages - 1 < file_hdr_.num_pages
    BY <1>1, NumPagesNat
  <2>3. file_hdr_.num_pages - 1 # 0
    BY <1>1, <1>6, NumPagesNat DEF BeginInEmptiedFile, PagesInFile, RM_FIRST_RECORD_PAGE
  <2> QED BY <1>3, <1>4, <2>1, <2>2, <2>3
<1> QED BY <1>5, <1>6

\* next(): what lies between the old and the new position holds no record.
LEMMA NextKeeps ==
    ASSUME ScanInv, next
    PROVE  ScanInv' /\ (rid_' # NoScan => Before(rid_, rid_'))
<1> DEFINE n == rid_.page_no
           curr == rid_.slot_no
           r == FirstFrom(n, curr)
<1>1. /\ status = "open" /\ rid_ # NoScan /\ rid_ # End
      /\ pinned' = PinnedAfter(Touched(n, r))
      /\ cachedHdr' = IF RM_FILE_HDR_PAGE \in pinned' \ pinned THEN diskHdr ELSE cachedHdr
      /\ UNCHANGED <<file_hdr_, page, fd2pageno_, diskHdr, status>>
      /\ \/ /\ rid_' = r
            /\ visited' = IF r = End THEN visited ELSE visited \cup {r}
            /\ UNCHANGED stable
         \/ rid_' = NoScan /\ visited' = {} /\ stable' = {}
  BY DEF next, MoveTo, is_end
<1>2. /\ FileInv /\ TypeOK /\ ScanTypeOK /\ stable \subseteq Used
      /\ rid_.page_no < file_hdr_.num_pages
      /\ \A u \in stable : ~Before(rid_, u) => u \in visited
  BY <1>1 DEF ScanInv, FileInv
<1>3. /\ pinned' \subseteq pinned \cup PagesInFile \cup {RM_FILE_HDR_PAGE}
      /\ RM_FILE_HDR_PAGE \in pinned' => cachedHdr' = NewFileHdr
  <2>1. pinned' \subseteq pinned \cup Touched(n, r)
    BY <1>1, PinnedAfterBounds
  <2>2. RM_FILE_HDR_PAGE \in Touched(n, r) => diskHdr = NewFileHdr
    <3>1. n \in Nat
      BY <1>1, <1>2, ConstantFacts DEF ScanTypeOK, Positions
    <3>2. RM_FILE_HDR_PAGE \in Touched(n, r) => n = RM_FILE_HDR_PAGE
      BY <3>1 DEF Touched, RM_FILE_HDR_PAGE
    <3> QED BY <3>2 DEF ScanInv
  <2> QED BY <1>1, <1>2, <2>1, <2>2 DEF FileInv, HeaderInv, Touched
<1>4. FileInv' /\ Used' = Used /\ End' = End /\ file_hdr_' = file_hdr_
  BY <1>1, <1>2, <1>3, PinsKeep DEF TypeOK
<1>5. /\ rid_ \in Positions /\ n \in 0 .. MaxPages /\ curr \in -1 .. SlotsPerPage
      /\ rid_ = [page_no |-> n, slot_no |-> curr]
  BY <1>1, <1>2 DEF ScanTypeOK, Positions
<1>6. \/ /\ r = End
         /\ \A u \in Used : ~Before(rid_, u)
      \/ /\ r \in Used
         /\ Before(rid_, r)
         /\ \A u \in Used : Before(rid_, u) => ~Before(u, r)
  BY <1>2, <1>5, FirstFromIsFirst
<1>7. /\ End \in Positions /\ End.page_no = file_hdr_.num_pages
      /\ End \notin Used /\ NoScan \notin Positions
  BY <1>2, EndIsPosition
<1> HIDE DEF r
<1>8. /\ r \in Positions /\ Before(rid_, r) /\ (r.page_no < file_hdr_.num_pages \/ r = End)
      /\ r.page_no # RM_FILE_HDR_PAGE
  <2>1. CASE r = End
    BY <1>2, <1>7, <2>1, NumPagesNat DEF Before, RM_FILE_HDR_PAGE
  <2>2. CASE r # End
    BY <1>2, <1>6, <2>2, UsedRid DEF RM_FILE_HDR_PAGE
  <2> QED BY <2>1, <2>2
<1>9. CASE rid_' = NoScan /\ visited' = {} /\ stable' = {}
  BY <1>4, <1>9 DEF ScanInv, ScanTypeOK, NoScan, RM_NO_PAGE, RM_FILE_HDR_PAGE
<1>10. CASE /\ rid_' = r
            /\ visited' = IF r = End THEN visited ELSE visited \cup {r}
            /\ UNCHANGED stable
  <2>1. ScanTypeOK'
    BY <1>2, <1>8, <1>10 DEF ScanTypeOK
  <2>2. ASSUME NEW u \in stable, ~Before(r, u) PROVE u \in visited'
    <3>1. CASE ~Before(rid_, u)
      BY <1>2, <1>10, <3>1
    <3>2. CASE Before(rid_, u)
      <4>1. r \in Used /\ ~Before(u, r)
        BY <1>2, <1>6, <3>2
      <4>2. u = r
        BY <1>2, <2>2, <4>1, BeforeIsTotal
      <4> QED BY <1>7, <1>10, <4>1, <4>2
    <3> QED BY <3>1, <3>2
  <2>3. \A u \in stable' : ~Before(rid_', u) => u \in visited'
    BY <1>10, <2>2
  <2>4. Before(rid_, rid_')
    BY <1>8, <1>10
  <2>5. rid_' # NoScan
    BY <1>7, <1>8, <1>10
  <2> QED BY <1>2, <1>4, <1>8, <1>10, <2>1, <2>3, <2>4, <2>5 DEF ScanInv
<1> QED BY <1>1, <1>9, <1>10

LEMMA FinishKeeps ==
    ASSUME ScanInv, Finish
    PROVE  ScanInv'
<1>1. UNCHANGED <<file_hdr_, page, fd2pageno_, pinned, diskHdr, cachedHdr, status>>
      /\ rid_' = NoScan /\ visited' = {} /\ stable' = {}
  BY DEF Finish, rmvars
<1>2. FileInv'
  BY FileStep, <1>1 DEF ScanInv, rmvars
<1> QED BY <1>1, <1>2 DEF ScanInv, ScanTypeOK, NoScan, RM_NO_PAGE, RM_FILE_HDR_PAGE

\* Other threads' operations: a file never shrinks, so the position stays in it.
LEMMA OtherKeeps ==
    ASSUME ScanInv, Other
    PROVE  ScanInv'
<1>1. /\ FileInv /\ TypeOK /\ CountsMatchBitmaps /\ ScanTypeOK
      /\ rid_ # NoScan => rid_.page_no < file_hdr_.num_pages \/ rid_ = End
      /\ rid_ # NoScan => \A r \in stable : ~Before(rid_, r) => r \in visited
  BY DEF ScanInv, FileInv
<1>2. stable' = stable \cap Used' /\ UNCHANGED <<rid_, visited>> /\ Next
  BY DEF Other, Next
<1>3. FileInv' /\ TypeOK'
  BY <1>1, <1>2, FileStep DEF FileInv
<1>4. /\ file_hdr_.num_pages \in Nat
      /\ file_hdr_'.num_pages \in {file_hdr_.num_pages, file_hdr_.num_pages + 1}
  <2>1. ASSUME NEW v \in Values, insert_record(v)
        PROVE  file_hdr_'.num_pages \in {file_hdr_.num_pages, file_hdr_.num_pages + 1}
    BY <1>1, <2>1, InsertKeeps DEF Inserts
  <2>2. ASSUME NEW rid \in Rids, delete_record(rid)
        PROVE  file_hdr_'.num_pages = file_hdr_.num_pages
    BY <1>1, <2>2, DeleteKeeps DEF Deletes
  <2> QED BY <1>1, <2>1, <2>2, NumPagesNat
          DEF Other, insert_record_crashes, update_record, fetch_page_handle
<1>5. ASSUME rid_ # NoScan
      PROVE  rid_.page_no < file_hdr_'.num_pages \/ rid_ = End'
  <2>1. End.page_no = file_hdr_.num_pages /\ rid_ \in Positions
    BY <1>1, <1>5, EndIsPosition DEF ScanTypeOK
  <2>2. rid_.page_no \in Int
    BY <2>1, ConstantFacts DEF Positions
  <2>3. CASE file_hdr_'.num_pages = file_hdr_.num_pages
    BY <1>1, <1>5, <2>3 DEF End
  <2>4. CASE file_hdr_'.num_pages = file_hdr_.num_pages + 1
    BY <1>1, <1>4, <1>5, <2>1, <2>2, <2>4
  <2> QED BY <1>4, <2>3, <2>4
<1>6. diskHdr' = diskHdr
  BY DEF Other, insert_record, insert_record_crashes, delete_record, update_record,
         fetch_page_handle
<1> QED BY <1>1, <1>2, <1>3, <1>5, <1>6 DEF ScanInv, ScanTypeOK

LEMMA CloseOrOpenKeeps ==
    ASSUME ScanInv, CloseOrOpen
    PROVE  ScanInv'
<1>1. UNCHANGED <<rid_, visited, stable>> /\ rid_ = NoScan
  BY DEF CloseOrOpen, scanvars
<1>2. FileInv' /\ stable = {}
  BY <1>1, CloseKeeps, OpenKeeps DEF CloseOrOpen, ScanInv
<1> QED BY <1>1, <1>2 DEF ScanInv, ScanTypeOK, NoScan, RM_NO_PAGE, RM_FILE_HDR_PAGE

LEMMA ScanInitial == ScanInit => ScanInv
BY FileInitial DEF ScanInit, ScanInv, ScanTypeOK, Init

LEMMA ScanStep ==
    ASSUME ScanInv, [ScanNext]_vars
    PROVE  ScanInv'
<1>1. CASE UNCHANGED vars
  <2>1. UNCHANGED <<file_hdr_, page, fd2pageno_, pinned, diskHdr, cachedHdr, status>>
        /\ UNCHANGED <<rid_, visited, stable>>
    BY <1>1 DEF vars, rmvars, scanvars
  <2>2. FileInv'
    BY <2>1, FileStep DEF ScanInv, rmvars
  <2> QED BY <2>1, <2>2, UntouchedUsed DEF ScanInv, ScanTypeOK, End
<1>2. CASE ScanNext
  BY <1>2, BeginAtRecordKeeps, BeginEmptyKeeps, NextKeeps, FinishKeeps, OtherKeeps,
     CloseOrOpenKeeps DEF ScanNext
<1> QED BY <1>1, <1>2

\* To the file a step of the scan is a step of its own, or only pins pages.
LEMMA ScanStoreStep ==
    ASSUME ScanInv, [ScanNext]_vars
    PROVE  [Store!Next]_<<Recs, Exposed>>
<1>1. FileInv
  BY DEF ScanInv
<1>2. CASE Other \/ CloseOrOpen
  <2>1. Next
    BY <1>2 DEF Other, CloseOrOpen, Next
  <2> QED BY <1>1, <2>1, StoreStep
<1>3. CASE ~(Other \/ CloseOrOpen)
  <2>1. UNCHANGED <<file_hdr_, page>> /\ pinned \subseteq pinned'
    BY <1>3 DEF ScanNext, BeginAtRecord, BeginInNewFile, BeginInEmptiedFile, next, MoveTo,
                Finish, vars, rmvars, PinnedAfter
  <2> QED BY <2>1, UntouchedUsed, PinsAreSeen
<1> QED BY <1>2, <1>3

-----------------------------------------------------------------------------
(* Theorems                                                                *)

\* The invariant holds in every state of a file that a scan reads while other
\* threads insert, delete and update between its steps.
THEOREM ScanCorrect == ScanSpec => []ScanInv
BY ScanInitial, ScanStep, PTL DEF ScanSpec

\* RmScan returns every record that was there from its constructor on and that
\* nobody deleted, whatever insert_record and delete_record do meanwhile.
THEOREM ScanIsComplete == ScanSpec => []ScanMissesNoStableRecord
<1>1. ScanInv => ScanMissesNoStableRecord
  <2> SUFFICES ASSUME ScanInv, rid_ # NoScan, NEW r \in stable, is_end \/ ~Before(rid_, r)
               PROVE  r \in visited
    BY DEF ScanMissesNoStableRecord
  <2>1. ~Before(rid_, r)
    <3>1. CASE is_end
      <4>1. TypeOK /\ r \in Used
        BY DEF ScanInv, FileInv
      <4> QED BY <3>1, <4>1, UsedRid, EndIsPosition, NumPagesNat DEF is_end, Before
    <3> QED BY <3>1
  <2> QED BY <2>1 DEF ScanInv
<1> QED BY <1>1, ScanCorrect, PTL

\* RmScan::next never goes back and never returns a position twice, also when
\* the record it stood on was deleted or its slot refilled.
THEOREM ScanIsForward == ScanSpec => ScanGoesForward
<1>1. ScanInv /\ [ScanNext]_vars =>
         [rid_ # NoScan /\ rid_' # NoScan /\ rid_' # rid_ => Before(rid_, rid_')]_vars
  <2> SUFFICES ASSUME ScanInv, ScanNext, rid_ # NoScan, rid_' # NoScan, rid_' # rid_
               PROVE  Before(rid_, rid_')
    OBVIOUS
  <2>1. next
    BY DEF ScanNext, BeginAtRecord, BeginInNewFile, BeginInEmptiedFile, Finish, Other, CloseOrOpen
  <2> QED BY <2>1, NextKeeps
<1> QED BY <1>1, ScanCorrect, PTL DEF ScanSpec, ScanGoesForward

\* With scans running, the free-page list still lists the pages with room, each
\* once: insert_record finds a slot in the page it takes.
THEOREM FreeListCorrect == ScanSpec => []FreeListIsExact
<1>1. ScanInv => FreeListIsExact
  BY FileInvParts DEF ScanInv
<1> QED BY <1>1, ScanCorrect, PTL

\* num_records, by which insert_record and delete_record move pages on and off
\* the list, is the number of bits set.
THEOREM CountsCorrect == ScanSpec => []CountsMatchBitmaps
<1>1. ScanInv => CountsMatchBitmaps
  BY DEF ScanInv, FileInv
<1> QED BY <1>1, ScanCorrect, PTL

\* Seen through its rids the file is a RecordStore also while it is scanned: a
\* scan pins pages and changes no record, but one that begins in a new file
\* exposes the header.
THEOREM ScanImplementsStore == ScanSpec => ImplementsRecordStore
<1>1. ScanInit => Store!Init
  BY StoreInitial DEF Store!Init, Store!NoRecords, Recs, Exposed, ScanInit
<1>2. ScanInv /\ [ScanNext]_vars => [Store!Next]_<<Recs, Exposed>>
  BY ScanStoreStep
<1>3. ScanInv /\ [ScanNext]_vars =>
         [Store!Next]_<<[rid \in Used |-> page[rid.page_no].slots[rid.slot_no]],
                        RM_FILE_HDR_PAGE \in pinned>>
  BY <1>2 DEF Recs, Exposed
<1> QED BY <1>1, <1>3, ScanCorrect, PTL DEF ScanSpec, ImplementsRecordStore, Store!Spec

=============================================================================
