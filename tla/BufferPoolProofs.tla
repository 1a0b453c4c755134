-------------------------- MODULE BufferPoolProofs --------------------------
(***************************************************************************)
(* Proofs about the buffer pool, for every pool size, every set of files   *)
(* and every number of clients: where pages are, that nothing is lost (no  *)
(* frame and no write), and that the pool implements the store of pages.   *)
(***************************************************************************)
EXTENDS BufferPool, SequenceTheorems, FiniteSetTheorems, TLAPS

-----------------------------------------------------------------------------
(* The lists                                                               *)

\* Taking the front of a list without repetitions (LRUReplacer::Victim, and
\* free_list_.pop_front) removes that frame and no other.
LEMMA TailDropsHead ==
    ASSUME NEW S, NEW s \in Seq(S), s # <<>>, IsInjective(s)
    PROVE  /\ Head(s) \in S
           /\ Listed(s, Head(s))
           /\ Tail(s) \in Seq(S)
           /\ IsInjective(Tail(s))
           /\ \A x : Listed(Tail(s), x) <=> Listed(s, x) /\ x # Head(s)
<1>1. /\ Len(s) \in Nat /\ Len(s) > 0 /\ DOMAIN s = 1 .. Len(s)
      /\ Head(s) \in S /\ Head(s) = s[1]
      /\ Tail(s) \in Seq(S) /\ Len(Tail(s)) = Len(s) - 1
      /\ DOMAIN Tail(s) = 1 .. Len(s) - 1
      /\ \A i \in 1 .. Len(s) - 1 : Tail(s)[i] = s[i + 1]
  BY HeadTailProperties, LenProperties
<1>2. IsInjective(Tail(s))
  BY <1>1 DEF IsInjective
<1>3. ASSUME NEW x PROVE Listed(Tail(s), x) <=> Listed(s, x) /\ x # Head(s)
  <2>1. ASSUME Listed(Tail(s), x) PROVE Listed(s, x) /\ x # Head(s)
    BY <1>1, <2>1 DEF Listed, IsInjective
  <2>2. ASSUME Listed(s, x), x # Head(s) PROVE Listed(Tail(s), x)
    <3>1. PICK i \in 1 .. Len(s) : s[i] = x
      BY <1>1, <2>2 DEF Listed
    <3>2. i # 1 /\ i - 1 \in 1 .. Len(s) - 1 /\ Tail(s)[i - 1] = x
      BY <1>1, <2>2, <3>1
    <3> QED BY <1>1, <3>2 DEF Listed
  <2> QED BY <2>1, <2>2
<1> QED BY <1>1, <1>2, <1>3 DEF Listed

\* Pinning a frame removes it from the replacer and leaves the others, in
\* their order.
LEMMA PinRemoves ==
    ASSUME NEW S, NEW s \in Seq(S), NEW f, IsInjective(s)
    PROVE  /\ ReplacerPin(s, f) \in Seq(S)
           /\ IsInjective(ReplacerPin(s, f))
           /\ \A x : Listed(ReplacerPin(s, f), x) <=> Listed(s, x) /\ x # f
<1>1. CASE ~Listed(s, f)
  BY <1>1 DEF ReplacerPin
<1>2. CASE Listed(s, f)
  <2> DEFINE k == CHOOSE i \in DOMAIN s : s[i] = f
             a == SubSeq(s, 1, k - 1)
             b == SubSeq(s, k + 1, Len(s))
             r == a \o b
  <2>1. Len(s) \in Nat /\ DOMAIN s = 1 .. Len(s)
    BY LenProperties
  <2>2. k \in 1 .. Len(s) /\ s[k] = f
    BY <1>2, <2>1 DEF Listed
  <2> HIDE DEF k
  <2>3. /\ a \in Seq(S) /\ Len(a) = k - 1
        /\ \A i \in 1 .. k - 1 : a[i] = s[i]
    BY <2>1, <2>2, SubSeqProperties, Z3
  <2>4. /\ b \in Seq(S) /\ Len(b) = Len(s) - k
        /\ \A i \in 1 .. Len(s) - k : b[i] = s[k + i]
    <3> DEFINE m == k + 1
               n == Len(s)
    <3>1. m \in Int /\ n \in Int /\ \A i \in m .. n : s[i] \in S
      BY <2>1, <2>2, ElementOfSeq
    <3>2. m = k + 1 /\ n = Len(s) /\ k \in 1 .. n /\ n \in Nat
      BY <2>1, <2>2
    <3>3. b = SubSeq(s, m, n)
      OBVIOUS
    <3> HIDE DEF a, b, m, n
    <3>4. /\ b \in Seq(S)
          /\ Len(b) = IF m <= n THEN n - m + 1 ELSE 0
          /\ \A i \in 1 .. n - m + 1 : b[i] = s[m + i - 1]
      BY <3>1, <3>3, SubSeqProperties, Z3
    <3>5. Len(b) = n - k
      BY <3>2, <3>4
    <3>6. ASSUME NEW i \in 1 .. n - k PROVE b[i] = s[k + i]
      <4>1. i \in 1 .. n - m + 1 /\ m + i - 1 = k + i
        BY <3>2
      <4> QED BY <3>4, <4>1
    <3> QED BY <3>2, <3>4, <3>5, <3>6
  <2> HIDE DEF a, b
  <2>5. /\ r \in Seq(S) /\ Len(r) = Len(s) - 1 /\ DOMAIN r = 1 .. Len(s) - 1
        /\ \A i \in 1 .. Len(s) - 1 : r[i] = IF i < k THEN s[i] ELSE s[i + 1]
    <3>1. /\ r \in Seq(S) /\ Len(r) = Len(a) + Len(b)
          /\ \A i \in 1 .. Len(a) + Len(b) :
                 r[i] = IF i <= Len(a) THEN a[i] ELSE b[i - Len(a)]
      BY <2>3, <2>4, ConcatProperties, Zenon
    <3> HIDE DEF r
    <3>2. Len(r) = Len(s) - 1 /\ DOMAIN r = 1 .. Len(s) - 1
      BY <2>1, <2>2, <2>3, <2>4, <3>1, LenProperties
    <3>3. ASSUME NEW i \in 1 .. Len(s) - 1
          PROVE  r[i] = IF i < k THEN s[i] ELSE s[i + 1]
      <4>1. CASE i < k
        <5>1. i \in 1 .. k - 1 /\ i \in 1 .. (k - 1) + (Len(s) - k) /\ i <= k - 1
          BY <2>1, <2>2, <4>1
        <5>2. r[i] = a[i]
          BY <2>3, <2>4, <3>1, <5>1
        <5> QED BY <2>3, <4>1, <5>1, <5>2
      <4>2. CASE ~(i < k)
        <5>1. /\ i - (k - 1) \in 1 .. Len(s) - k /\ k + (i - (k - 1)) = i + 1
              /\ i \in 1 .. (k - 1) + (Len(s) - k) /\ ~(i <= k - 1)
          BY <2>1, <2>2, <4>2
        <5>2. r[i] = b[i - (k - 1)]
          BY <2>3, <2>4, <3>1, <5>1
        <5>3. b[i - (k - 1)] = s[k + (i - (k - 1))]
          BY <2>4, <5>1
        <5> QED BY <4>2, <5>1, <5>2, <5>3
      <4> QED BY <4>1, <4>2
    <3> QED BY <3>1, <3>2, <3>3
  <2>6. ReplacerPin(s, f) = r
    BY <1>2 DEF ReplacerPin, RemoveAt, k, a, b
  <2> HIDE DEF r
  <2>7. IsInjective(r)
    <3>1. ASSUME NEW i \in 1 .. Len(s) - 1, NEW j \in 1 .. Len(s) - 1, r[i] = r[j]
          PROVE  i = j
      <4> DEFINE g(x) == IF x < k THEN x ELSE x + 1
      <4>1. /\ g(i) \in 1 .. Len(s) /\ g(j) \in 1 .. Len(s)
            /\ r[i] = s[g(i)] /\ r[j] = s[g(j)]
        BY <2>1, <2>2, <2>5
      <4>2. g(i) = g(j)
        BY <2>1, <3>1, <4>1 DEF IsInjective
      <4> QED BY <2>1, <2>2, <4>2
    <3> QED BY <2>5, <3>1 DEF IsInjective
  <2>8. ASSUME NEW x PROVE Listed(r, x) <=> Listed(s, x) /\ x # f
    <3>1. ASSUME Listed(r, x) PROVE Listed(s, x) /\ x # f
      BY <2>1, <2>2, <2>5, <3>1 DEF Listed, IsInjective
    <3>2. ASSUME Listed(s, x), x # f PROVE Listed(r, x)
      <4>1. PICK i \in 1 .. Len(s) : s[i] = x
        BY <2>1, <3>2 DEF Listed
      <4>2. CASE i < k
        BY <2>1, <2>2, <2>5, <4>1, <4>2 DEF Listed
      <4>3. CASE i > k
        <5>1. i - 1 \in 1 .. Len(s) - 1 /\ r[i - 1] = x
          BY <2>1, <2>2, <2>5, <4>1, <4>3
        <5> QED BY <2>5, <5>1 DEF Listed
      <4> QED BY <2>1, <2>2, <3>2, <4>1, <4>2, <4>3
    <3> QED BY <3>1, <3>2
  <2> QED BY <2>5, <2>6, <2>7, <2>8
<1> QED BY <1>1, <1>2

\* Appending a frame that is not in the list adds it and no other.
LEMMA AppendAdds ==
    ASSUME NEW S, NEW s \in Seq(S), NEW f \in S, IsInjective(s), ~Listed(s, f)
    PROVE  /\ Append(s, f) \in Seq(S)
           /\ IsInjective(Append(s, f))
           /\ \A x : Listed(Append(s, f), x) <=> Listed(s, x) \/ x = f
<1> DEFINE r == Append(s, f)
<1>1. /\ Len(s) \in Nat /\ DOMAIN s = 1 .. Len(s)
      /\ r \in Seq(S) /\ DOMAIN r = 1 .. Len(s) + 1
      /\ \A i \in 1 .. Len(s) : r[i] = s[i]
      /\ r[Len(s) + 1] = f
  BY AppendProperties, LenProperties
<1> HIDE DEF r
<1>2. IsInjective(r)
  BY <1>1 DEF IsInjective, Listed
<1>3. \A x : Listed(r, x) <=> Listed(s, x) \/ x = f
  BY <1>1 DEF Listed
<1> QED BY <1>1, <1>2, <1>3 DEF r

\* Unpinning a frame adds it to the replacer if it was not there.
LEMMA UnpinAdds ==
    ASSUME NEW S, NEW s \in Seq(S), NEW f \in S, IsInjective(s)
    PROVE  /\ ReplacerUnpin(s, f) \in Seq(S)
           /\ IsInjective(ReplacerUnpin(s, f))
           /\ \A x : Listed(ReplacerUnpin(s, f), x) <=> Listed(s, x) \/ x = f
BY AppendAdds DEF ReplacerUnpin

-----------------------------------------------------------------------------
(* Users of a frame                                                        *)

\* A client that starts to use frame f adds one user to f and to no other.
LEMMA UserAdded ==
    ASSUME TypeOK, NEW c \in Clients, handle[c] = Idle,
           NEW f \in Frames, NEW p \in PageIds,
           handle' = [handle EXCEPT ![c] = [page |-> p, frame |-> f, wrote |-> FALSE]]
    PROVE  /\ Cardinality(Users(f)') = Cardinality(Users(f)) + 1
           /\ \A g \in Frames : g # f => Users(g)' = Users(g)
<1>1. f # INVALID_FRAME_ID /\ Idle.frame = INVALID_FRAME_ID
  BY PoolAssumption DEF Frames, INVALID_FRAME_ID, Idle
<1>2. c \notin Users(f) /\ Users(f)' = Users(f) \cup {c}
  BY <1>1 DEF Users, TypeOK
<1>3. IsFiniteSet(Users(f))
  BY PoolAssumption, FS_Subset DEF Users
<1>4. Cardinality(Users(f)') = Cardinality(Users(f)) + 1
  BY <1>2, <1>3, FS_AddElement
<1>5. ASSUME NEW g \in Frames, g # f PROVE Users(g)' = Users(g)
  <2>1. g # INVALID_FRAME_ID
    BY PoolAssumption DEF Frames, INVALID_FRAME_ID
  <2> QED BY <1>1, <1>5, <2>1 DEF Users, TypeOK
<1> QED BY <1>4, <1>5

\* A client that ends its use of frame f takes one user from f only.
LEMMA UserRemoved ==
    ASSUME TypeOK, NEW c \in Clients, handle[c] # Idle,
           handle' = [handle EXCEPT ![c] = Idle]
    PROVE  /\ handle[c].frame \in Frames
           /\ Cardinality(Users(handle[c].frame)) \in Nat \ {0}
           /\ Cardinality({x \in Clients : handle'[x].frame = handle[c].frame})
                 = Cardinality(Users(handle[c].frame)) - 1
           /\ \A g \in Frames : g # handle[c].frame => Users(g)' = Users(g)
<1> DEFINE f == handle[c].frame
<1>1. f \in Frames
  BY DEF TypeOK, Handles
<1>2. \A g \in Frames : g # Idle.frame
  BY PoolAssumption DEF Frames, INVALID_FRAME_ID, Idle
<1>3. c \in Users(f) /\ {x \in Clients : handle'[x].frame = f} = Users(f) \ {c}
  BY <1>1, <1>2 DEF Users, TypeOK
<1>4. IsFiniteSet(Users(f))
  BY PoolAssumption, FS_Subset DEF Users
<1>5. /\ Cardinality(Users(f)) \in Nat
      /\ Cardinality(Users(f) \ {c}) \in Nat
      /\ Cardinality(Users(f) \ {c}) = Cardinality(Users(f)) - 1
  BY <1>3, <1>4, FS_RemoveElement, FS_CardinalityType
<1>6. ASSUME NEW g \in Frames, g # f PROVE Users(g)' = Users(g)
  BY <1>1, <1>2, <1>6 DEF Users, TypeOK
<1>7. Cardinality(Users(f)) # 0
  BY <1>5
<1> QED BY <1>1, <1>3, <1>5, <1>6, <1>7

\* A frame without pins has no users, and no client's page is in it.
LEMMA NoPinNoUser ==
    ASSUME PlacementInv, NEW f \in Frames, pages_[f].pin_count_ = 0, NEW c \in Clients
    PROVE  handle[c].frame # f
<1>1. Cardinality(Users(f)) = 0
  BY DEF PlacementInv, PinsProtectFrames
<1>2. IsFiniteSet(Users(f))
  BY PoolAssumption, FS_Subset DEF Users
<1>3. Users(f) = {}
  BY <1>1, <1>2, FS_EmptySet
<1> QED BY <1>3 DEF Users

-----------------------------------------------------------------------------
(* The frame FetchPage and NewPage take                                    *)

\* The frame taken is unpinned and leaves the list it was in; it holds a
\* cached page exactly when it came from the replacer.
LEMMA TakenFrameFacts ==
    ASSUME PlacementInv, HasFrame
    PROVE  /\ TakenFrame \in Frames
           /\ pages_[TakenFrame].pin_count_ = 0
           /\ FreeListAfter \in Seq(Frames) /\ IsInjective(FreeListAfter)
           /\ LRUlistAfter \in Seq(Frames) /\ IsInjective(LRUlistAfter)
           /\ \A x : Listed(FreeListAfter, x) <=> InFreeList(x) /\ x # TakenFrame
           /\ \A x : Listed(LRUlistAfter, x) <=> InReplacer(x) /\ x # TakenFrame
           /\ Cached(pages_[TakenFrame].id_) <=> ~InFreeList(TakenFrame)
           /\ Cached(pages_[TakenFrame].id_) => FrameOf(pages_[TakenFrame].id_) = TakenFrame
<1>1. CASE free_list_ # <<>>
  <2> DEFINE f == Head(free_list_)
  <2>1. /\ TakenFrame = f /\ FreeListAfter = Tail(free_list_)
        /\ LRUlistAfter = LRUlist_
    BY <1>1 DEF TakenFrame, FreeListAfter, LRUlistAfter
  <2>2. /\ f \in Frames /\ InFreeList(f)
        /\ Tail(free_list_) \in Seq(Frames) /\ IsInjective(Tail(free_list_))
        /\ \A x : Listed(Tail(free_list_), x) <=> InFreeList(x) /\ x # f
    BY <1>1, TailDropsHead DEF PlacementInv, TypeOK, ReuseIsExclusive, InFreeList
  <2> HIDE DEF f
  <2>3. ~InReplacer(f) /\ pages_[f].pin_count_ = 0
    BY <2>2 DEF PlacementInv, ReuseIsExclusive, PinnedIsNotReusable
  <2>4. ~Cached(pages_[f].id_)
    <3>1. NoPage \notin PageIds
      BY PoolAssumption DEF NoPage, PageIds
    <3> QED BY <2>2, <3>1 DEF PlacementInv, StaleIdsAreDead, Cached
  <2>5. LRUlist_ \in Seq(Frames) /\ IsInjective(LRUlist_)
    BY DEF PlacementInv, TypeOK, ReuseIsExclusive
  <2>6. \A x : Listed(LRUlist_, x) <=> InReplacer(x) /\ x # f
    BY <2>3 DEF InReplacer
  <2> QED BY <2>1, <2>2, <2>3, <2>4, <2>5, <2>6
<1>2. CASE free_list_ = <<>>
  <2> DEFINE f == Head(LRUlist_)
  <2>1. /\ TakenFrame = f /\ FreeListAfter = free_list_
        /\ LRUlistAfter = Tail(LRUlist_) /\ LRUlist_ # <<>>
    BY <1>2 DEF TakenFrame, FreeListAfter, LRUlistAfter, HasFrame, HasVictim, VictimOf,
                AfterVictim
  <2>2. /\ f \in Frames /\ InReplacer(f)
        /\ Tail(LRUlist_) \in Seq(Frames) /\ IsInjective(Tail(LRUlist_))
        /\ \A x : Listed(Tail(LRUlist_), x) <=> InReplacer(x) /\ x # f
    BY <2>1, TailDropsHead DEF PlacementInv, TypeOK, ReuseIsExclusive, InReplacer
  <2> HIDE DEF f
  <2>3. ~InFreeList(f) /\ pages_[f].pin_count_ = 0
    BY <2>2 DEF PlacementInv, ReuseIsExclusive, PinnedIsNotReusable
  <2>4. Cached(pages_[f].id_) /\ FrameOf(pages_[f].id_) = f
    BY <2>2, <2>3 DEF PlacementInv, PageTableMatchesFrames
  <2>5. free_list_ \in Seq(Frames) /\ IsInjective(free_list_)
    BY DEF PlacementInv, TypeOK, ReuseIsExclusive
  <2>6. \A x : Listed(free_list_, x) <=> InFreeList(x) /\ x # f
    BY <2>3 DEF InFreeList
  <2> QED BY <2>1, <2>2, <2>3, <2>4, <2>5, <2>6
<1> QED BY <1>1, <1>2

\* Putting page p, not cached so far, into the frame that was taken for it
\* keeps the lists, the table and the other clients' pages in order.  FetchPage
\* (on a miss, even when reading the page throws) and NewPage both do this.
LEMMA PlacePreserves ==
    ASSUME PlacementInv, HasFrame,
           NEW p \in PageIds, ~Cached(p), p \notin retired, p \in Allocated',
           Allocated \subseteq Allocated',
           NEW f, f = TakenFrame,
           free_list_' = FreeListAfter,
           IsInjective(LRUlist_'),
           \A x : Listed(LRUlist_', x) <=> InReplacer(x) /\ x # f,
           page_table_' = Remap(pages_[f].id_, p, f),
           \A x \in Frames \ {f} :
               /\ pages_'[x].id_ = pages_[x].id_
               /\ pages_'[x].pin_count_ = pages_[x].pin_count_
               /\ pages_'[x].is_dirty_ => pages_[x].is_dirty_,
           pages_'[f].id_ = p,
           retired' = retired
    PROVE  /\ ReuseIsExclusive'
           /\ PinnedIsNotReusable'
           /\ PageTableMatchesFrames'
           /\ StaleIdsAreDead'
           /\ page_table_'[p] = f
           /\ \A d \in Clients : handle[d] # Idle =>
                 /\ handle[d].page \in PageIds /\ handle[d].frame \in Frames
                 /\ page_table_'[handle[d].page] = handle[d].frame
<1> DEFINE old == pages_[f].id_
<1>1. /\ f \in Frames /\ pages_[f].pin_count_ = 0
      /\ FreeListAfter \in Seq(Frames) /\ IsInjective(FreeListAfter)
      /\ \A x : Listed(FreeListAfter, x) <=> InFreeList(x) /\ x # f
      /\ Cached(old) <=> ~InFreeList(f)
      /\ Cached(old) => FrameOf(old) = f
  BY TakenFrameFacts
<1>2. /\ IsInjective(LRUlist_')
      /\ \A x : Listed(LRUlist_', x) <=> InReplacer(x) /\ x # f
      /\ \A x : Listed(free_list_', x) <=> InFreeList(x) /\ x # f
      /\ IsInjective(free_list_')
  BY <1>1
<1>3. ReuseIsExclusive'
  BY <1>2 DEF PlacementInv, ReuseIsExclusive, InFreeList, InReplacer
<1>4. PinnedIsNotReusable'
  BY <1>2 DEF PlacementInv, PinnedIsNotReusable, InFreeList, InReplacer
<1>5. f # INVALID_FRAME_ID /\ old # p
  BY <1>1, PoolAssumption DEF Frames, INVALID_FRAME_ID, PlacementInv, StaleIdsAreDead,
                              NoPage, PageIds
<1>6. /\ page_table_'[p] = f
      /\ \A q \in PageIds \ {p} : page_table_'[q] = IF q = old THEN INVALID_FRAME_ID
                                                    ELSE page_table_[q]
  BY <1>5 DEF Remap, Cached
<1>7. \A q \in PageIds : Cached(q)' <=> q = p \/ (Cached(q) /\ q # old)
  BY <1>5, <1>6 DEF Cached
<1>8. \A q \in PageIds : Cached(q) /\ q # old => FrameOf(q) # f /\ FrameOf(q)' = FrameOf(q)
                                               /\ FrameOf(q) \in Frames
  <2> SUFFICES ASSUME NEW q \in PageIds, Cached(q), q # old
               PROVE  FrameOf(q) # f /\ FrameOf(q)' = FrameOf(q) /\ FrameOf(q) \in Frames
    OBVIOUS
  <2>1. pages_[FrameOf(q)].id_ = q /\ FrameOf(q) \in Frames
    BY DEF PlacementInv, PageTableMatchesFrames, Cached, FrameOf, TypeOK
  <2>2. q # p
    OBVIOUS
  <2> QED BY <1>6, <2>1, <2>2 DEF FrameOf
<1>9. PageTableMatchesFrames'
  <2>1. ASSUME NEW q \in PageIds, Cached(q)'
        PROVE  pages_'[page_table_'[q]].id_ = q /\ ~Listed(free_list_', page_table_'[q])
    <3>1. CASE q = p
      BY <1>1, <1>2, <1>6, <3>1 DEF FrameOf
    <3>2. CASE q # p
      <4>1. Cached(q) /\ q # old
        BY <1>7, <2>1, <3>2
      <4>2. pages_[FrameOf(q)].id_ = q /\ ~InFreeList(FrameOf(q))
        BY <4>1 DEF PlacementInv, PageTableMatchesFrames
      <4> QED BY <1>2, <1>8, <4>1, <4>2 DEF FrameOf
    <3> QED BY <3>1, <3>2
  <2>2. ASSUME NEW g \in Frames, ~Listed(free_list_', g)
        PROVE  /\ pages_'[g].id_ \in PageIds
               /\ page_table_'[pages_'[g].id_] = g
    <3>1. CASE g = f
      BY <1>6, <3>1
    <3>2. CASE g # f
      <4>1. Cached(pages_[g].id_) /\ FrameOf(pages_[g].id_) = g
        BY <1>2, <2>2, <3>2 DEF PlacementInv, PageTableMatchesFrames
      <4>2. pages_[g].id_ \in PageIds /\ pages_[g].id_ # old /\ pages_[g].id_ # p
        BY <1>1, <3>2, <4>1 DEF Cached
      <4>3. pages_'[g].id_ = pages_[g].id_
        BY <3>2
      <4> QED BY <1>6, <4>1, <4>2, <4>3 DEF Cached, FrameOf
    <3> QED BY <3>1, <3>2
  <2>3. \A g \in Frames : g # INVALID_FRAME_ID
    BY PoolAssumption DEF Frames, INVALID_FRAME_ID
  <2> QED BY <2>1, <2>2, <2>3 DEF PageTableMatchesFrames, FrameOf, InFreeList, Cached
<1>10. ASSUME NEW d \in Clients, handle[d] # Idle
       PROVE  /\ handle[d].page \in PageIds /\ handle[d].frame \in Frames
              /\ page_table_'[handle[d].page] = handle[d].frame
  <2>1. Cached(handle[d].page) /\ FrameOf(handle[d].page) = handle[d].frame
    BY <1>10 DEF PlacementInv, PinsProtectFrames
  <2>2. handle[d].frame # f
    BY <1>1, NoPinNoUser
  <2>3. handle[d].page # old /\ handle[d].page \in PageIds
    BY <1>1, <2>1, <2>2 DEF Cached
  <2> QED BY <1>8, <2>1, <2>3 DEF FrameOf
<1>11. StaleIdsAreDead'
  <2>1. ASSUME NEW g \in Frames, Listed(free_list_', g)
        PROVE  ~pages_'[g].is_dirty_ /\ pages_'[g].id_ \in retired' \cup {NoPage}
    BY <1>2, <2>1 DEF PlacementInv, StaleIdsAreDead
  <2>2. ASSUME NEW q \in PageIds, Cached(q)' PROVE q \in Allocated' \ retired'
    BY <1>7, <2>2 DEF PlacementInv, StaleIdsAreDead
  <2> QED BY <2>1, <2>2 DEF PlacementInv, StaleIdsAreDead, InFreeList
<1> QED BY <1>3, <1>4, <1>6, <1>9, <1>10, <1>11

\* The client the page was placed for is the one user of its frame.
LEMMA PinPlaced ==
    ASSUME PlacementInv, HasFrame,
           NEW c \in Clients, handle[c] = Idle, NEW p \in PageIds,
           NEW f \in Frames, pages_[f].pin_count_ = 0,
           page_table_'[p] = f,
           \A d \in Clients : handle[d] # Idle =>
                 /\ handle[d].page \in PageIds /\ handle[d].frame \in Frames
                 /\ page_table_'[handle[d].page] = handle[d].frame,
           \A x \in Frames \ {f} : pages_'[x].pin_count_ = pages_[x].pin_count_,
           pages_'[f].pin_count_ = 1,
           handle' = [handle EXCEPT ![c] = [page |-> p, frame |-> f, wrote |-> FALSE]]
    PROVE  PinsProtectFrames'
<1>1. ASSUME NEW d \in Clients, handle'[d] # Idle
      PROVE  /\ handle'[d].page \in PageIds /\ handle'[d].frame \in Frames
             /\ page_table_'[handle'[d].page] = handle'[d].frame
  BY <1>1 DEF PlacementInv, TypeOK
<1>2. ASSUME NEW g \in Frames PROVE pages_'[g].pin_count_ = Cardinality(Users(g)')
  <2>1. /\ Cardinality(Users(f)') = Cardinality(Users(f)) + 1
        /\ \A x \in Frames : x # f => Users(x)' = Users(x)
    BY UserAdded DEF PlacementInv
  <2>2. \A x \in Frames : pages_[x].pin_count_ = Cardinality(Users(x))
    BY DEF PlacementInv, PinsProtectFrames
  <2> QED BY <2>1, <2>2
<1>3. \A g \in Frames : g # INVALID_FRAME_ID
  BY PoolAssumption DEF Frames, INVALID_FRAME_ID
<1> QED BY <1>1, <1>2, <1>3 DEF PinsProtectFrames, FrameOf, Cached

\* A page number whose offset lseek accepts lies in the file.
LEMMA SeekableHasLocation ==
    ASSUME NEW p \in PageIds, Seekable(p)
    PROVE  Location(p) \in Locations
<1>1. p.page_no \in Int /\ p.fd \in Fds /\ HalfRange \in Nat \ {0}
  BY PoolAssumption DEF PageIds
<1>2. (p.page_no + HalfRange) % (2 * HalfRange) \in 0 .. 2 * HalfRange - 1
  BY <1>1
<1> QED BY <1>1, <1>2 DEF Seekable, Location, Locations, Offset

-----------------------------------------------------------------------------
(* The placement invariants are inductive                                  *)

\* The constructor establishes them.
LEMMA InitPlacement == Init => PlacementInv
<1> SUFFICES ASSUME Init PROVE PlacementInv
  OBVIOUS
<1>1. /\ free_list_ = [i \in 1 .. PoolSize |-> i - 1] /\ PoolSize \in Nat
      /\ free_list_ \in Seq(Frames) /\ DOMAIN free_list_ = 1 .. PoolSize
      /\ LRUlist_ = <<>>
  BY PoolAssumption, IsASeq DEF Init, InitialFreeList, Frames
<1>2. TypeOK
  <2>1. \A f \in Frames : [id_ |-> NoPage, data_ |-> Zero, is_dirty_ |-> FALSE,
                           pin_count_ |-> 0] \in Page
    BY PoolAssumption DEF Page
  <2>2. pages_ \in [Frames -> Page] /\ handle \in [Clients -> Handles]
    BY <2>1 DEF Init, InitialFreeList, Handles
  <2>3. page_table_ \in [PageIds -> Frames \cup {INVALID_FRAME_ID}]
    BY DEF Init, InitialFreeList
  <2>4. LRUlist_ \in Seq(Frames)
    BY <1>1, EmptySeq
  <2> QED BY <1>1, <2>2, <2>3, <2>4 DEF Init, InitialFreeList, TypeOK
<1>3. \A f : ~InReplacer(f)
  BY <1>1 DEF InReplacer, Listed
<1>4. \A f \in Frames : InFreeList(f)
  <2> SUFFICES ASSUME NEW f \in Frames PROVE InFreeList(f)
    OBVIOUS
  <2>1. f + 1 \in 1 .. PoolSize /\ free_list_[f + 1] = f
    BY <1>1 DEF Frames
  <2> QED BY <1>1, <2>1 DEF InFreeList, Listed
<1>5. ReuseIsExclusive
  BY <1>1, <1>3 DEF ReuseIsExclusive, IsInjective
<1>6. PinnedIsNotReusable
  BY DEF PinnedIsNotReusable, Init, InitialFreeList
<1>7. \A p : ~Cached(p)
  BY DEF Cached, Init, InitialFreeList
<1>8. PageTableMatchesFrames
  BY <1>4, <1>7 DEF PageTableMatchesFrames
<1>9. PinsProtectFrames
  <2>1. \A f \in Frames : Users(f) = {}
    BY PoolAssumption DEF Users, Init, InitialFreeList, Idle, Frames, INVALID_FRAME_ID
  <2> QED BY <2>1, FS_EmptySet DEF PinsProtectFrames, Init, InitialFreeList
<1>10. StaleIdsAreDead
  BY <1>7 DEF StaleIdsAreDead, Init, InitialFreeList
<1> QED BY <1>2, <1>5, <1>6, <1>8, <1>9, <1>10 DEF PlacementInv

\* FetchPage of a cached page takes its frame out of the replacer and counts
\* the new user.
LEMMA FetchHitPlacement ==
    ASSUME PlacementInv, NEW c \in Clients, NEW p \in PageIds, FetchHit(c, p)
    PROVE  PlacementInv'
<1>0. PICK f \in Frames : f = FrameOf(p)
  BY DEF FetchHit, PlacementInv, Cached, FrameOf, TypeOK
<1>1. /\ handle[c] = Idle /\ Cached(p)
      /\ pages_[f].id_ = p /\ ~InFreeList(f)
  BY <1>0 DEF FetchHit, MayFetch, PlacementInv, PageTableMatchesFrames
<1>2. /\ LRUlist_' = ReplacerPin(LRUlist_, f)
      /\ pages_' = [pages_ EXCEPT ![f].pin_count_ = @ + 1]
      /\ handle' = [handle EXCEPT ![c] = [page |-> p, frame |-> f, wrote |-> FALSE]]
      /\ UNCHANGED <<page_table_, free_list_, disk, fd2pageno_, retired>>
  BY <1>0 DEF FetchHit
<1>3. /\ LRUlist_' \in Seq(Frames) /\ IsInjective(LRUlist_')
      /\ \A x : Listed(LRUlist_', x) <=> InReplacer(x) /\ x # f
  BY <1>2, PinRemoves DEF PlacementInv, TypeOK, ReuseIsExclusive, InReplacer
<1>4. /\ pages_'[f] = [pages_[f] EXCEPT !.pin_count_ = @ + 1]
      /\ \A x \in Frames \ {f} : pages_'[x] = pages_[x]
      /\ \A x \in Frames : /\ pages_'[x].id_ = pages_[x].id_
                           /\ pages_'[x].is_dirty_ = pages_[x].is_dirty_
      /\ pages_'[f].pin_count_ = pages_[f].pin_count_ + 1
  BY <1>1, <1>2 DEF PlacementInv, TypeOK, Page
<1>5. TypeOK'
  <2>1. pages_' \in [Frames -> Page]
    <3>1. pages_[f] \in Page /\ [pages_[f] EXCEPT !.pin_count_ = @ + 1] \in Page
      <4>1. pages_[f] \in Page
        BY DEF PlacementInv, TypeOK
      <4>2. pages_[f].pin_count_ + 1 \in Nat
        BY <4>1 DEF Page
      <4> QED BY <4>1, <4>2 DEF Page
    <3>2. pages_' = [pages_ EXCEPT ![f] = [pages_[f] EXCEPT !.pin_count_ = @ + 1]]
      BY <1>2
    <3> QED BY <3>1, <3>2 DEF PlacementInv, TypeOK
  <2>2. handle' \in [Clients -> Handles]
    BY <1>1, <1>2 DEF PlacementInv, TypeOK, Handles
  <2> QED BY <1>2, <1>3, <2>1, <2>2 DEF PlacementInv, TypeOK
<1>6. ReuseIsExclusive'
  BY <1>2, <1>3 DEF PlacementInv, ReuseIsExclusive, InFreeList, InReplacer
<1>7. PinnedIsNotReusable'
  BY <1>1, <1>2, <1>3, <1>4 DEF PlacementInv, PinnedIsNotReusable, InFreeList, InReplacer
<1>8. PageTableMatchesFrames'
  BY <1>2, <1>4 DEF PlacementInv, PageTableMatchesFrames, InFreeList, Cached, FrameOf, TypeOK
<1>9. PinsProtectFrames'
  <2>1. ASSUME NEW d \in Clients, handle'[d] # Idle
        PROVE  /\ Cached(handle'[d].page) /\ FrameOf(handle'[d].page) = handle'[d].frame
    BY <1>0, <1>1, <1>2, <2>1 DEF PlacementInv, PinsProtectFrames, TypeOK
  <2>2. ASSUME NEW g \in Frames PROVE pages_'[g].pin_count_ = Cardinality(Users(g)')
    <3>1. /\ Cardinality(Users(f)') = Cardinality(Users(f)) + 1
          /\ \A x \in Frames : x # f => Users(x)' = Users(x)
      BY <1>1, <1>2, UserAdded DEF PlacementInv
    <3> QED BY <1>1, <1>4, <3>1 DEF PlacementInv, PinsProtectFrames
  <2> QED BY <1>2, <2>1, <2>2 DEF PinsProtectFrames, FrameOf, Cached
<1>10. StaleIdsAreDead'
  BY <1>2, <1>4 DEF PlacementInv, StaleIdsAreDead, InFreeList, Cached, Allocated
<1> QED BY <1>5, <1>6, <1>7, <1>8, <1>9, <1>10 DEF PlacementInv

\* FetchPage of a page that is not cached: the page is placed in the frame
\* that was taken, after its old page was written.
LEMMA FetchMissPlacement ==
    ASSUME PlacementInv, Misuse = {}, NEW c \in Clients, NEW p \in PageIds, FetchMiss(c, p)
    PROVE  PlacementInv'
<1> DEFINE f == TakenFrame
           old == pages_[f].id_
           written == IF NeedsWriteBack(f) THEN write_page(old, pages_[f].data_) ELSE disk
<1>1. /\ handle[c] = Idle /\ p \in Allocated /\ p \notin retired /\ ~Cached(p) /\ HasFrame
      /\ ~WriteBackThrows(f) /\ Seekable(p)
      /\ free_list_' = FreeListAfter /\ LRUlist_' = ReplacerPin(LRUlistAfter, f)
      /\ disk' = written /\ page_table_' = Remap(old, p, f)
      /\ pages_' = [pages_ EXCEPT ![f] = [id_ |-> p, data_ |-> written[Location(p)],
                                          is_dirty_ |-> FALSE, pin_count_ |-> 1]]
      /\ handle' = [handle EXCEPT ![c] = [page |-> p, frame |-> f, wrote |-> FALSE]]
      /\ UNCHANGED <<fd2pageno_, retired>>
  BY DEF FetchMiss, MayFetch
<1>2. /\ f \in Frames /\ pages_[f].pin_count_ = 0
      /\ FreeListAfter \in Seq(Frames)
      /\ LRUlistAfter \in Seq(Frames) /\ IsInjective(LRUlistAfter)
      /\ \A x : Listed(LRUlistAfter, x) <=> InReplacer(x) /\ x # f
  BY <1>1, TakenFrameFacts
<1>3. written \in [Locations -> Data]
  BY <1>2 DEF write_page, PlacementInv, TypeOK, Page
<1>4. Location(p) \in Locations
  BY <1>1, SeekableHasLocation
<1> HIDE DEF f, old, written
<1>5. TypeOK'
  <2>1. pages_' \in [Frames -> Page]
    BY <1>1, <1>2, <1>3, <1>4 DEF PlacementInv, TypeOK, Page
  <2>2. page_table_' \in [PageIds -> Frames \cup {INVALID_FRAME_ID}]
    BY <1>1, <1>2 DEF PlacementInv, TypeOK, Remap
  <2>3. handle' \in [Clients -> Handles]
    BY <1>1, <1>2 DEF PlacementInv, TypeOK, Handles
  <2>4. LRUlist_' \in Seq(Frames)
    BY <1>1, <1>2, PinRemoves
  <2> QED BY <1>1, <1>2, <1>3, <2>1, <2>2, <2>3, <2>4 DEF PlacementInv, TypeOK
<1>6. /\ pages_'[f].id_ = p /\ pages_'[f].pin_count_ = 1
      /\ \A x \in Frames \ {f} : pages_'[x] = pages_[x]
  BY <1>1, <1>2 DEF PlacementInv, TypeOK
<1>7. Allocated' = Allocated
  BY <1>1 DEF Allocated
<1>8. f = TakenFrame /\ old = pages_[f].id_
  BY DEF f, old
<1>9. /\ IsInjective(LRUlist_')
      /\ \A x : Listed(LRUlist_', x) <=> InReplacer(x) /\ x # f
  BY <1>1, <1>2, PinRemoves
<1>10. /\ ReuseIsExclusive' /\ PinnedIsNotReusable' /\ PageTableMatchesFrames'
       /\ StaleIdsAreDead' /\ page_table_'[p] = f
       /\ \A d \in Clients : handle[d] # Idle =>
             /\ handle[d].page \in PageIds /\ handle[d].frame \in Frames
             /\ page_table_'[handle[d].page] = handle[d].frame
  BY <1>1, <1>6, <1>7, <1>8, <1>9, PlacePreserves
<1>11. PinsProtectFrames'
  BY <1>1, <1>2, <1>6, <1>10, PinPlaced
<1> QED BY <1>5, <1>10, <1>11 DEF PlacementInv

\* FetchPage whose read throws: the page is placed, unpinned, in a frame that
\* is in no list.
LEMMA FetchThrowsOnReadPlacement ==
    ASSUME PlacementInv, Misuse = {}, NEW c \in Clients, NEW p \in PageIds,
           FetchThrowsOnRead(c, p)
    PROVE  PlacementInv'
<1> DEFINE f == TakenFrame
           old == pages_[f].id_
<1>1. /\ p \in Allocated /\ p \notin retired /\ ~Cached(p) /\ HasFrame
      /\ free_list_' = FreeListAfter /\ LRUlist_' = LRUlistAfter
      /\ disk' = IF NeedsWriteBack(f) THEN write_page(old, pages_[f].data_) ELSE disk
      /\ page_table_' = Remap(old, p, f)
      /\ pages_' = [pages_ EXCEPT ![f].id_ = p, ![f].data_ = Zero, ![f].is_dirty_ = FALSE]
      /\ UNCHANGED <<fd2pageno_, handle, retired>>
  BY DEF FetchThrowsOnRead, MayFetch
<1>2. /\ f \in Frames /\ pages_[f].pin_count_ = 0
      /\ FreeListAfter \in Seq(Frames)
      /\ LRUlistAfter \in Seq(Frames) /\ IsInjective(LRUlistAfter)
      /\ \A x : Listed(LRUlistAfter, x) <=> InReplacer(x) /\ x # f
  BY <1>1, TakenFrameFacts
<1>3. disk' \in [Locations -> Data]
  BY <1>1, <1>2 DEF write_page, PlacementInv, TypeOK, Page
<1> HIDE DEF f, old
<1>4. /\ pages_[f] \in Page
      /\ pages_' = [pages_ EXCEPT ![f] = [pages_[f] EXCEPT !.id_ = p, !.data_ = Zero,
                                                           !.is_dirty_ = FALSE]]
  BY <1>1, <1>2 DEF PlacementInv, TypeOK
<1>5. [pages_[f] EXCEPT !.id_ = p, !.data_ = Zero, !.is_dirty_ = FALSE] \in Page
  BY <1>4, PoolAssumption DEF Page
<1>6. TypeOK'
  <2>1. pages_' \in [Frames -> Page]
    BY <1>2, <1>4, <1>5 DEF PlacementInv, TypeOK
  <2>2. page_table_' \in [PageIds -> Frames \cup {INVALID_FRAME_ID}]
    BY <1>1, <1>2 DEF PlacementInv, TypeOK, Remap
  <2> QED BY <1>1, <1>2, <1>3, <2>1, <2>2 DEF PlacementInv, TypeOK
<1>7. /\ pages_'[f].id_ = p
      /\ \A x \in Frames \ {f} : pages_'[x] = pages_[x]
      /\ \A x \in Frames : pages_'[x].pin_count_ = pages_[x].pin_count_
  BY <1>2, <1>4 DEF PlacementInv, TypeOK, Page
<1>8. Allocated' = Allocated /\ f = TakenFrame /\ old = pages_[f].id_
  BY <1>1 DEF Allocated, f, old
<1>9. /\ ReuseIsExclusive' /\ PinnedIsNotReusable' /\ PageTableMatchesFrames'
      /\ StaleIdsAreDead'
      /\ \A d \in Clients : handle[d] # Idle =>
            /\ handle[d].page \in PageIds /\ handle[d].frame \in Frames
            /\ page_table_'[handle[d].page] = handle[d].frame
  <2>1. /\ IsInjective(LRUlist_')
        /\ \A x : Listed(LRUlist_', x) <=> InReplacer(x) /\ x # f
    BY <1>1, <1>2
  <2>2. \A x \in Frames \ {f} :
             /\ pages_'[x].id_ = pages_[x].id_
             /\ pages_'[x].pin_count_ = pages_[x].pin_count_
             /\ pages_'[x].is_dirty_ => pages_[x].is_dirty_
    BY <1>7
  <2>3. /\ p \in Allocated' /\ Allocated \subseteq Allocated'
        /\ f = TakenFrame /\ page_table_' = Remap(pages_[f].id_, p, f)
    BY <1>1, <1>8
  <2>4. pages_'[f].id_ = p
    BY <1>7
  <2> QED BY <1>1, <2>1, <2>2, <2>3, <2>4, PlacePreserves
<1>10. PinsProtectFrames'
  <2>1. \A g \in Frames : g # INVALID_FRAME_ID
    BY PoolAssumption DEF Frames, INVALID_FRAME_ID
  <2>2. \A g \in Frames : pages_'[g].pin_count_ = Cardinality(Users(g)')
    BY <1>1, <1>7 DEF PlacementInv, PinsProtectFrames, Users
  <2> QED BY <1>1, <1>9, <2>1, <2>2 DEF PinsProtectFrames, FrameOf, Cached
<1> QED BY <1>6, <1>9, <1>10 DEF PlacementInv

\* What NewPage writes: the page table leads from the old page of the frame it
\* took to that frame, so the frame written back and cleaned is the one taken.
LEMMA NewPageEffect ==
    ASSUME PlacementInv, NEW c \in Clients, NEW fd \in Fds, NewPage(c, fd),
           NEW f, f = TakenFrame, NEW old, old = pages_[f].id_,
           NEW p, p = [fd |-> fd, page_no |-> fd2pageno_[fd]]
    PROVE  /\ disk' = IF NeedsWriteBack(f) THEN write_page(old, pages_[f].data_) ELSE disk
           /\ pages_' = [x \in Frames |->
                 IF x = f THEN [id_ |-> p, data_ |-> Zero, pin_count_ |-> 1,
                                is_dirty_ |-> pages_[f].is_dirty_ /\ ~NeedsWriteBack(f)]
                 ELSE pages_[x]]
<1> DEFINE g == IF NeedsWriteBack(f) THEN FrameOf(old) ELSE f
<1>1. g = f
  BY TakenFrameFacts DEF NeedsWriteBack, NewPage
<1>2. /\ disk' = IF NeedsWriteBack(f) THEN write_page(old, pages_[g].data_) ELSE disk
      /\ pages_' = [x \in Frames |->
                       IF x = f
                       THEN [id_ |-> p, data_ |-> Zero, pin_count_ |-> 1,
                             is_dirty_ |-> pages_[f].is_dirty_
                                           /\ ~(NeedsWriteBack(f) /\ g = f)]
                       ELSE IF x = g THEN [pages_[g] EXCEPT !.is_dirty_ = FALSE]
                       ELSE pages_[x]]
  BY DEF NewPage, AllocatePage
<1> HIDE DEF g
<1>3. disk' = IF NeedsWriteBack(f) THEN write_page(old, pages_[f].data_) ELSE disk
  BY <1>1, <1>2
<1>4. ASSUME NEW x \in Frames
      PROVE  (IF x = f
              THEN [id_ |-> p, data_ |-> Zero, pin_count_ |-> 1,
                    is_dirty_ |-> pages_[f].is_dirty_ /\ ~(NeedsWriteBack(f) /\ g = f)]
              ELSE IF x = g THEN [pages_[g] EXCEPT !.is_dirty_ = FALSE]
              ELSE pages_[x])
             = IF x = f THEN [id_ |-> p, data_ |-> Zero, pin_count_ |-> 1,
                              is_dirty_ |-> pages_[f].is_dirty_ /\ ~NeedsWriteBack(f)]
               ELSE pages_[x]
  BY <1>1, Zenon
<1> QED BY <1>2, <1>3, <1>4, Zenon

\* NewPage: a page that was never handed out is placed in the frame taken.
LEMMA NewPagePlacement ==
    ASSUME PlacementInv, NEW c \in Clients, NEW fd \in Fds, NewPage(c, fd)
    PROVE  PlacementInv'
<1> DEFINE f == TakenFrame
           old == pages_[f].id_
           p == [fd |-> fd, page_no |-> fd2pageno_[fd]]
<1>1. /\ handle[c] = Idle /\ HasFrame /\ fd2pageno_[fd] < MaxPages
      /\ free_list_' = FreeListAfter /\ LRUlist_' = ReplacerPin(LRUlistAfter, f)
      /\ fd2pageno_' = [fd2pageno_ EXCEPT ![fd] = @ + 1]
      /\ page_table_' = Remap(old, p, f)
      /\ handle' = [handle EXCEPT ![c] = [page |-> p, frame |-> f, wrote |-> FALSE]]
      /\ UNCHANGED retired
  BY DEF NewPage, AllocatePage
<1>2. /\ f \in Frames /\ pages_[f].pin_count_ = 0
      /\ FreeListAfter \in Seq(Frames)
      /\ LRUlistAfter \in Seq(Frames) /\ IsInjective(LRUlistAfter)
      /\ \A x : Listed(LRUlistAfter, x) <=> InReplacer(x) /\ x # f
      /\ Cached(old) => FrameOf(old) = f
  BY <1>1, TakenFrameFacts
<1>3. /\ disk' = IF NeedsWriteBack(f) THEN write_page(old, pages_[f].data_) ELSE disk
      /\ pages_' = [x \in Frames |->
            IF x = f THEN [id_ |-> p, data_ |-> Zero, pin_count_ |-> 1,
                           is_dirty_ |-> pages_[f].is_dirty_ /\ ~NeedsWriteBack(f)]
            ELSE pages_[x]]
  <2>1. /\ f = TakenFrame /\ old = pages_[f].id_
        /\ p = [fd |-> fd, page_no |-> fd2pageno_[fd]]
    OBVIOUS
  <2> HIDE DEF f, old, p
  <2> QED BY <2>1, NewPageEffect
<1>4. p \in PageIds /\ p \notin Allocated
  <2>1. fd2pageno_[fd] \in 0 .. MaxPages /\ MaxPages \in Nat
    BY PoolAssumption DEF PlacementInv, TypeOK
  <2>2. fd2pageno_[fd] \in 0 .. MaxPages - 1 /\ ~(fd2pageno_[fd] < fd2pageno_[fd])
    BY <1>1, <2>1
  <2> QED BY <2>2 DEF PageIds, Allocated
<1>5. ~Cached(p) /\ p \notin retired
  BY <1>4 DEF PlacementInv, StaleIdsAreDead
<1>6. p \in Allocated' /\ Allocated \subseteq Allocated'
  BY <1>1, <1>4 DEF PageIds, Allocated, PlacementInv, TypeOK
<1> HIDE DEF f, old, p
<1>7. TypeOK'
  <2>1. pages_' \in [Frames -> Page]
    <3>1. pages_[f].is_dirty_ \in BOOLEAN /\ \A x \in Frames : pages_[x] \in Page
      BY <1>2 DEF PlacementInv, TypeOK, Page
    <3>2. [id_ |-> p, data_ |-> Zero, pin_count_ |-> 1,
           is_dirty_ |-> pages_[f].is_dirty_ /\ ~NeedsWriteBack(f)] \in Page
      BY <1>4, <3>1, PoolAssumption DEF Page
    <3> QED BY <1>3, <3>1, <3>2
  <2>2. page_table_' \in [PageIds -> Frames \cup {INVALID_FRAME_ID}]
    BY <1>1, <1>2 DEF PlacementInv, TypeOK, Remap
  <2>3. handle' \in [Clients -> Handles]
    BY <1>1, <1>2, <1>4 DEF PlacementInv, TypeOK, Handles
  <2>4. LRUlist_' \in Seq(Frames)
    BY <1>1, <1>2, PinRemoves
  <2>5. disk' \in [Locations -> Data]
    BY <1>2, <1>3 DEF write_page, PlacementInv, TypeOK, Page
  <2>6. fd2pageno_' \in [Fds -> 0 .. MaxPages]
    BY <1>1, PoolAssumption DEF PlacementInv, TypeOK
  <2> QED BY <1>1, <1>2, <2>1, <2>2, <2>3, <2>4, <2>5, <2>6 DEF PlacementInv, TypeOK
<1>8. /\ pages_'[f].id_ = p /\ pages_'[f].pin_count_ = 1
      /\ \A x \in Frames \ {f} : pages_'[x] = pages_[x]
  BY <1>2, <1>3
<1>9. /\ IsInjective(LRUlist_')
      /\ \A x : Listed(LRUlist_', x) <=> InReplacer(x) /\ x # f
  BY <1>1, <1>2, PinRemoves
<1>10. f = TakenFrame /\ old = pages_[f].id_
  BY DEF f, old
<1>11. /\ ReuseIsExclusive' /\ PinnedIsNotReusable' /\ PageTableMatchesFrames'
       /\ StaleIdsAreDead' /\ page_table_'[p] = f
       /\ \A d \in Clients : handle[d] # Idle =>
             /\ handle[d].page \in PageIds /\ handle[d].frame \in Frames
             /\ page_table_'[handle[d].page] = handle[d].frame
  BY <1>1, <1>4, <1>5, <1>6, <1>8, <1>9, <1>10, PlacePreserves
<1>12. PinsProtectFrames'
  BY <1>1, <1>2, <1>4, <1>8, <1>11, PinPlaced
<1> QED BY <1>7, <1>11, <1>12 DEF PlacementInv

\* A step that only takes a frame with a cached page out of the replacer
\* (the I/O of the page threw) keeps the placement invariants.
LEMMA StrandPreserves ==
    ASSUME PlacementInv,
           free_list_' \in Seq(Frames), IsInjective(free_list_'),
           \A x : Listed(free_list_', x) <=> InFreeList(x),
           LRUlist_' \in Seq(Frames), IsInjective(LRUlist_'),
           \A x : Listed(LRUlist_', x) => InReplacer(x),
           fd2pageno_' \in [Fds -> 0 .. MaxPages], Allocated \subseteq Allocated',
           UNCHANGED <<pages_, page_table_, disk, handle, retired>>
    PROVE  PlacementInv'
<1>1. TypeOK'
  BY DEF PlacementInv, TypeOK
<1>2. ReuseIsExclusive' /\ PinnedIsNotReusable'
  BY DEF PlacementInv, ReuseIsExclusive, PinnedIsNotReusable, InFreeList, InReplacer
<1>3. PageTableMatchesFrames'
  BY DEF PlacementInv, PageTableMatchesFrames, InFreeList, Cached, FrameOf
<1>4. PinsProtectFrames'
  BY DEF PlacementInv, PinsProtectFrames, Cached, FrameOf, Users
<1>5. StaleIdsAreDead'
  BY DEF PlacementInv, StaleIdsAreDead, InFreeList, Cached
<1> QED BY <1>1, <1>2, <1>3, <1>4, <1>5 DEF PlacementInv

\* FetchPage and NewPage whose write-back throws.
LEMMA WriteBackThrowsPlacement ==
    ASSUME PlacementInv, HasFrame, WriteBackThrows(TakenFrame),
           free_list_' = FreeListAfter, LRUlist_' = LRUlistAfter,
           fd2pageno_' \in [Fds -> 0 .. MaxPages], Allocated \subseteq Allocated',
           UNCHANGED <<pages_, page_table_, disk, handle, retired>>
    PROVE  PlacementInv'
<1> DEFINE f == TakenFrame
<1>1. ~InFreeList(f)
  BY TakenFrameFacts DEF WriteBackThrows, NeedsWriteBack
<1>2. /\ free_list_' \in Seq(Frames) /\ IsInjective(free_list_')
      /\ \A x : Listed(free_list_', x) <=> InFreeList(x)
      /\ LRUlist_' \in Seq(Frames) /\ IsInjective(LRUlist_')
      /\ \A x : Listed(LRUlist_', x) => InReplacer(x)
  BY <1>1, TakenFrameFacts
<1> QED BY <1>2, StrandPreserves

\* NewPage whose write-back throws: a page number is used up as well.
LEMMA NewPageThrowsPlacement ==
    ASSUME PlacementInv, NEW c \in Clients, NEW fd \in Fds, NewPageThrows(c, fd)
    PROVE  PlacementInv'
<1>1. fd2pageno_' = [fd2pageno_ EXCEPT ![fd] = @ + 1] /\ fd2pageno_[fd] < MaxPages
  BY DEF NewPageThrows, AllocatePage
<1>2. fd2pageno_' \in [Fds -> 0 .. MaxPages] /\ Allocated \subseteq Allocated'
  BY <1>1, PoolAssumption DEF PlacementInv, TypeOK, Allocated, PageIds
<1> QED BY <1>2, WriteBackThrowsPlacement DEF NewPageThrows, AllocatePage

\* DeletePage whose write throws.
LEMMA DeletePageThrowsPlacement ==
    ASSUME PlacementInv, NEW p \in PageIds, DeletePageThrows(p)
    PROVE  PlacementInv'
<1>1. /\ LRUlist_' \in Seq(Frames) /\ IsInjective(LRUlist_')
      /\ \A x : Listed(LRUlist_', x) => InReplacer(x)
  BY PinRemoves DEF DeletePageThrows, PlacementInv, TypeOK, ReuseIsExclusive, InReplacer
<1>2. /\ free_list_' \in Seq(Frames) /\ IsInjective(free_list_')
      /\ \A x : Listed(free_list_', x) <=> InFreeList(x)
      /\ fd2pageno_' \in [Fds -> 0 .. MaxPages] /\ Allocated' = Allocated
      /\ UNCHANGED <<pages_, page_table_, disk, handle, retired>>
  BY DEF DeletePageThrows, PlacementInv, TypeOK, ReuseIsExclusive, InFreeList, Allocated
<1> QED BY <1>1, <1>2, StrandPreserves

\* A step that changes no more than page contents, dirty bits and the clients'
\* knowledge of them keeps the placement invariants.
LEMMA ContentsPreserve ==
    ASSUME PlacementInv, TypeOK',
           UNCHANGED <<page_table_, free_list_, LRUlist_, fd2pageno_, retired>>,
           \A x \in Frames : /\ pages_'[x].id_ = pages_[x].id_
                             /\ pages_'[x].pin_count_ = pages_[x].pin_count_
                             /\ InFreeList(x) => ~pages_'[x].is_dirty_,
           \A d \in Clients : /\ handle'[d].page = handle[d].page
                              /\ handle'[d].frame = handle[d].frame
    PROVE  PlacementInv'
<1>1. ReuseIsExclusive' /\ PinnedIsNotReusable'
  BY DEF PlacementInv, ReuseIsExclusive, PinnedIsNotReusable, InFreeList, InReplacer
<1>2. PageTableMatchesFrames'
  BY DEF PlacementInv, PageTableMatchesFrames, InFreeList, Cached, FrameOf, TypeOK
<1>3. PinsProtectFrames'
  <2>1. ASSUME NEW d \in Clients, handle'[d] # Idle PROVE handle[d] # Idle
    <3>1. handle'[d].page \in PageIds
      BY <2>1 DEF TypeOK, Handles
    <3>2. NoPage \notin PageIds
      BY PoolAssumption DEF NoPage, PageIds
    <3> QED BY <3>1, <3>2 DEF Idle
  <2>2. \A g : Users(g)' = Users(g)
    BY DEF Users
  <2> QED BY <2>1, <2>2 DEF PlacementInv, PinsProtectFrames, Cached, FrameOf
<1>4. StaleIdsAreDead'
  BY DEF PlacementInv, StaleIdsAreDead, InFreeList, Cached, Allocated
<1> QED BY <1>1, <1>2, <1>3, <1>4 DEF PlacementInv

\* A client writes to its page.
LEMMA WriteDataPlacement ==
    ASSUME PlacementInv, NEW c \in Clients, NEW v \in Data, WriteData(c, v)
    PROVE  PlacementInv'
<1>1. PICK f : f = handle[c].frame
  OBVIOUS
<1>2. /\ handle[c] # Idle
      /\ pages_' = [pages_ EXCEPT ![f].data_ = v]
      /\ handle' = [handle EXCEPT ![c].wrote = TRUE]
      /\ UNCHANGED <<page_table_, lists, disk, fd2pageno_, retired>>
  BY <1>1 DEF WriteData
<1>3. f \in Frames /\ handle[c] \in [page : PageIds, frame : Frames, wrote : BOOLEAN]
  BY <1>1, <1>2 DEF PlacementInv, TypeOK, Handles
<1>4. pages_' \in [Frames -> Page]
  BY <1>2, <1>3 DEF PlacementInv, TypeOK, Page
<1>5. handle' \in [Clients -> Handles]
  BY <1>2, <1>3 DEF PlacementInv, TypeOK, Handles
<1>6. TypeOK'
  BY <1>2, <1>4, <1>5 DEF PlacementInv, TypeOK, lists
<1>7. \A x \in Frames : /\ pages_'[x].id_ = pages_[x].id_
                        /\ pages_'[x].pin_count_ = pages_[x].pin_count_
                        /\ pages_'[x].is_dirty_ = pages_[x].is_dirty_
  BY <1>2, <1>3 DEF PlacementInv, TypeOK, Page
<1>8. \A d \in Clients : /\ handle'[d].page = handle[d].page
                         /\ handle'[d].frame = handle[d].frame
  BY <1>2, <1>3 DEF PlacementInv, TypeOK
<1>9. \A x \in Frames : InFreeList(x) => ~pages_'[x].is_dirty_
  BY <1>7 DEF PlacementInv, StaleIdsAreDead
<1> QED BY <1>2, <1>6, <1>7, <1>8, <1>9, ContentsPreserve DEF lists

\* Marking the clients of some frames as saved changes nothing they hold.
LEMMA SavedKeepsHandles ==
    ASSUME TypeOK, NEW F, handle' = Saved(F)
    PROVE  /\ handle' \in [Clients -> Handles]
           /\ \A d \in Clients : /\ handle'[d].page = handle[d].page
                                 /\ handle'[d].frame = handle[d].frame
                                 /\ handle'[d].wrote
                                      <=> (handle[d].wrote /\ handle[d].frame \notin F)
<1>1. ASSUME NEW d \in Clients
      PROVE  /\ handle'[d] \in Handles
             /\ handle'[d].page = handle[d].page
             /\ handle'[d].frame = handle[d].frame
             /\ handle'[d].wrote <=> (handle[d].wrote /\ handle[d].frame \notin F)
  <2>1. handle'[d] = [handle[d] EXCEPT !.wrote = handle[d].wrote /\ handle[d].frame \notin F]
    BY DEF Saved
  <2>2. CASE handle[d] = Idle
    <3>1. (handle[d].wrote /\ handle[d].frame \notin F) = FALSE
      BY <2>2 DEF Idle
    <3>2. handle'[d] = [Idle EXCEPT !.wrote = FALSE]
      BY <2>1, <2>2, <3>1
    <3>3. handle'[d] = Idle
      BY <3>2 DEF Idle
    <3> QED BY <2>2, <3>1, <3>3 DEF Idle, Handles
  <2>3. CASE handle[d] \in [page : PageIds, frame : Frames, wrote : BOOLEAN]
    BY <2>1, <2>3 DEF Handles
  <2> QED BY <2>2, <2>3 DEF TypeOK, Handles
<1>2. handle' = [d \in Clients |-> handle'[d]]
  BY DEF Saved
<1> QED BY <1>1, <1>2

\* FlushPage
LEMMA FlushPagePlacement ==
    ASSUME PlacementInv, NEW p \in PageIds, FlushPage(p)
    PROVE  PlacementInv'
<1>1. PICK f : f = FrameOf(p)
  OBVIOUS
<1>2. /\ f \in Frames /\ Seekable(p)
      /\ disk' = write_page(p, pages_[f].data_)
      /\ pages_' = [pages_ EXCEPT ![f].is_dirty_ = FALSE]
      /\ handle' = Saved({f})
      /\ UNCHANGED <<page_table_, lists, fd2pageno_, retired>>
  BY <1>1 DEF FlushPage, Cached, FrameOf, PlacementInv, TypeOK
<1>3. pages_' \in [Frames -> Page]
  BY <1>2 DEF PlacementInv, TypeOK, Page
<1>4. disk' \in [Locations -> Data]
  BY <1>2 DEF write_page, PlacementInv, TypeOK, Page
<1>5. /\ handle' \in [Clients -> Handles]
      /\ \A d \in Clients : /\ handle'[d].page = handle[d].page
                            /\ handle'[d].frame = handle[d].frame
  BY <1>2, SavedKeepsHandles DEF PlacementInv
<1>6. TypeOK'
  BY <1>2, <1>3, <1>4, <1>5 DEF PlacementInv, TypeOK, lists
<1>7. \A x \in Frames : /\ pages_'[x].id_ = pages_[x].id_
                        /\ pages_'[x].pin_count_ = pages_[x].pin_count_
                        /\ pages_'[x].is_dirty_ => pages_[x].is_dirty_
  BY <1>2 DEF PlacementInv, TypeOK, Page
<1>8. \A x \in Frames : InFreeList(x) => ~pages_'[x].is_dirty_
  BY <1>7 DEF PlacementInv, StaleIdsAreDead
<1> QED BY <1>2, <1>5, <1>6, <1>7, <1>8, ContentsPreserve DEF lists

\* The highest frame of a non-empty set of frames is one of them.
LEMMA MaxOfFrames ==
    ASSUME NEW F \in SUBSET Frames, F # {}
    PROVE  Max(F) \in F
<1>1. PoolSize \in Nat /\ F \subseteq 0 .. PoolSize - 1
  BY PoolAssumption DEF Frames
<1> DEFINE T == {n \in Nat : \E x \in F : n = PoolSize - x}
           R == OpToRel(<, Nat)
<1>2. T \subseteq Nat /\ T # {}
  <2>1. PICK x : x \in F
    OBVIOUS
  <2>2. PoolSize - x \in T
    BY <1>1, <2>1
  <2> QED BY <2>2
<1>3. IsWellFoundedOn(R, Nat)
  BY NatLessThanWellFounded
<1>4. \A a, b \in Nat : a < b => <<a, b>> \in R
  BY DEF OpToRel
<1> HIDE DEF T, R
<1>5. PICK n \in T : \A y \in T : <<y, n>> \notin R
  BY <1>2, <1>3, WFMin
<1>6. PICK m \in F : n = PoolSize - m
  BY <1>5 DEF T
<1>7. ASSUME NEW y \in F PROVE m >= y
  <2>1. PoolSize - y \in T /\ PoolSize - y \in Nat /\ n \in Nat
    BY <1>1, <1>2 DEF T
  <2>2. ~(PoolSize - y < n)
    BY <1>4, <1>5, <2>1
  <2> QED BY <1>1, <1>6, <2>1, <2>2
<1> QED BY <1>7 DEF Max

\* FlushAllPages
LEMMA FlushAllPagesPlacement ==
    ASSUME PlacementInv, NEW fd \in Fds, FlushAllPages(fd)
    PROVE  PlacementInv'
<1>1. PICK F \in SUBSET Frames :
        /\ disk' = [l \in Locations |->
               IF {f \in F : Location(pages_[f].id_) = l} = {} THEN disk[l]
               ELSE pages_[Max({f \in F : Location(pages_[f].id_) = l})].data_]
        /\ pages_' = [f \in Frames |-> IF f \in F THEN [pages_[f] EXCEPT !.is_dirty_ = FALSE]
                                       ELSE pages_[f]]
        /\ handle' = Saved(F)
        /\ UNCHANGED <<page_table_, lists, fd2pageno_, retired>>
  <2> DEFINE OfFile == {f \in Frames : pages_[f].id_.fd = fd
                                       /\ pages_[f].id_.page_no # INVALID_PAGE_ID}
             F == {f \in OfFile : \A g \in OfFile : g <= f => Seekable(pages_[g].id_)}
  <2>1. F \in SUBSET Frames
    OBVIOUS
  <2> QED BY <2>1, Zenon DEF FlushAllPages
<1>2. disk' \in [Locations -> Data]
  <2> SUFFICES ASSUME NEW l \in Locations,
                      {f \in F : Location(pages_[f].id_) = l} # {}
               PROVE  pages_[Max({f \in F : Location(pages_[f].id_) = l})].data_ \in Data
    BY <1>1 DEF PlacementInv, TypeOK
  <2>1. Max({f \in F : Location(pages_[f].id_) = l}) \in Frames
    BY MaxOfFrames
  <2> QED BY <2>1 DEF PlacementInv, TypeOK, Page
<1>3. \A x \in Frames : /\ pages_'[x] \in Page
                        /\ pages_'[x].id_ = pages_[x].id_
                        /\ pages_'[x].pin_count_ = pages_[x].pin_count_
                        /\ pages_'[x].is_dirty_ => pages_[x].is_dirty_
  <2> SUFFICES ASSUME NEW x \in Frames
               PROVE  /\ pages_'[x] \in Page
                      /\ pages_'[x].id_ = pages_[x].id_
                      /\ pages_'[x].pin_count_ = pages_[x].pin_count_
                      /\ pages_'[x].is_dirty_ => pages_[x].is_dirty_
    OBVIOUS
  <2>1. pages_[x] \in Page
    BY DEF PlacementInv, TypeOK
  <2>2. CASE x \in F
    BY <1>1, <2>1, <2>2 DEF Page
  <2>3. CASE x \notin F
    BY <1>1, <2>1, <2>3
  <2> QED BY <2>2, <2>3
<1>4. /\ handle' \in [Clients -> Handles]
      /\ \A d \in Clients : /\ handle'[d].page = handle[d].page
                            /\ handle'[d].frame = handle[d].frame
  BY <1>1, SavedKeepsHandles DEF PlacementInv
<1>5. pages_' \in [Frames -> Page]
  <2>1. pages_' = [x \in Frames |-> pages_'[x]]
    BY <1>1
  <2> QED BY <1>3, <2>1
<1>6. TypeOK'
  BY <1>1, <1>2, <1>4, <1>5 DEF PlacementInv, TypeOK, lists
<1>7. \A x \in Frames : InFreeList(x) => ~pages_'[x].is_dirty_
  BY <1>3 DEF PlacementInv, StaleIdsAreDead
<1> QED BY <1>1, <1>3, <1>4, <1>6, <1>7, ContentsPreserve DEF lists

\* UnpinPage: the frame loses a user, and goes to the replacer with the last.
LEMMA UnpinPagePlacement ==
    ASSUME PlacementInv, NEW c \in Clients, NEW d \in BOOLEAN, UnpinPage(c, d)
    PROVE  PlacementInv'
<1>1. PICK f : f = handle[c].frame
  OBVIOUS
<1>2. handle[c] # Idle /\ handle' = [handle EXCEPT ![c] = Idle]
  BY DEF UnpinPage, Unpinned
<1>3. /\ f \in Frames
      /\ Cardinality(Users(f)) \in Nat \ {0}
      /\ Cardinality({x \in Clients : handle'[x].frame = f}) = Cardinality(Users(f)) - 1
      /\ \A g \in Frames : g # f => Users(g)' = Users(g)
  BY <1>1, <1>2, UserRemoved DEF PlacementInv
<1>4. /\ Cached(handle[c].page) /\ FrameOf(handle[c].page) = f
      /\ \A g \in Frames : pages_[g].pin_count_ = Cardinality(Users(g))
  BY <1>1, <1>2 DEF PlacementInv, PinsProtectFrames
<1>5. pages_[f].pin_count_ \in Nat \ {0}
  BY <1>3, <1>4
<1>6. ~InFreeList(f) /\ ~InReplacer(f)
  BY <1>3, <1>5 DEF PlacementInv, PinnedIsNotReusable
<1>7. /\ pages_' = [pages_ EXCEPT ![f] = Unpinned(pages_[f], d)]
      /\ LRUlist_' = IF pages_[f].pin_count_ = 1 THEN ReplacerUnpin(LRUlist_, f) ELSE LRUlist_
      /\ UNCHANGED <<page_table_, free_list_, disk, fd2pageno_, retired>>
  BY <1>4, <1>5 DEF UnpinPage
<1>8. /\ LRUlist_' \in Seq(Frames) /\ IsInjective(LRUlist_')
      /\ \A x : Listed(LRUlist_', x) <=> InReplacer(x) \/ (x = f /\ pages_[f].pin_count_ = 1)
  BY <1>3, <1>7, UnpinAdds DEF PlacementInv, TypeOK, ReuseIsExclusive, InReplacer
<1>9. /\ pages_[f] \in Page
      /\ pages_'[f] = [pages_[f] EXCEPT !.pin_count_ = @ - 1, !.is_dirty_ = @ \/ d]
      /\ \A x \in Frames \ {f} : pages_'[x] = pages_[x]
      /\ pages_' = [x \in Frames |-> pages_'[x]]
  BY <1>3, <1>7 DEF PlacementInv, TypeOK, Unpinned
<1>10. /\ pages_'[f].pin_count_ = pages_[f].pin_count_ - 1
       /\ pages_'[f].id_ = pages_[f].id_
       /\ pages_'[f] \in Page
  <2>1. pages_[f].pin_count_ - 1 \in Nat
    BY <1>5
  <2>2. (pages_[f].is_dirty_ \/ d) \in BOOLEAN
    OBVIOUS
  <2> QED BY <1>9, <2>1, <2>2 DEF Page
<1>11. \A x \in Frames : pages_'[x].id_ = pages_[x].id_
  BY <1>9, <1>10
<1>12. TypeOK'
  <2>1. pages_' \in [Frames -> Page]
    <3>1. \A x \in Frames : pages_'[x] \in Page
      BY <1>9, <1>10 DEF PlacementInv, TypeOK
    <3> QED BY <1>9, <3>1
  <2>2. handle' \in [Clients -> Handles]
    BY <1>2 DEF PlacementInv, TypeOK, Handles
  <2> QED BY <1>7, <1>8, <2>1, <2>2 DEF PlacementInv, TypeOK
<1>13. ReuseIsExclusive'
  BY <1>6, <1>7, <1>8 DEF PlacementInv, ReuseIsExclusive, InFreeList, InReplacer
<1>14. PinnedIsNotReusable'
  <2> SUFFICES ASSUME NEW g \in Frames, Listed(free_list_', g) \/ Listed(LRUlist_', g)
               PROVE  pages_'[g].pin_count_ = 0
    BY DEF PinnedIsNotReusable, InFreeList, InReplacer
  <2>1. CASE g = f
    <3>1. pages_[f].pin_count_ = 1
      BY <1>6, <1>7, <1>8, <2>1 DEF InFreeList
    <3> QED BY <1>10, <2>1, <3>1
  <2>2. CASE g # f
    BY <1>7, <1>8, <1>9, <2>2 DEF PlacementInv, PinnedIsNotReusable, InFreeList
  <2> QED BY <2>1, <2>2
<1>15. PageTableMatchesFrames'
  BY <1>7, <1>11 DEF PlacementInv, PageTableMatchesFrames, InFreeList, Cached, FrameOf, TypeOK
<1>16. PinsProtectFrames'
  <2>1. ASSUME NEW e \in Clients, handle'[e] # Idle
        PROVE  handle'[e] = handle[e] /\ handle[e] # Idle
    BY <1>2, <2>1 DEF PlacementInv, TypeOK
  <2>2. ASSUME NEW g \in Frames PROVE pages_'[g].pin_count_ = Cardinality(Users(g)')
    <3>1. CASE g = f
      <4>1. Users(g)' = {x \in Clients : handle'[x].frame = f}
        BY <3>1 DEF Users
      <4> QED BY <1>3, <1>4, <1>10, <3>1, <4>1
    <3>2. CASE g # f
      BY <1>3, <1>4, <1>9, <3>2
    <3> QED BY <3>1, <3>2
  <2> QED BY <1>7, <2>1, <2>2 DEF PlacementInv, PinsProtectFrames, Cached, FrameOf
<1>17. StaleIdsAreDead'
  BY <1>6, <1>7, <1>9, <1>11 DEF PlacementInv, StaleIdsAreDead, InFreeList, Cached, Allocated
<1> QED BY <1>12, <1>13, <1>14, <1>15, <1>16, <1>17 DEF PlacementInv

\* DeletePage of a page nobody uses: its frame becomes free and the id_ it
\* keeps is that of a retired page.
LEMMA DeletePagePlacement ==
    ASSUME PlacementInv, Misuse = {}, NEW p \in PageIds, DeletePage(p)
    PROVE  PlacementInv'
<1>1. PICK f : f = FrameOf(p)
  OBVIOUS
<1>2. /\ Cached(p) /\ pages_[f].pin_count_ = 0 /\ Seekable(p)
      /\ LRUlist_' = ReplacerPin(LRUlist_, f)
      /\ disk' = write_page(p, pages_[f].data_)
      /\ page_table_' = [page_table_ EXCEPT ![p] = INVALID_FRAME_ID]
      /\ pages_' = [pages_ EXCEPT ![f].is_dirty_ = FALSE, ![f].data_ = Zero]
      /\ free_list_' = Append(free_list_, f)
      /\ retired' = retired \cup {p}
      /\ UNCHANGED <<fd2pageno_, handle>>
  BY <1>1 DEF DeletePage
<1>3. f \in Frames /\ pages_[f].id_ = p /\ ~InFreeList(f)
  BY <1>1, <1>2 DEF PlacementInv, PageTableMatchesFrames, Cached, FrameOf, TypeOK
<1>4. /\ LRUlist_' \in Seq(Frames) /\ IsInjective(LRUlist_')
      /\ \A x : Listed(LRUlist_', x) <=> InReplacer(x) /\ x # f
  BY <1>2, PinRemoves DEF PlacementInv, TypeOK, ReuseIsExclusive, InReplacer
<1>5. /\ free_list_' \in Seq(Frames) /\ IsInjective(free_list_')
      /\ \A x : Listed(free_list_', x) <=> InFreeList(x) \/ x = f
  BY <1>2, <1>3, AppendAdds DEF PlacementInv, TypeOK, ReuseIsExclusive, InFreeList
<1>6. /\ pages_' \in [Frames -> Page]
      /\ \A x \in Frames : /\ pages_'[x].id_ = pages_[x].id_
                           /\ pages_'[x].pin_count_ = pages_[x].pin_count_
                           /\ pages_'[x].is_dirty_ => pages_[x].is_dirty_
      /\ ~pages_'[f].is_dirty_
  BY <1>2, <1>3, PoolAssumption DEF PlacementInv, TypeOK, Page
<1>7. TypeOK'
  <2>1. disk' \in [Locations -> Data]
    BY <1>2, <1>3 DEF write_page, PlacementInv, TypeOK, Page
  <2>2. page_table_' \in [PageIds -> Frames \cup {INVALID_FRAME_ID}]
    BY <1>2 DEF PlacementInv, TypeOK
  <2> QED BY <1>2, <1>4, <1>5, <1>6, <2>1, <2>2 DEF PlacementInv, TypeOK
<1>8. ReuseIsExclusive'
  BY <1>4, <1>5 DEF PlacementInv, ReuseIsExclusive, InFreeList, InReplacer
<1>9. PinnedIsNotReusable'
  BY <1>2, <1>4, <1>5, <1>6 DEF PlacementInv, PinnedIsNotReusable, InFreeList, InReplacer
<1>10. \A q \in PageIds \ {p} : page_table_'[q] = page_table_[q]
  BY <1>2 DEF PlacementInv, TypeOK
<1>11. page_table_'[p] = INVALID_FRAME_ID
  BY <1>2 DEF PlacementInv, TypeOK
<1>12. PageTableMatchesFrames'
  <2>1. ASSUME NEW q \in PageIds, page_table_'[q] # INVALID_FRAME_ID
        PROVE  /\ pages_'[page_table_'[q]].id_ = q
               /\ ~Listed(free_list_', page_table_'[q])
    <3>1. q # p /\ page_table_'[q] = page_table_[q] /\ Cached(q)
      BY <1>10, <1>11, <2>1 DEF Cached
    <3>2. /\ page_table_[q] \in Frames /\ pages_[page_table_[q]].id_ = q
          /\ ~InFreeList(page_table_[q])
      BY <3>1 DEF PlacementInv, PageTableMatchesFrames, Cached, FrameOf, TypeOK
    <3> QED BY <1>3, <1>5, <1>6, <3>1, <3>2
  <2>2. ASSUME NEW g \in Frames, ~Listed(free_list_', g)
        PROVE  /\ pages_'[g].id_ \in PageIds
               /\ page_table_'[pages_'[g].id_] = g
    <3>1. g # f /\ Cached(pages_[g].id_) /\ FrameOf(pages_[g].id_) = g
      BY <1>5, <2>2 DEF PlacementInv, PageTableMatchesFrames
    <3>2. pages_[g].id_ # p
      BY <1>1, <3>1
    <3> QED BY <1>6, <1>10, <3>1, <3>2 DEF Cached, FrameOf
  <2>3. \A g \in Frames : g # INVALID_FRAME_ID
    BY PoolAssumption DEF Frames, INVALID_FRAME_ID
  <2> QED BY <2>1, <2>2, <2>3 DEF PageTableMatchesFrames, FrameOf, InFreeList, Cached
<1>13. PinsProtectFrames'
  <2>1. ASSUME NEW d \in Clients, handle[d] # Idle
        PROVE  /\ handle[d].page \in PageIds
               /\ page_table_'[handle[d].page] # INVALID_FRAME_ID
               /\ page_table_'[handle[d].page] = handle[d].frame
    <3>1. Cached(handle[d].page) /\ FrameOf(handle[d].page) = handle[d].frame
      BY <2>1 DEF PlacementInv, PinsProtectFrames
    <3>2. handle[d].frame # f
      BY <1>2, <1>3, NoPinNoUser
    <3>3. handle[d].page # p
      BY <1>1, <3>1, <3>2
    <3> QED BY <1>10, <3>1, <3>3 DEF Cached, FrameOf
  <2>2. \A g \in Frames : pages_'[g].pin_count_ = Cardinality(Users(g)')
    BY <1>2, <1>6 DEF PlacementInv, PinsProtectFrames, Users
  <2> QED BY <1>2, <2>1, <2>2 DEF PinsProtectFrames, Cached, FrameOf
<1>14. StaleIdsAreDead'
  <2>1. ASSUME NEW g \in Frames, Listed(free_list_', g)
        PROVE  ~pages_'[g].is_dirty_ /\ pages_'[g].id_ \in retired' \cup {NoPage}
    BY <1>2, <1>3, <1>5, <1>6, <2>1 DEF PlacementInv, StaleIdsAreDead
  <2>2. ASSUME NEW q \in PageIds, page_table_'[q] # INVALID_FRAME_ID
        PROVE  q \in Allocated' \ retired'
    BY <1>2, <1>10, <1>11, <2>2 DEF PlacementInv, StaleIdsAreDead, Cached, Allocated
  <2>3. retired' \subseteq Allocated'
    BY <1>2 DEF PlacementInv, StaleIdsAreDead, Allocated
  <2> QED BY <2>1, <2>2, <2>3 DEF StaleIdsAreDead, InFreeList, Cached
<1> QED BY <1>7, <1>8, <1>9, <1>12, <1>13, <1>14 DEF PlacementInv

\* Every step of the pool keeps the placement invariants, as long as callers do
\* not delete pages in use and do not fetch deleted ones.
LEMMA NextPlacement ==
    ASSUME PlacementInv, Misuse = {}, [Next]_vars
    PROVE  PlacementInv'
<1>1. ASSUME NEW c \in Clients, NEW p \in PageIds, FetchHit(c, p) PROVE PlacementInv'
  BY <1>1, FetchHitPlacement
<1>2. ASSUME NEW c \in Clients, NEW p \in PageIds, FetchMiss(c, p) PROVE PlacementInv'
  BY <1>2, FetchMissPlacement
<1>3. ASSUME NEW c \in Clients, NEW p \in PageIds, FetchThrowsOnWrite(c, p)
      PROVE  PlacementInv'
  <2>1. fd2pageno_' \in [Fds -> 0 .. MaxPages] /\ Allocated' = Allocated
    BY <1>3 DEF FetchThrowsOnWrite, PlacementInv, TypeOK, Allocated
  <2> QED BY <1>3, <2>1, WriteBackThrowsPlacement DEF FetchThrowsOnWrite
<1>4. ASSUME NEW c \in Clients, NEW p \in PageIds, FetchThrowsOnRead(c, p)
      PROVE  PlacementInv'
  BY <1>4, FetchThrowsOnReadPlacement
<1>5. ASSUME NEW c \in Clients, NEW fd \in Fds, NewPage(c, fd) PROVE PlacementInv'
  BY <1>5, NewPagePlacement
<1>6. ASSUME NEW c \in Clients, NEW fd \in Fds, NewPageThrows(c, fd) PROVE PlacementInv'
  BY <1>6, NewPageThrowsPlacement
<1>7. ASSUME NEW c \in Clients, NEW v \in Data, WriteData(c, v) PROVE PlacementInv'
  BY <1>7, WriteDataPlacement
<1>8. ASSUME NEW c \in Clients, NEW d \in BOOLEAN, UnpinPage(c, d) PROVE PlacementInv'
  BY <1>8, UnpinPagePlacement
<1>9. ASSUME NEW p \in PageIds, FlushPage(p) PROVE PlacementInv'
  BY <1>9, FlushPagePlacement
<1>10. ASSUME NEW p \in PageIds, DeletePage(p) PROVE PlacementInv'
  BY <1>10, DeletePagePlacement
<1>11. ASSUME NEW p \in PageIds, DeletePageThrows(p) PROVE PlacementInv'
  BY <1>11, DeletePageThrowsPlacement
<1>12. ASSUME NEW fd \in Fds, FlushAllPages(fd) PROVE PlacementInv'
  BY <1>12, FlushAllPagesPlacement
<1>13. CASE UNCHANGED vars
  <2>1. /\ TypeOK' = TypeOK /\ ReuseIsExclusive' = ReuseIsExclusive
        /\ PinnedIsNotReusable' = PinnedIsNotReusable
        /\ PageTableMatchesFrames' = PageTableMatchesFrames
    BY <1>13 DEF vars, TypeOK, ReuseIsExclusive, PinnedIsNotReusable,
                 PageTableMatchesFrames, InFreeList, InReplacer, Cached, FrameOf
  <2>2. PinsProtectFrames' = PinsProtectFrames /\ StaleIdsAreDead' = StaleIdsAreDead
    BY <1>13 DEF vars, PinsProtectFrames, StaleIdsAreDead, InFreeList, Cached, FrameOf,
                 Users, Allocated
  <2> QED BY <2>1, <2>2 DEF PlacementInv
<1> QED BY <1>1, <1>2, <1>3, <1>4, <1>5, <1>6, <1>7, <1>8, <1>9, <1>10, <1>11, <1>12,
           <1>13 DEF Next

-----------------------------------------------------------------------------
(* Theorems                                                                *)

\* The placement invariants hold in every reachable state of a pool of any
\* size, with any number of files and clients, whether or not page I/O throws,
\* provided callers keep the rules of use.
THEOREM PlacementCorrect == Misuse = {} /\ Spec => []PlacementInv
<1>1. Misuse = {} /\ PlacementInv /\ [Next]_vars => PlacementInv'
  BY NextPlacement
<1>2. Init => PlacementInv
  BY InitPlacement
<1>3. CASE Misuse = {}
  BY <1>1, <1>2, <1>3, PTL DEF Spec
<1> QED BY <1>3

\* FetchPage, NewPage, UnpinPage, FlushPage, FlushAllPages and DeletePage keep
\* every field of the pool within its type.
THEOREM TypeCorrect == Misuse = {} /\ Spec => []TypeOK
<1>1. PlacementInv => TypeOK
  BY DEF PlacementInv
<1> QED BY <1>1, PlacementCorrect, PTL

\* While a client holds its pin, the page stays in the frame its pointer leads
\* to and the pin count is the number of users: no eviction or deletion takes a
\* page from under FetchPage's caller.
THEOREM PinsProtect == Misuse = {} /\ Spec => []PinsProtectFrames
<1>1. PlacementInv => PinsProtectFrames
  BY DEF PlacementInv
<1> QED BY <1>1, PlacementCorrect, PTL

\* The page table and the frames agree: no two frames hold the same cached page
\* and no frame is found under two page ids.
THEOREM PageTableCorrect == Misuse = {} /\ Spec => []PageTableMatchesFrames
<1>1. PlacementInv => PageTableMatchesFrames
  BY DEF PlacementInv
<1> QED BY <1>1, PlacementCorrect, PTL


-----------------------------------------------------------------------------
(* Disk addresses                                                          *)

\* The offsets of a file's pages do not run through the int range twice.
NoOverrun == MaxPages <= 2 * HalfRange

\* An offset that does not wrap to a negative number is the page's number.
LEMMA SeekableOffset ==
    ASSUME NoOverrun, NEW p \in PageIds, Seekable(p)
    PROVE  Offset(p.page_no) = p.page_no
<1> DEFINE n == p.page_no
           H == HalfRange
           N == 2 * H
<1>1. n \in Nat /\ n < N /\ H \in Nat \ {0} /\ N \in Nat \ {0} /\ N = H + H
  BY PoolAssumption DEF PageIds, NoOverrun
<1>2. Offset(p.page_no) = ((n + H) % N) - H
  BY DEF Offset
<1>3. Offset(p.page_no) >= 0
  BY DEF Seekable
<1> HIDE DEF n, H, N
<1>4. CASE n < H
  <2>1. n + H \in 0 .. N - 1
    BY <1>1, <1>4
  <2>2. (n + H) % N = n + H
    BY <1>1, <2>1
  <2> QED BY <1>1, <1>2, <2>2 DEF n
<1>5. CASE n >= H
  <2>1. n - H \in 0 .. N - 1 /\ n + H = (n - H) + N
    BY <1>1, <1>5
  <2>2. (n + H) % N = n - H
    BY <1>1, <2>1
  <2>3. n - H - H < 0
    BY <1>1
  <2> QED BY <1>1, <1>2, <1>3, <2>2, <2>3
<1> QED BY <1>1, <1>4, <1>5

\* Two pages that can be addressed have different places on disk.
LEMMA LocationsApart ==
    ASSUME NoOverrun, NEW p \in PageIds, NEW q \in PageIds, Seekable(p), Seekable(q),
           Location(p) = Location(q)
    PROVE  p = q
<1>1. p.fd = q.fd /\ p.page_no = q.page_no
  BY SeekableOffset DEF Location
<1> QED BY <1>1 DEF PageIds

-----------------------------------------------------------------------------
(* No frame is lost                                                        *)

\* A step that leaves the frames other than f where they are.
LEMMA OthersReusable ==
    ASSUME UnpinnedIsReusable, NEW f,
           \A x \in Frames \ {f} : /\ pages_'[x].id_ = pages_[x].id_
                                   /\ pages_'[x].pin_count_ = pages_[x].pin_count_
                                   /\ InFreeList(x) => Listed(free_list_', x)
                                   /\ InReplacer(x) => Listed(LRUlist_', x),
           \/ pages_'[f].pin_count_ # 0
           \/ Listed(free_list_', f)
           \/ Listed(LRUlist_', f)
           \/ ~Seekable(pages_'[f].id_)
    PROVE  UnpinnedIsReusable'
<1> SUFFICES ASSUME NEW g \in Frames, pages_'[g].pin_count_ = 0,
                    ~Listed(free_list_', g), ~Listed(LRUlist_', g)
             PROVE  ~Seekable(pages_'[g].id_)
  BY DEF UnpinnedIsReusable, InFreeList, InReplacer, Seekable
<1>1. CASE g = f
  BY <1>1
<1>2. CASE g # f
  <2>1. pages_[g].pin_count_ = 0 /\ ~InFreeList(g) /\ ~InReplacer(g)
    BY <1>2
  <2> QED BY <1>2, <2>1 DEF UnpinnedIsReusable
<1> QED BY <1>1, <1>2

\* A step that moves no frame, changes no pin and no id_.
LEMMA StillReusable ==
    ASSUME UnpinnedIsReusable, UNCHANGED <<free_list_, LRUlist_>>,
           \A x \in Frames : /\ pages_'[x].id_ = pages_[x].id_
                             /\ pages_'[x].pin_count_ = pages_[x].pin_count_
    PROVE  UnpinnedIsReusable'
BY DEF UnpinnedIsReusable, InFreeList, InReplacer, Seekable

\* FetchPage and NewPage put the frame they take to use, or leave it in no list
\* with a page that cannot be addressed.
LEMMA TakeReusable ==
    ASSUME PlacementInv, UnpinnedIsReusable, HasFrame, NEW f, f = TakenFrame,
           free_list_' = FreeListAfter,
           LRUlist_' = LRUlistAfter \/ LRUlist_' = ReplacerPin(LRUlistAfter, f),
           \A x \in Frames \ {f} : /\ pages_'[x].id_ = pages_[x].id_
                                   /\ pages_'[x].pin_count_ = pages_[x].pin_count_,
           pages_'[f].pin_count_ # 0 \/ ~Seekable(pages_'[f].id_)
    PROVE  UnpinnedIsReusable'
<1>1. /\ LRUlistAfter \in Seq(Frames) /\ IsInjective(LRUlistAfter)
      /\ \A x : Listed(FreeListAfter, x) <=> InFreeList(x) /\ x # f
      /\ \A x : Listed(LRUlistAfter, x) <=> InReplacer(x) /\ x # f
  BY TakenFrameFacts
<1>2. \A x : Listed(ReplacerPin(LRUlistAfter, f), x) <=> Listed(LRUlistAfter, x) /\ x # f
  BY <1>1, PinRemoves
<1>3. \A x \in Frames \ {f} : /\ InFreeList(x) => Listed(free_list_', x)
                              /\ InReplacer(x) => Listed(LRUlist_', x)
  BY <1>1, <1>2
<1> QED BY <1>3, OthersReusable

\* Every step of the pool keeps its frames within reach.
LEMMA NextReusable ==
    ASSUME PlacementInv, UnpinnedIsReusable, Misuse = {}, [Next]_vars
    PROVE  UnpinnedIsReusable'
<1>1. ASSUME NEW c \in Clients, NEW p \in PageIds, FetchHit(c, p)
      PROVE  UnpinnedIsReusable'
  <2>1. PICK f \in Frames : f = FrameOf(p)
    BY <1>1 DEF FetchHit, PlacementInv, Cached, FrameOf, TypeOK
  <2>2. /\ LRUlist_' = ReplacerPin(LRUlist_, f)
        /\ pages_' = [pages_ EXCEPT ![f].pin_count_ = @ + 1]
        /\ free_list_' = free_list_
    BY <1>1, <2>1 DEF FetchHit
  <2>3. \A x : Listed(LRUlist_', x) <=> InReplacer(x) /\ x # f
    BY <2>2, PinRemoves DEF PlacementInv, TypeOK, ReuseIsExclusive, InReplacer
  <2>4. /\ \A x \in Frames \ {f} : pages_'[x] = pages_[x]
        /\ pages_'[f].pin_count_ = pages_[f].pin_count_ + 1
        /\ pages_[f].pin_count_ \in Nat
    BY <2>2 DEF PlacementInv, TypeOK, Page
  <2>5. pages_'[f].pin_count_ # 0
    BY <2>4
  <2>6. \A x \in Frames \ {f} : /\ InFreeList(x) => Listed(free_list_', x)
                                /\ InReplacer(x) => Listed(LRUlist_', x)
    BY <2>2, <2>3 DEF InFreeList
  <2> QED BY <2>4, <2>5, <2>6, OthersReusable
<1>2. ASSUME NEW c \in Clients, NEW p \in PageIds, FetchMiss(c, p)
      PROVE  UnpinnedIsReusable'
  <2>1. PICK f : f = TakenFrame
    OBVIOUS
  <2>2. PICK v : pages_' = [pages_ EXCEPT ![f] = [id_ |-> p, data_ |-> v,
                                                  is_dirty_ |-> FALSE, pin_count_ |-> 1]]
    BY <1>2, <2>1 DEF FetchMiss
  <2>3. /\ HasFrame /\ free_list_' = FreeListAfter
        /\ LRUlist_' = ReplacerPin(LRUlistAfter, f)
    BY <1>2, <2>1 DEF FetchMiss
  <2>4. f \in Frames
    BY <2>1, <2>3, TakenFrameFacts
  <2>5. pages_'[f].pin_count_ = 1 /\ \A x \in Frames \ {f} : pages_'[x] = pages_[x]
    BY <2>2, <2>4 DEF PlacementInv, TypeOK
  <2> QED BY <2>1, <2>3, <2>5, TakeReusable
<1>3. ASSUME NEW c \in Clients, NEW p \in PageIds, FetchThrowsOnWrite(c, p)
      PROVE  UnpinnedIsReusable'
  BY <1>3, TakeReusable DEF FetchThrowsOnWrite, WriteBackThrows
<1>4. ASSUME NEW c \in Clients, NEW p \in PageIds, FetchThrowsOnRead(c, p)
      PROVE  UnpinnedIsReusable'
  <2>1. PICK f : f = TakenFrame
    OBVIOUS
  <2>2. /\ HasFrame /\ free_list_' = FreeListAfter /\ LRUlist_' = LRUlistAfter
        /\ ~Seekable(p)
        /\ pages_' = [pages_ EXCEPT ![f].id_ = p, ![f].data_ = Zero, ![f].is_dirty_ = FALSE]
    BY <1>4, <2>1 DEF FetchThrowsOnRead
  <2>3. f \in Frames
    BY <2>1, <2>2, TakenFrameFacts
  <2>4. pages_'[f].id_ = p /\ \A x \in Frames \ {f} : pages_'[x] = pages_[x]
    BY <2>2, <2>3 DEF PlacementInv, TypeOK, Page
  <2> QED BY <2>1, <2>2, <2>4, TakeReusable
<1>5. ASSUME NEW c \in Clients, NEW fd \in Fds, NewPage(c, fd) PROVE UnpinnedIsReusable'
  <2>1. PICK f : f = TakenFrame
    OBVIOUS
  <2>2. /\ HasFrame /\ free_list_' = FreeListAfter
        /\ LRUlist_' = ReplacerPin(LRUlistAfter, f)
    BY <1>5, <2>1 DEF NewPage
  <2>3. f \in Frames
    BY <2>1, <2>2, TakenFrameFacts
  <2>4. PICK p : p = [fd |-> fd, page_no |-> fd2pageno_[fd]]
    OBVIOUS
  <2>5. pages_' = [x \in Frames |->
            IF x = f THEN [id_ |-> p, data_ |-> Zero, pin_count_ |-> 1,
                           is_dirty_ |-> pages_[f].is_dirty_ /\ ~NeedsWriteBack(f)]
            ELSE pages_[x]]
    BY <1>5, <2>1, <2>4, NewPageEffect
  <2>6. pages_'[f].pin_count_ = 1 /\ \A x \in Frames \ {f} : pages_'[x] = pages_[x]
    BY <2>3, <2>5
  <2> QED BY <2>1, <2>2, <2>6, TakeReusable
<1>6. ASSUME NEW c \in Clients, NEW fd \in Fds, NewPageThrows(c, fd)
      PROVE  UnpinnedIsReusable'
  BY <1>6, TakeReusable DEF NewPageThrows, WriteBackThrows
<1>7. ASSUME NEW c \in Clients, NEW v \in Data, WriteData(c, v) PROVE UnpinnedIsReusable'
  <2>1. \A x \in Frames : /\ pages_'[x].id_ = pages_[x].id_
                          /\ pages_'[x].pin_count_ = pages_[x].pin_count_
    BY <1>7 DEF WriteData, PlacementInv, TypeOK, Page
  <2> QED BY <1>7, <2>1, StillReusable DEF WriteData, lists
<1>8. ASSUME NEW c \in Clients, NEW d \in BOOLEAN, UnpinPage(c, d) PROVE UnpinnedIsReusable'
  <2>1. PICK f : f = handle[c].frame
    OBVIOUS
  <2>2. handle[c] # Idle /\ handle' = [handle EXCEPT ![c] = Idle]
    BY <1>8 DEF UnpinPage
  <2>3. f \in Frames /\ Cardinality(Users(f)) \in Nat \ {0}
    BY <2>1, <2>2, UserRemoved DEF PlacementInv
  <2>4. /\ Cached(handle[c].page) /\ FrameOf(handle[c].page) = f
        /\ pages_[f].pin_count_ \in Nat \ {0}
    BY <2>1, <2>2, <2>3 DEF PlacementInv, PinsProtectFrames
  <2>5. /\ pages_' = [pages_ EXCEPT ![f] = Unpinned(pages_[f], d)]
        /\ LRUlist_' = IF pages_[f].pin_count_ = 1 THEN ReplacerUnpin(LRUlist_, f) ELSE LRUlist_
        /\ free_list_' = free_list_
    BY <1>8, <2>4 DEF UnpinPage
  <2>6. \A x : Listed(LRUlist_', x) <=> InReplacer(x) \/ (x = f /\ pages_[f].pin_count_ = 1)
    BY <2>3, <2>5, UnpinAdds DEF PlacementInv, TypeOK, ReuseIsExclusive, InReplacer
  <2>7. /\ pages_'[f].pin_count_ = pages_[f].pin_count_ - 1
        /\ \A x \in Frames \ {f} : pages_'[x] = pages_[x]
    BY <2>3, <2>5 DEF PlacementInv, TypeOK, Unpinned, Page
  <2>8. pages_'[f].pin_count_ # 0 \/ Listed(LRUlist_', f)
    BY <2>4, <2>6, <2>7
  <2>9. \A x \in Frames \ {f} : /\ InFreeList(x) => Listed(free_list_', x)
                                /\ InReplacer(x) => Listed(LRUlist_', x)
    BY <2>5, <2>6 DEF InFreeList
  <2> QED BY <2>7, <2>8, <2>9, OthersReusable
<1>9. ASSUME NEW p \in PageIds, FlushPage(p) PROVE UnpinnedIsReusable'
  <2>1. \A x \in Frames : /\ pages_'[x].id_ = pages_[x].id_
                          /\ pages_'[x].pin_count_ = pages_[x].pin_count_
    BY <1>9 DEF FlushPage, PlacementInv, TypeOK, Page
  <2> QED BY <1>9, <2>1, StillReusable DEF FlushPage, lists
<1>10. ASSUME NEW p \in PageIds, DeletePage(p) PROVE UnpinnedIsReusable'
  <2>1. PICK f : f = FrameOf(p)
    OBVIOUS
  <2>2. /\ Cached(p) /\ LRUlist_' = ReplacerPin(LRUlist_, f)
        /\ pages_' = [pages_ EXCEPT ![f].is_dirty_ = FALSE, ![f].data_ = Zero]
        /\ free_list_' = Append(free_list_, f)
    BY <1>10, <2>1 DEF DeletePage
  <2>3. f \in Frames /\ ~InFreeList(f)
    BY <2>1, <2>2 DEF PlacementInv, PageTableMatchesFrames, Cached, FrameOf, TypeOK
  <2>4. \A x : Listed(LRUlist_', x) <=> InReplacer(x) /\ x # f
    BY <2>2, PinRemoves DEF PlacementInv, TypeOK, ReuseIsExclusive, InReplacer
  <2>5. \A x : Listed(free_list_', x) <=> InFreeList(x) \/ x = f
    BY <2>2, <2>3, AppendAdds DEF PlacementInv, TypeOK, ReuseIsExclusive, InFreeList
  <2>6. \A x \in Frames \ {f} : pages_'[x] = pages_[x]
    BY <2>2, <2>3 DEF PlacementInv, TypeOK
  <2> QED BY <2>4, <2>5, <2>6, OthersReusable
<1>11. ASSUME NEW p \in PageIds, DeletePageThrows(p) PROVE UnpinnedIsReusable'
  <2>1. PICK f : f = FrameOf(p)
    OBVIOUS
  <2>2. /\ Cached(p) /\ ~Seekable(p) /\ LRUlist_' = ReplacerPin(LRUlist_, f)
        /\ UNCHANGED <<pages_, free_list_>>
    BY <1>11, <2>1 DEF DeletePageThrows
  <2>3. pages_[f].id_ = p
    BY <2>1, <2>2 DEF PlacementInv, PageTableMatchesFrames
  <2>4. \A x : Listed(LRUlist_', x) <=> InReplacer(x) /\ x # f
    BY <2>2, PinRemoves DEF PlacementInv, TypeOK, ReuseIsExclusive, InReplacer
  <2>5. \A x \in Frames \ {f} : /\ InFreeList(x) => Listed(free_list_', x)
                                /\ InReplacer(x) => Listed(LRUlist_', x)
    BY <2>2, <2>4 DEF InFreeList
  <2>6. ~Seekable(pages_'[f].id_)
    BY <2>2, <2>3
  <2> QED BY <2>2, <2>5, <2>6, OthersReusable
<1>12. ASSUME NEW fd \in Fds, FlushAllPages(fd) PROVE UnpinnedIsReusable'
  <2>1. PICK F : pages_' = [f \in Frames |->
                               IF f \in F THEN [pages_[f] EXCEPT !.is_dirty_ = FALSE]
                               ELSE pages_[f]]
    BY <1>12, Zenon DEF FlushAllPages
  <2>2. \A x \in Frames : /\ pages_'[x].id_ = pages_[x].id_
                          /\ pages_'[x].pin_count_ = pages_[x].pin_count_
    BY <2>1 DEF PlacementInv, TypeOK, Page
  <2> QED BY <1>12, <2>2, StillReusable DEF FlushAllPages, lists
<1>13. CASE UNCHANGED vars
  BY <1>13, StillReusable DEF vars
<1> QED BY <1>1, <1>2, <1>3, <1>4, <1>5, <1>6, <1>7, <1>8, <1>9, <1>10, <1>11, <1>12,
           <1>13 DEF Next

\* No frame is lost to the pool: as long as callers keep the rules, a frame that
\* nobody pins can be taken by FetchPage or NewPage, unless its page is one whose
\* I/O throws.
THEOREM NoFrameIsLost == Misuse = {} /\ Spec => []UnpinnedIsReusable
<1>1. Misuse = {} /\ PlacementInv /\ UnpinnedIsReusable /\ [Next]_vars => UnpinnedIsReusable'
  BY NextReusable
<1>2. Init => UnpinnedIsReusable
  <2>1. ASSUME Init, NEW f \in Frames PROVE InFreeList(f)
    <3>1. /\ PoolSize \in Nat /\ free_list_ = [i \in 1 .. PoolSize |-> i - 1]
          /\ f + 1 \in 1 .. PoolSize /\ (f + 1) - 1 = f
      BY <2>1, PoolAssumption DEF Init, InitialFreeList, Frames
    <3> QED BY <3>1 DEF InFreeList, Listed
  <2> QED BY <2>1 DEF UnpinnedIsReusable
<1>3. CASE Misuse = {}
  BY <1>1, <1>2, <1>3, PlacementCorrect, PTL DEF Spec
<1> QED BY <1>3

-----------------------------------------------------------------------------
(* No write is lost                                                        *)

\* CleanPagesOnDisk for one page.
Intact(p) ==
    Cached(p) /\ Seekable(p) /\ ~pages_[FrameOf(p)].is_dirty_
        => \/ pages_[FrameOf(p)].data_ = read_page(p)
           \/ \E c \in Users(FrameOf(p)) : handle[c].wrote

\* A page that was not allocated yet reads as zeroes, which is what NewPage
\* will put into its frame without marking it dirty.
FreshReadsZero ==
    \A p \in PageIds : p \notin Allocated /\ Seekable(p) => read_page(p) = Zero

DurableInv == PlacementInv /\ CleanPagesOnDisk /\ FreshReadsZero

LEMMA CleanIsIntact == CleanPagesOnDisk <=> \A p \in PageIds : Intact(p)
BY DEF CleanPagesOnDisk, Intact

\* A page stays intact, and reads as before, when its place, its copies, its
\* dirty bit and its writers are as they were.
LEMMA PageKept ==
    ASSUME NEW q \in PageIds, Intact(q), page_table_'[q] = page_table_[q],
           q \in retired' <=> q \in retired,
           Seekable(q) => disk'[Location(q)] = disk[Location(q)],
           Cached(q) => /\ pages_'[page_table_[q]].data_ = pages_[page_table_[q]].data_
                        /\ pages_'[page_table_[q]].is_dirty_ = pages_[page_table_[q]].is_dirty_
                        /\ \A c \in Clients :
                               handle[c].frame = page_table_[q] /\ handle[c].wrote
                                   => handle'[c].frame = page_table_[q] /\ handle'[c].wrote
    PROVE  Intact(q)' /\ (Seekable(q) => Content(q)' = Content(q))
<1>1. Cached(q)' <=> Cached(q)
  BY DEF Cached
<1>2. Seekable(q) => Content(q)' = Content(q)
  <2>1. Seekable(q) => read_page(q)' = read_page(q)
    BY DEF read_page, Location, Offset
  <2> QED BY <1>1, <2>1 DEF Content, FrameOf
<1>3. Intact(q)'
  <2> SUFFICES ASSUME Cached(q), Seekable(q), ~pages_'[page_table_[q]].is_dirty_
               PROVE  \/ pages_'[page_table_[q]].data_ = disk'[Location(q)]
                      \/ \E c \in Clients : handle'[c].frame = page_table_[q] /\ handle'[c].wrote
    BY <1>1 DEF Intact, FrameOf, Users, read_page, Location, Offset, Seekable
  <2>1. \/ pages_[page_table_[q]].data_ = disk[Location(q)]
        \/ \E c \in Clients : handle[c].frame = page_table_[q] /\ handle[c].wrote
    BY DEF Intact, FrameOf, Users, read_page
  <2> QED BY <2>1
<1> QED BY <1>2, <1>3

\* A write to the place of one page leaves every other page's place alone.
LEMMA WriteElsewhere ==
    ASSUME TypeOK, NoOverrun, NEW p \in PageIds, Seekable(p), NEW v,
           disk' = write_page(p, v)
    PROVE  /\ disk'[Location(p)] = v
           /\ \A q \in PageIds \ {p} : Seekable(q) => disk'[Location(q)] = disk[Location(q)]
<1>1. Location(p) \in Locations /\ disk' = [disk EXCEPT ![Location(p)] = v]
      /\ disk \in [Locations -> Data]
  BY SeekableHasLocation DEF write_page, TypeOK
<1>2. ASSUME NEW q \in PageIds \ {p}, Seekable(q)
      PROVE  disk'[Location(q)] = disk[Location(q)]
  <2>1. Location(q) \in Locations /\ Location(q) # Location(p)
    BY <1>2, SeekableHasLocation, LocationsApart
  <2> QED BY <1>1, <2>1
<1> QED BY <1>1, <1>2

\* The frame of a cached page holds that page and no other.
LEMMA FramesApart ==
    ASSUME PlacementInv, NEW p \in PageIds, Cached(p)
    PROVE  /\ page_table_[p] \in Frames /\ pages_[page_table_[p]].id_ = p
           /\ ~InFreeList(page_table_[p])
           /\ p \in Allocated /\ p \notin retired
           /\ \A q \in PageIds : Cached(q) /\ page_table_[q] = page_table_[p] => q = p
<1>1. \A q \in PageIds : Cached(q) => /\ page_table_[q] \in Frames
                                     /\ pages_[page_table_[q]].id_ = q
                                     /\ ~InFreeList(page_table_[q])
                                     /\ q \in Allocated /\ q \notin retired
  BY DEF PlacementInv, TypeOK, PageTableMatchesFrames, StaleIdsAreDead, Cached, FrameOf
<1> QED BY <1>1

\* Giving the frame that was taken to page p: the page it held is on disk now,
\* and the other pages are where they were.
LEMMA PlaceKeepsOthers ==
    ASSUME DurableInv, NoOverrun, HasFrame,
           NEW p \in PageIds, ~Cached(p), p \notin retired,
           NEW f, f = TakenFrame, NEW old, old = pages_[f].id_, ~WriteBackThrows(f),
           disk' = IF NeedsWriteBack(f) THEN write_page(old, pages_[f].data_) ELSE disk,
           page_table_' = Remap(old, p, f),
           \A x \in Frames \ {f} : pages_'[x] = pages_[x],
           \A d \in Clients : handle[d].wrote => handle'[d] = handle[d],
           retired' = retired
    PROVE  /\ \A q \in PageIds \ {p} : Intact(q)' /\ (Seekable(q) => Content(q)' = Content(q))
           /\ Seekable(p) => disk'[Location(p)] = disk[Location(p)]
           /\ page_table_'[p] = f
           /\ \A q \in PageIds : q \notin Allocated /\ Seekable(q)
                                     => disk'[Location(q)] = disk[Location(q)]
<1>0. PlacementInv /\ CleanPagesOnDisk /\ TypeOK
  BY DEF DurableInv, PlacementInv
<1>1. /\ f \in Frames /\ pages_[f].pin_count_ = 0
      /\ Cached(old) <=> ~InFreeList(f)
      /\ Cached(old) => page_table_[old] = f
  BY <1>0, TakenFrameFacts DEF FrameOf
<1>2. \A c \in Clients : handle[c].frame # f
  BY <1>0, <1>1, NoPinNoUser
<1>3. f # INVALID_FRAME_ID /\ old # p /\ NoPage \notin PageIds
      /\ (InFreeList(f) => old \in retired \cup {NoPage})
  BY <1>0, <1>1, PoolAssumption DEF Frames, INVALID_FRAME_ID, PlacementInv, StaleIdsAreDead,
                                    NoPage, PageIds
<1>4. /\ page_table_'[p] = f
      /\ \A q \in PageIds \ {p} : page_table_'[q] = IF q = old THEN INVALID_FRAME_ID
                                                    ELSE page_table_[q]
  BY <1>3 DEF Remap, Cached
<1>5. \A q \in PageIds : Seekable(q) /\ q # old => disk'[Location(q)] = disk[Location(q)]
  <2>1. CASE NeedsWriteBack(f)
    <3>1. old \in PageIds /\ Seekable(old)
      BY <2>1 DEF NeedsWriteBack, WriteBackThrows, Cached
    <3> QED BY <1>0, <2>1, <3>1, WriteElsewhere
  <2>2. CASE ~NeedsWriteBack(f)
    BY <2>2
  <2> QED BY <2>1, <2>2
<1>6. ASSUME Cached(old), Seekable(old) PROVE disk'[Location(old)] = pages_[f].data_
  <2>1. old \in PageIds
    BY <1>6 DEF Cached
  <2>2. CASE NeedsWriteBack(f)
    BY <1>0, <1>6, <2>1, <2>2, WriteElsewhere
  <2>3. CASE ~NeedsWriteBack(f)
    <3>1. ~pages_[f].is_dirty_ /\ disk' = disk
      BY <1>6, <2>3 DEF NeedsWriteBack
    <3>2. pages_[f].data_ = disk[Location(old)] \/ \E c \in Clients : handle[c].frame = f
      BY <1>0, <1>1, <1>6, <2>1, <3>1 DEF CleanPagesOnDisk, FrameOf, Users, read_page
    <3> QED BY <1>2, <3>1, <3>2
  <2> QED BY <2>2, <2>3
<1>7. ASSUME NEW q \in PageIds \ {p}
      PROVE  Intact(q)' /\ (Seekable(q) => Content(q)' = Content(q))
  <2>1. CASE q = old
    <3>1. ~Cached(q)'
      BY <1>4, <2>1 DEF Cached
    <3>2. Intact(q)'
      BY <3>1 DEF Intact
    <3>3. CASE q \in retired
      BY <3>2, <3>3 DEF Content
    <3>4. CASE q \notin retired
      <4>1. Cached(q)
        BY <1>1, <1>3, <2>1, <3>4
      <4>2. ASSUME Seekable(q) PROVE Content(q)' = Content(q)
        <5>1. Content(q) = pages_[f].data_
          BY <1>1, <2>1, <3>4, <4>1 DEF Content, FrameOf
        <5>2. Content(q)' = disk'[Location(q)]
          BY <3>1, <3>4 DEF Content, read_page, Location, Offset
        <5> QED BY <1>6, <2>1, <4>1, <4>2, <5>1, <5>2
      <4> QED BY <3>2, <4>2
    <3> QED BY <3>3, <3>4
  <2>2. CASE q # old
    <3>1. page_table_'[q] = page_table_[q] /\ Intact(q)
      BY <1>0, <1>4, <2>2, CleanIsIntact
    <3>2. Cached(q) => page_table_[q] \in Frames \ {f}
      BY <1>0, <2>2, FramesApart
    <3>3. Seekable(q) => disk'[Location(q)] = disk[Location(q)]
      BY <1>5, <2>2
    <3> QED BY <3>1, <3>2, <3>3, PageKept
  <2> QED BY <2>1, <2>2
<1>8. ASSUME NEW q \in PageIds, q \notin Allocated PROVE q # old
  <2>1. Cached(old) => old \in Allocated
    BY <1>0 DEF PlacementInv, StaleIdsAreDead, Cached
  <2>2. ~Cached(old) => old \in Allocated \cup {NoPage}
    BY <1>0, <1>1, <1>3 DEF PlacementInv, StaleIdsAreDead
  <2> QED BY <1>3, <1>8, <2>1, <2>2
<1> QED BY <1>3, <1>4, <1>5, <1>7, <1>8

\* The pages not given out yet are not written to.
LEMMA StillFresh ==
    ASSUME FreshReadsZero, Allocated \subseteq Allocated',
           \A q \in PageIds : q \notin Allocated /\ Seekable(q)
                                  => disk'[Location(q)] = disk[Location(q)]
    PROVE  FreshReadsZero'
<1> SUFFICES ASSUME NEW q \in PageIds, q \notin Allocated', Seekable(q)
             PROVE  disk'[Location(q)] = Zero
  BY DEF FreshReadsZero, read_page, Location, Offset, Seekable
<1> QED BY DEF FreshReadsZero, read_page

\* Every page reads as before, and the disk still holds what it has to.
Kept == CleanPagesOnDisk' /\ FreshReadsZero' /\ \A q \in Pages : Content(q)' = Content(q)

\* A step that changes neither the contents nor the place of a page, and takes
\* back no client's knowledge of a write of its own.
LEMMA NothingWritten ==
    ASSUME DurableInv, UNCHANGED <<page_table_, disk, retired>>, Allocated \subseteq Allocated',
           \A x \in Frames : /\ pages_'[x].data_ = pages_[x].data_
                             /\ pages_'[x].is_dirty_ = pages_[x].is_dirty_,
           \A d \in Clients : handle[d].wrote => handle'[d] = handle[d]
    PROVE  Kept
<1>1. PlacementInv /\ CleanPagesOnDisk /\ FreshReadsZero
  BY DEF DurableInv
<1>2. ASSUME NEW q \in PageIds
      PROVE  Intact(q)' /\ (Seekable(q) => Content(q)' = Content(q))
  <2>1. Intact(q) /\ (Cached(q) => page_table_[q] \in Frames)
    BY <1>1, CleanIsIntact, FramesApart
  <2> QED BY <2>1, PageKept
<1>3. CleanPagesOnDisk'
  BY <1>2 DEF CleanPagesOnDisk, Intact
<1>4. FreshReadsZero'
  BY <1>1, StillFresh
<1> QED BY <1>2, <1>3, <1>4 DEF Kept, Pages

\* FetchPage of a cached page.
LEMMA FetchHitDurable ==
    ASSUME DurableInv, NEW c \in Clients, NEW p \in PageIds, FetchHit(c, p)
    PROVE  Kept
<1>1. TypeOK /\ handle[c] = Idle /\ FrameOf(p) \in Frames
  BY DEF DurableInv, PlacementInv, FetchHit, MayFetch, Cached, FrameOf, TypeOK
<1>2. \A x \in Frames : /\ pages_'[x].data_ = pages_[x].data_
                        /\ pages_'[x].is_dirty_ = pages_[x].is_dirty_
  BY <1>1 DEF FetchHit, TypeOK, Page
<1>3. \A d \in Clients : handle[d].wrote => handle'[d] = handle[d]
  BY <1>1 DEF FetchHit, TypeOK, Idle
<1>4. UNCHANGED <<page_table_, disk, retired>> /\ Allocated' = Allocated
  BY DEF FetchHit, Allocated
<1> QED BY <1>2, <1>3, <1>4, NothingWritten

\* A call whose write throws changes no page.
LEMMA ThrowsDurable ==
    ASSUME DurableInv, UNCHANGED <<pages_, page_table_, disk, handle, retired>>,
           Allocated \subseteq Allocated'
    PROVE  Kept
BY NothingWritten

\* FetchPage of a page that is not cached: the page reads as it did on disk.
LEMMA FetchMissDurable ==
    ASSUME DurableInv, NoOverrun, Misuse = {}, NEW c \in Clients, NEW p \in PageIds,
           FetchMiss(c, p)
    PROVE  Kept
<1>1. PICK f, old : f = TakenFrame /\ old = pages_[f].id_
  OBVIOUS
<1>2. /\ handle[c] = Idle /\ p \notin retired /\ ~Cached(p) /\ HasFrame
      /\ ~WriteBackThrows(f) /\ Seekable(p)
      /\ disk' = IF NeedsWriteBack(f) THEN write_page(old, pages_[f].data_) ELSE disk
      /\ page_table_' = Remap(old, p, f)
      /\ pages_' = [pages_ EXCEPT ![f] = [id_ |-> p, data_ |-> disk'[Location(p)],
                                          is_dirty_ |-> FALSE, pin_count_ |-> 1]]
      /\ handle' = [handle EXCEPT ![c] = [page |-> p, frame |-> f, wrote |-> FALSE]]
      /\ UNCHANGED <<fd2pageno_, retired>>
  BY <1>1 DEF FetchMiss, MayFetch
<1>3. PlacementInv /\ TypeOK /\ FreshReadsZero
  BY DEF DurableInv, PlacementInv
<1>4. f \in Frames
  BY <1>1, <1>2, <1>3, TakenFrameFacts
<1>5. /\ \A x \in Frames \ {f} : pages_'[x] = pages_[x]
      /\ pages_'[f].data_ = disk'[Location(p)]
  BY <1>2, <1>3, <1>4 DEF TypeOK
<1>6. \A d \in Clients : handle[d].wrote => handle'[d] = handle[d]
  BY <1>2, <1>3 DEF TypeOK, Idle
<1>7. /\ \A q \in PageIds \ {p} : Intact(q)' /\ (Seekable(q) => Content(q)' = Content(q))
      /\ disk'[Location(p)] = disk[Location(p)]
      /\ page_table_'[p] = f
      /\ \A q \in PageIds : q \notin Allocated /\ Seekable(q)
                                => disk'[Location(q)] = disk[Location(q)]
  BY <1>1, <1>2, <1>5, <1>6, PlaceKeepsOthers
<1>8. Intact(p)' /\ Content(p)' = Content(p)
  <2>1. f # INVALID_FRAME_ID
    BY <1>4, PoolAssumption DEF Frames, INVALID_FRAME_ID
  <2>2. Cached(p)' /\ FrameOf(p)' = f /\ read_page(p)' = disk'[Location(p)]
    BY <1>7, <2>1 DEF Cached, FrameOf, read_page, Location, Offset
  <2> QED BY <1>2, <1>5, <1>7, <2>2 DEF Intact, Content, read_page
<1>9. CleanPagesOnDisk'
  BY <1>7, <1>8 DEF CleanPagesOnDisk, Intact
<1>10. FreshReadsZero'
  <2>1. Allocated' = Allocated
    BY <1>2 DEF Allocated
  <2> QED BY <1>3, <1>7, <2>1, StillFresh
<1> QED BY <1>7, <1>8, <1>9, <1>10 DEF Kept, Pages

\* FetchPage whose read throws: the page it mapped is not one of the store's.
LEMMA FetchThrowsOnReadDurable ==
    ASSUME DurableInv, NoOverrun, Misuse = {}, NEW c \in Clients, NEW p \in PageIds,
           FetchThrowsOnRead(c, p)
    PROVE  Kept
<1>1. PICK f, old : f = TakenFrame /\ old = pages_[f].id_
  OBVIOUS
<1>2. /\ p \notin retired /\ ~Cached(p) /\ HasFrame
      /\ ~WriteBackThrows(f) /\ ~Seekable(p)
      /\ disk' = IF NeedsWriteBack(f) THEN write_page(old, pages_[f].data_) ELSE disk
      /\ page_table_' = Remap(old, p, f)
      /\ pages_' = [pages_ EXCEPT ![f].id_ = p, ![f].data_ = Zero, ![f].is_dirty_ = FALSE]
      /\ UNCHANGED <<fd2pageno_, handle, retired>>
  BY <1>1 DEF FetchThrowsOnRead, MayFetch
<1>3. PlacementInv /\ TypeOK /\ FreshReadsZero
  BY DEF DurableInv, PlacementInv
<1>4. f \in Frames
  BY <1>1, <1>2, <1>3, TakenFrameFacts
<1>5. \A x \in Frames \ {f} : pages_'[x] = pages_[x]
  BY <1>2, <1>3, <1>4 DEF TypeOK
<1>6. /\ \A q \in PageIds \ {p} : Intact(q)' /\ (Seekable(q) => Content(q)' = Content(q))
      /\ \A q \in PageIds : q \notin Allocated /\ Seekable(q)
                                => disk'[Location(q)] = disk[Location(q)]
  BY <1>1, <1>2, <1>5, PlaceKeepsOthers
<1>7. Intact(p)'
  BY <1>2 DEF Intact, Seekable, Offset
<1>8. CleanPagesOnDisk'
  BY <1>6, <1>7 DEF CleanPagesOnDisk, Intact
<1>9. FreshReadsZero'
  <2>1. Allocated' = Allocated
    BY <1>2 DEF Allocated
  <2> QED BY <1>3, <1>6, <2>1, StillFresh
<1> QED BY <1>2, <1>6, <1>8, <1>9 DEF Kept, Pages

\* The page NewPage gives out: one never allocated before.
LEMMA NewPageIsFresh ==
    ASSUME PlacementInv, NEW fd \in Fds, fd2pageno_[fd] < MaxPages, AllocatePage(fd),
           NEW p, p = [fd |-> fd, page_no |-> fd2pageno_[fd]]
    PROVE  /\ p \in PageIds /\ p \notin Allocated /\ ~Cached(p) /\ p \notin retired
           /\ Allocated' = Allocated \cup {p}
<1>1. /\ fd2pageno_ \in [Fds -> 0 .. MaxPages] /\ MaxPages \in Nat
      /\ fd2pageno_[fd] \in 0 .. MaxPages - 1 /\ ~(fd2pageno_[fd] < fd2pageno_[fd])
      /\ fd2pageno_' = [fd2pageno_ EXCEPT ![fd] = @ + 1]
  <2>1. fd2pageno_ \in [Fds -> 0 .. MaxPages] /\ MaxPages \in Nat
    BY PoolAssumption DEF PlacementInv, TypeOK
  <2> QED BY <2>1 DEF AllocatePage
<1>2. p \in PageIds /\ p \notin Allocated
  BY <1>1 DEF PageIds, Allocated
<1>3. ASSUME NEW q \in PageIds PROVE q \in Allocated' <=> q \in Allocated \/ q = p
  <2>1. CASE q.fd # fd
    BY <1>1, <2>1 DEF PageIds, Allocated
  <2>2. CASE q.fd = fd
    <3>1. q.page_no \in Nat /\ (q = p <=> q.page_no = fd2pageno_[fd])
      BY <2>2 DEF PageIds
    <3>2. fd2pageno_'[q.fd] = fd2pageno_[fd] + 1
      BY <1>1, <2>2
    <3>3. q.page_no < fd2pageno_[fd] + 1 <=> q.page_no < fd2pageno_[fd] \/ q.page_no = fd2pageno_[fd]
      BY <1>1, <3>1
    <3> QED BY <2>2, <3>1, <3>2, <3>3 DEF Allocated
  <2> QED BY <2>1, <2>2
<1>4. Allocated' = Allocated \cup {p}
  BY <1>2, <1>3 DEF Allocated
<1> QED BY <1>2, <1>4 DEF PlacementInv, StaleIdsAreDead

\* NewPage: the new page reads as zeroes, as it does on disk.
LEMMA NewPageDurable ==
    ASSUME DurableInv, NoOverrun, NEW c \in Clients, NEW fd \in Fds, NewPage(c, fd),
           NEW p, p = [fd |-> fd, page_no |-> fd2pageno_[fd]]
    PROVE  /\ CleanPagesOnDisk' /\ FreshReadsZero'
           /\ \A q \in Pages \ {p} : Content(q)' = Content(q)
           /\ Content(p)' = Zero
<1>1. PICK f, old : f = TakenFrame /\ old = pages_[f].id_
  OBVIOUS
<1>2. /\ handle[c] = Idle /\ HasFrame /\ ~WriteBackThrows(f)
      /\ fd2pageno_[fd] < MaxPages /\ AllocatePage(fd)
      /\ page_table_' = Remap(old, p, f)
      /\ handle' = [handle EXCEPT ![c] = [page |-> p, frame |-> f, wrote |-> FALSE]]
      /\ UNCHANGED retired
  BY <1>1 DEF NewPage
<1>3. PlacementInv /\ TypeOK /\ FreshReadsZero
  BY DEF DurableInv, PlacementInv
<1>4. /\ disk' = IF NeedsWriteBack(f) THEN write_page(old, pages_[f].data_) ELSE disk
      /\ pages_' = [x \in Frames |->
            IF x = f THEN [id_ |-> p, data_ |-> Zero, pin_count_ |-> 1,
                           is_dirty_ |-> pages_[f].is_dirty_ /\ ~NeedsWriteBack(f)]
            ELSE pages_[x]]
  BY <1>1, <1>3, NewPageEffect
<1>5. f \in Frames
  BY <1>1, <1>2, <1>3, TakenFrameFacts
<1>6. /\ \A x \in Frames \ {f} : pages_'[x] = pages_[x]
      /\ pages_'[f].data_ = Zero
  BY <1>4, <1>5
<1>7. \A d \in Clients : handle[d].wrote => handle'[d] = handle[d]
  BY <1>2, <1>3 DEF TypeOK, Idle
<1>8. /\ p \in PageIds /\ p \notin Allocated /\ ~Cached(p) /\ p \notin retired
      /\ Allocated' = Allocated \cup {p}
  BY <1>2, <1>3, NewPageIsFresh
<1>9. /\ \A q \in PageIds \ {p} : Intact(q)' /\ (Seekable(q) => Content(q)' = Content(q))
      /\ page_table_'[p] = f
      /\ \A q \in PageIds : q \notin Allocated /\ Seekable(q)
                                => disk'[Location(q)] = disk[Location(q)]
  BY <1>1, <1>2, <1>4, <1>6, <1>7, <1>8, PlaceKeepsOthers
<1>10. Intact(p)' /\ Content(p)' = Zero
  <2>1. f # INVALID_FRAME_ID
    BY <1>5, PoolAssumption DEF Frames, INVALID_FRAME_ID
  <2>2. Cached(p)' /\ FrameOf(p)' = f
    BY <1>8, <1>9, <2>1 DEF Cached, FrameOf
  <2>3. Seekable(p) => disk'[Location(p)] = Zero
    BY <1>3, <1>8, <1>9 DEF FreshReadsZero, read_page
  <2>4. Intact(p)'
    BY <1>6, <2>2, <2>3 DEF Intact, read_page, Location, Offset, Seekable
  <2> QED BY <1>2, <1>6, <1>8, <2>2, <2>4 DEF Content
<1>11. CleanPagesOnDisk'
  BY <1>9, <1>10 DEF CleanPagesOnDisk, Intact
<1>12. FreshReadsZero'
  BY <1>3, <1>8, <1>9, StillFresh
<1> QED BY <1>9, <1>10, <1>11, <1>12 DEF Pages

\* A client writes to its page, which nobody else's write is lost by.
LEMMA WriteDataDurable ==
    ASSUME DurableInv, NEW c \in Clients, NEW v \in Data, WriteData(c, v),
           NEW p, p = handle[c].page
    PROVE  /\ CleanPagesOnDisk' /\ FreshReadsZero'
           /\ p \in PageIds /\ Content(p)' = v
           /\ \A q \in Pages \ {p} : Content(q)' = Content(q)
<1>1. PICK f : f = handle[c].frame
  OBVIOUS
<1>2. /\ handle[c] # Idle
      /\ pages_' = [pages_ EXCEPT ![f].data_ = v]
      /\ handle' = [handle EXCEPT ![c].wrote = TRUE]
      /\ UNCHANGED <<page_table_, disk, fd2pageno_, retired>>
  BY <1>1 DEF WriteData
<1>3. PlacementInv /\ TypeOK /\ CleanPagesOnDisk /\ FreshReadsZero
  BY DEF DurableInv, PlacementInv
<1>4. /\ handle[c] \in [page : PageIds, frame : Frames, wrote : BOOLEAN]
      /\ p \in PageIds /\ f \in Frames /\ Cached(p) /\ page_table_[p] = f
  BY <1>1, <1>2, <1>3 DEF TypeOK, Handles, PlacementInv, PinsProtectFrames, FrameOf
<1>5. /\ pages_'[f].data_ = v
      /\ \A x \in Frames \ {f} : pages_'[x] = pages_[x]
  BY <1>2, <1>3, <1>4 DEF TypeOK, Page
<1>6. /\ handle'[c].frame = f /\ handle'[c].wrote
      /\ \A d \in Clients \ {c} : handle'[d] = handle[d]
  BY <1>1, <1>2, <1>3, <1>4 DEF TypeOK
<1>7. ASSUME NEW q \in PageIds \ {p}
      PROVE  Intact(q)' /\ (Seekable(q) => Content(q)' = Content(q))
  <2>1. Intact(q) /\ (Cached(q) => page_table_[q] \in Frames \ {f})
    BY <1>3, <1>4, CleanIsIntact, FramesApart
  <2>2. \A d \in Clients : handle[d].wrote => handle'[d].frame = handle[d].frame /\ handle'[d].wrote
    BY <1>1, <1>6
  <2> QED BY <1>2, <1>5, <2>1, <2>2, PageKept
<1>8. Cached(p)' /\ FrameOf(p)' = f /\ p \notin retired
  BY <1>2, <1>3, <1>4, FramesApart DEF Cached, FrameOf
<1>9. Intact(p)' /\ Content(p)' = v
  BY <1>2, <1>5, <1>6, <1>8 DEF Intact, Content, Users
<1>10. CleanPagesOnDisk'
  BY <1>7, <1>9 DEF CleanPagesOnDisk, Intact
<1>11. FreshReadsZero'
  <2>1. Allocated' = Allocated
    BY <1>2 DEF Allocated
  <2> QED BY <1>2, <1>3, <2>1, StillFresh
<1> QED BY <1>4, <1>7, <1>9, <1>10, <1>11 DEF Pages

\* UnpinPage: a client that wrote leaves the dirty bit set, and one that did not
\* takes back nobody's.
LEMMA UnpinPageDurable ==
    ASSUME DurableInv, NEW c \in Clients, NEW d \in BOOLEAN, UnpinPage(c, d)
    PROVE  Kept
<1>1. PICK f, p : f = handle[c].frame /\ p = handle[c].page
  OBVIOUS
<1>2. PlacementInv /\ TypeOK /\ CleanPagesOnDisk /\ FreshReadsZero
  BY DEF DurableInv, PlacementInv
<1>3. /\ handle[c] # Idle /\ (handle[c].wrote => d)
      /\ handle' = [handle EXCEPT ![c] = Idle]
      /\ UNCHANGED <<page_table_, disk, fd2pageno_, retired>>
  BY DEF UnpinPage
<1>4. /\ f \in Frames /\ Cardinality(Users(f)) \in Nat \ {0}
  BY <1>1, <1>2, <1>3, UserRemoved
<1>5. /\ p \in PageIds /\ Cached(p) /\ FrameOf(p) = f /\ page_table_[p] = f
      /\ pages_[f].pin_count_ \in Nat \ {0}
  BY <1>1, <1>2, <1>3, <1>4 DEF PlacementInv, PinsProtectFrames, Cached, FrameOf
<1>6. pages_' = [pages_ EXCEPT ![f] = Unpinned(pages_[f], d)]
  BY <1>1, <1>5 DEF UnpinPage
<1>7. /\ pages_'[f].data_ = pages_[f].data_
      /\ pages_'[f].is_dirty_ <=> pages_[f].is_dirty_ \/ d
      /\ \A x \in Frames \ {f} : pages_'[x] = pages_[x]
  BY <1>2, <1>4, <1>6 DEF TypeOK, Page, Unpinned
<1>8. \A e \in Clients \ {c} : handle'[e] = handle[e]
  BY <1>2, <1>3 DEF TypeOK
<1>9. ASSUME NEW q \in PageIds \ {p}
      PROVE  Intact(q)' /\ (Seekable(q) => Content(q)' = Content(q))
  <2>1. Intact(q) /\ (Cached(q) => page_table_[q] \in Frames \ {f})
    BY <1>2, <1>5, CleanIsIntact, FramesApart
  <2>2. \A e \in Clients : handle[e].frame # f => handle'[e] = handle[e]
    BY <1>1, <1>8
  <2> QED BY <1>3, <1>7, <2>1, <2>2, PageKept
<1>10. Cached(p)' /\ FrameOf(p)' = f
  BY <1>3, <1>5 DEF Cached, FrameOf
<1>11. Intact(p)'
  <2> SUFFICES ASSUME Seekable(p), ~pages_'[f].is_dirty_
               PROVE  \/ pages_'[f].data_ = disk'[Location(p)]
                      \/ \E e \in Clients : handle'[e].frame = f /\ handle'[e].wrote
    BY <1>10 DEF Intact, Users, read_page, Location, Offset, Seekable
  <2>1. ~pages_[f].is_dirty_ /\ ~handle[c].wrote
    BY <1>3, <1>7
  <2>2. \/ pages_[f].data_ = disk[Location(p)]
        \/ \E e \in Clients : handle[e].frame = f /\ handle[e].wrote
    BY <1>2, <1>5, <2>1 DEF CleanPagesOnDisk, Users, read_page
  <2> QED BY <1>3, <1>7, <1>8, <2>1, <2>2
<1>12. Content(p)' = Content(p)
  BY <1>2, <1>3, <1>5, <1>7, <1>10, FramesApart DEF Content
<1>13. CleanPagesOnDisk'
  BY <1>9, <1>11 DEF CleanPagesOnDisk, Intact
<1>14. FreshReadsZero'
  <2>1. Allocated' = Allocated
    BY <1>3 DEF Allocated
  <2> QED BY <1>2, <1>3, <2>1, StillFresh
<1> QED BY <1>9, <1>12, <1>13, <1>14 DEF Kept, Pages

\* FlushPage writes the page to its own place.
LEMMA FlushPageDurable ==
    ASSUME DurableInv, NoOverrun, NEW p \in PageIds, FlushPage(p)
    PROVE  Kept
<1>1. PICK f : f = page_table_[p]
  OBVIOUS
<1>2. /\ Cached(p) /\ Seekable(p)
      /\ disk' = write_page(p, pages_[f].data_)
      /\ pages_' = [pages_ EXCEPT ![f].is_dirty_ = FALSE]
      /\ handle' = Saved({f})
      /\ UNCHANGED <<page_table_, fd2pageno_, retired>>
  BY <1>1 DEF FlushPage, FrameOf
<1>3. PlacementInv /\ TypeOK /\ CleanPagesOnDisk /\ FreshReadsZero
  BY DEF DurableInv, PlacementInv
<1>4. f \in Frames /\ p \in Allocated /\ p \notin retired
  BY <1>1, <1>2, <1>3, FramesApart
<1>5. /\ pages_'[f].data_ = pages_[f].data_
      /\ \A x \in Frames \ {f} : pages_'[x] = pages_[x]
  BY <1>2, <1>3, <1>4 DEF TypeOK, Page
<1>6. \A d \in Clients : handle[d].wrote /\ handle[d].frame # f
                             => handle'[d].frame = handle[d].frame /\ handle'[d].wrote
  BY <1>2, <1>3, SavedKeepsHandles
<1>7. /\ disk'[Location(p)] = pages_[f].data_
      /\ \A q \in PageIds \ {p} : Seekable(q) => disk'[Location(q)] = disk[Location(q)]
  BY <1>2, <1>3, WriteElsewhere
<1>8. ASSUME NEW q \in PageIds \ {p}
      PROVE  Intact(q)' /\ (Seekable(q) => Content(q)' = Content(q))
  <2>1. Intact(q) /\ (Cached(q) => page_table_[q] \in Frames \ {f})
    BY <1>1, <1>2, <1>3, CleanIsIntact, FramesApart
  <2> QED BY <1>2, <1>5, <1>6, <1>7, <2>1, PageKept
<1>9. Cached(p)' /\ FrameOf(p)' = f /\ read_page(p)' = disk'[Location(p)]
  BY <1>1, <1>2 DEF Cached, FrameOf, read_page, Location, Offset
<1>10. Intact(p)' /\ Content(p)' = Content(p)
  BY <1>1, <1>2, <1>4, <1>5, <1>7, <1>9 DEF Intact, Content, FrameOf
<1>11. CleanPagesOnDisk'
  BY <1>8, <1>10 DEF CleanPagesOnDisk, Intact
<1>12. FreshReadsZero'
  <2>1. Allocated' = Allocated
    BY <1>2 DEF Allocated
  <2> QED BY <1>3, <1>4, <1>7, <2>1, StillFresh
<1> QED BY <1>8, <1>10, <1>11, <1>12 DEF Kept, Pages

\* FlushAllPages writes the frames of a file.  A frame in the free list is written
\* too, to the place of a deleted page, which is no other page's.
LEMMA FlushAllPagesDurable ==
    ASSUME DurableInv, NoOverrun, NEW fd \in Fds, FlushAllPages(fd)
    PROVE  Kept
<1>1. PlacementInv /\ TypeOK /\ CleanPagesOnDisk /\ FreshReadsZero
  BY DEF DurableInv, PlacementInv
<1>2. PICK F \in SUBSET Frames :
        /\ \A x \in F : pages_[x].id_.page_no # INVALID_PAGE_ID /\ Seekable(pages_[x].id_)
        /\ disk' = [l \in Locations |->
               IF {f \in F : Location(pages_[f].id_) = l} = {} THEN disk[l]
               ELSE pages_[Max({f \in F : Location(pages_[f].id_) = l})].data_]
        /\ pages_' = [f \in Frames |-> IF f \in F THEN [pages_[f] EXCEPT !.is_dirty_ = FALSE]
                                       ELSE pages_[f]]
        /\ handle' = Saved(F)
        /\ UNCHANGED <<page_table_, lists, fd2pageno_, retired>>
  <2> DEFINE OfFile == {f \in Frames : pages_[f].id_.fd = fd
                                       /\ pages_[f].id_.page_no # INVALID_PAGE_ID}
             F == {f \in OfFile : \A g \in OfFile : g <= f => Seekable(pages_[g].id_)}
  <2>1. F \in SUBSET Frames
    OBVIOUS
  <2>2. \A x \in F : pages_[x].id_.page_no # INVALID_PAGE_ID /\ Seekable(pages_[x].id_)
    <3>1. \A x \in Frames : x <= x
      BY PoolAssumption DEF Frames
    <3> QED BY <3>1
  <2> HIDE DEF F
  <2>3. /\ disk' = [l \in Locations |->
               IF {f \in F : Location(pages_[f].id_) = l} = {} THEN disk[l]
               ELSE pages_[Max({f \in F : Location(pages_[f].id_) = l})].data_]
        /\ pages_' = [f \in Frames |-> IF f \in F THEN [pages_[f] EXCEPT !.is_dirty_ = FALSE]
                                       ELSE pages_[f]]
        /\ handle' = Saved(F)
        /\ UNCHANGED <<page_table_, lists, fd2pageno_, retired>>
    BY Zenon DEF FlushAllPages, F
  <2> QED BY <2>1, <2>2, <2>3, Zenon
<1>3. ASSUME NEW x \in F
      PROVE  /\ pages_[x].id_ \in Allocated
             /\ \/ pages_[x].id_ \in retired
                \/ Cached(pages_[x].id_) /\ page_table_[pages_[x].id_] = x
  <2>1. pages_[x].id_ # NoPage /\ x \in Frames
    BY <1>2, <1>3 DEF NoPage
  <2>2. CASE InFreeList(x)
    BY <1>1, <2>1, <2>2 DEF PlacementInv, StaleIdsAreDead
  <2>3. CASE ~InFreeList(x)
    <3>1. Cached(pages_[x].id_) /\ page_table_[pages_[x].id_] = x
      BY <1>1, <2>1, <2>3 DEF PlacementInv, PageTableMatchesFrames, FrameOf
    <3> QED BY <1>1, <3>1, FramesApart DEF Cached
  <2> QED BY <2>2, <2>3
<1>4. ASSUME NEW q \in PageIds, Seekable(q), NEW x \in F, Location(pages_[x].id_) = Location(q)
      PROVE  pages_[x].id_ = q
  <2>1. pages_[x].id_ \in PageIds /\ Seekable(pages_[x].id_)
    BY <1>2, <1>3, <1>4 DEF Allocated
  <2> QED BY <1>4, <2>1, LocationsApart
<1>5. ASSUME NEW q \in PageIds, Seekable(q), q \notin retired,
             ~(Cached(q) /\ page_table_[q] \in F)
      PROVE  disk'[Location(q)] = disk[Location(q)]
  <2>1. Location(q) \in Locations
    BY <1>5, SeekableHasLocation
  <2>2. {x \in F : Location(pages_[x].id_) = Location(q)} = {}
    BY <1>3, <1>4, <1>5
  <2> QED BY <1>2, <2>1, <2>2
<1>6. ASSUME NEW q \in PageIds, Seekable(q), Cached(q), page_table_[q] \in F
      PROVE  disk'[Location(q)] = pages_[page_table_[q]].data_
  <2> DEFINE W == {x \in F : Location(pages_[x].id_) = Location(q)}
  <2>1. Location(q) \in Locations
    BY <1>6, SeekableHasLocation
  <2>2. q \notin retired /\ page_table_[q] \in W
    BY <1>1, <1>6, FramesApart
  <2>3. \A x \in W : x = page_table_[q]
    BY <1>3, <1>4, <1>6, <2>2
  <2>4. W # {} /\ W \in SUBSET Frames
    BY <2>2
  <2>5. disk'[Location(q)] = pages_[Max(W)].data_
    BY <1>2, <2>1, <2>4
  <2> HIDE DEF W
  <2>6. Max(W) \in W
    BY <2>4, MaxOfFrames
  <2> QED BY <2>3, <2>5, <2>6
<1>7. \A x \in Frames : pages_'[x].data_ = pages_[x].data_ /\ (x \notin F => pages_'[x] = pages_[x])
  BY <1>1, <1>2 DEF TypeOK, Page
<1>8. \A d \in Clients : handle[d].wrote /\ handle[d].frame \notin F
                             => handle'[d].frame = handle[d].frame /\ handle'[d].wrote
  BY <1>1, <1>2, SavedKeepsHandles
<1>9. ASSUME NEW q \in PageIds
      PROVE  Intact(q)' /\ (Seekable(q) => Content(q)' = Content(q))
  <2>1. Intact(q) /\ (Cached(q) => page_table_[q] \in Frames /\ q \notin retired)
    BY <1>1, CleanIsIntact, FramesApart
  <2>2. CASE Cached(q) /\ page_table_[q] \in F
    <3>1. /\ Cached(q)' /\ FrameOf(q)' = page_table_[q] /\ read_page(q)' = disk'[Location(q)]
      BY <1>2, <2>2 DEF Cached, FrameOf, read_page, Location, Offset
    <3>2. Intact(q)'
      BY <1>6, <1>7, <2>1, <2>2, <3>1 DEF Intact, Seekable, Offset
    <3>3. Content(q)' = Content(q)
      BY <1>2, <1>7, <2>1, <2>2, <3>1 DEF Content, FrameOf
    <3> QED BY <3>2, <3>3
  <2>3. CASE ~(Cached(q) /\ page_table_[q] \in F) /\ q \notin retired
    <3>1. Seekable(q) => disk'[Location(q)] = disk[Location(q)]
      BY <1>5, <2>3
    <3> QED BY <1>2, <1>7, <1>8, <2>1, <2>3, <3>1, PageKept
  <2>4. CASE q \in retired
    <3>1. ~Cached(q)'
      BY <1>2, <2>1, <2>4 DEF Cached
    <3> QED BY <1>2, <2>4, <3>1 DEF Intact, Content
  <2> QED BY <2>2, <2>3, <2>4
<1>10. CleanPagesOnDisk'
  BY <1>9 DEF CleanPagesOnDisk, Intact
<1>11. FreshReadsZero'
  <2>1. Allocated' = Allocated
    BY <1>2 DEF Allocated
  <2>2. ASSUME NEW q \in PageIds, q \notin Allocated, Seekable(q)
        PROVE  disk'[Location(q)] = disk[Location(q)]
    <3>1. q \notin retired /\ ~Cached(q)
      BY <1>1, <2>2, FramesApart DEF PlacementInv, StaleIdsAreDead
    <3> QED BY <1>5, <2>2, <3>1
  <2> QED BY <1>1, <2>1, <2>2, StillFresh
<1> QED BY <1>9, <1>10, <1>11 DEF Kept, Pages

\* DeletePage gives up the contents of one page that nobody uses.
LEMMA DeletePageDurable ==
    ASSUME DurableInv, NoOverrun, Misuse = {}, NEW p \in PageIds, DeletePage(p)
    PROVE  /\ CleanPagesOnDisk' /\ FreshReadsZero'
           /\ \A q \in Pages \ {p} : Content(q)' = Content(q)
           /\ Content(p)' = Zero /\ Seekable(p)
           /\ \A c \in Clients : handle[c].page # p
<1>1. PICK f : f = page_table_[p]
  OBVIOUS
<1>2. /\ Cached(p) /\ Seekable(p) /\ pages_[f].pin_count_ = 0
      /\ disk' = write_page(p, pages_[f].data_)
      /\ page_table_' = [page_table_ EXCEPT ![p] = INVALID_FRAME_ID]
      /\ pages_' = [pages_ EXCEPT ![f].is_dirty_ = FALSE, ![f].data_ = Zero]
      /\ retired' = retired \cup {p}
      /\ UNCHANGED <<fd2pageno_, handle>>
  BY <1>1 DEF DeletePage, FrameOf
<1>3. PlacementInv /\ TypeOK /\ CleanPagesOnDisk /\ FreshReadsZero
  BY DEF DurableInv, PlacementInv
<1>4. f \in Frames /\ p \in Allocated
  BY <1>1, <1>2, <1>3, FramesApart
<1>5. \A x \in Frames \ {f} : pages_'[x] = pages_[x]
  BY <1>2, <1>3, <1>4 DEF TypeOK
<1>6. \A q \in PageIds \ {p} : Seekable(q) => disk'[Location(q)] = disk[Location(q)]
  BY <1>2, <1>3, WriteElsewhere
<1>7. page_table_'[p] = INVALID_FRAME_ID
      /\ \A q \in PageIds \ {p} : page_table_'[q] = page_table_[q]
  BY <1>2, <1>3 DEF TypeOK
<1>8. ASSUME NEW q \in PageIds \ {p}
      PROVE  Intact(q)' /\ (Seekable(q) => Content(q)' = Content(q))
  <2>1. Intact(q) /\ (Cached(q) => page_table_[q] \in Frames \ {f})
    BY <1>1, <1>2, <1>3, CleanIsIntact, FramesApart
  <2>2. q \in retired' <=> q \in retired
    BY <1>2
  <2> QED BY <1>2, <1>5, <1>6, <1>7, <2>1, <2>2, PageKept
<1>9. Intact(p)' /\ Content(p)' = Zero
  BY <1>2, <1>7 DEF Intact, Cached, Content
<1>10. CleanPagesOnDisk'
  BY <1>8, <1>9 DEF CleanPagesOnDisk, Intact
<1>11. FreshReadsZero'
  <2>1. Allocated' = Allocated
    BY <1>2 DEF Allocated
  <2> QED BY <1>3, <1>4, <1>6, <2>1, StillFresh
<1>12. ASSUME NEW c \in Clients PROVE handle[c].page # p
  <2>1. CASE handle[c] = Idle
    BY <2>1, PoolAssumption DEF Idle, NoPage, PageIds
  <2>2. CASE handle[c] # Idle
    <3>1. FrameOf(handle[c].page) = handle[c].frame
      BY <1>3, <2>2 DEF PlacementInv, PinsProtectFrames
    <3>2. handle[c].frame # f
      BY <1>2, <1>3, <1>4, NoPinNoUser
    <3> QED BY <1>1, <3>1, <3>2 DEF FrameOf
  <2> QED BY <2>1, <2>2
<1> QED BY <1>2, <1>8, <1>9, <1>10, <1>11, <1>12 DEF Pages

-----------------------------------------------------------------------------
(* The pool as a store of pages                                            *)

Contents == [p \in Pages |-> Content(p)]
InStore(p) == IF p \in Pages THEN p ELSE NoPage
OpenPages == [c \in Clients |-> InStore(handle[c].page)]
Given == Allocated \cap Pages

LEMMA NoPageOutside == NoPage \notin PageIds /\ NoPage \notin Pages
BY PoolAssumption DEF NoPage, PageIds, Pages

\* What a step does to the pages the clients have open.
LEMMA OpenPageSet ==
    ASSUME TypeOK, NEW c \in Clients, NEW h, handle' = [handle EXCEPT ![c] = h]
    PROVE  OpenPages' = [OpenPages EXCEPT ![c] = InStore(h.page)]
<1>1. \A d \in Clients : handle'[d] = IF d = c THEN h ELSE handle[d]
  BY DEF TypeOK
<1>2. OpenPages' = [d \in Clients |-> InStore(handle'[d].page)]
  BY DEF OpenPages, InStore, Pages, Seekable, Offset
<1>3. \A d \in Clients : OpenPages'[d] = IF d = c THEN InStore(h.page) ELSE OpenPages[d]
  BY <1>1, <1>2 DEF OpenPages
<1> QED BY <1>2, <1>3 DEF OpenPages

LEMMA OpenPagesSame ==
    ASSUME \A d \in Clients : handle'[d].page = handle[d].page
    PROVE  OpenPages' = OpenPages
BY DEF OpenPages, InStore

\* A step that opens and closes no page and keeps the contents of all is one the
\* store does not see.
LEMMA Unseen ==
    ASSUME \A q \in Pages : Content(q)' = Content(q),
           OpenPages' = OpenPages, Given' = Given
    PROVE  UNCHANGED Store!vars
<1>1. Contents' = Contents
  BY DEF Contents
<1> QED BY <1>1 DEF Store!vars, Contents, OpenPages, InStore, Given

\* FetchPage opens a page of the store, or one that is not part of it.
LEMMA FetchOpens ==
    ASSUME TypeOK, NEW c \in Clients, NEW p \in PageIds, NEW f, handle[c] = Idle,
           p \in Allocated, Allocated' = Allocated,
           \A q \in Pages : Content(q)' = Content(q),
           handle' = [handle EXCEPT ![c] = [page |-> p, frame |-> f, wrote |-> FALSE]]
    PROVE  [Store!Next]_(Store!vars)
<1>1. OpenPages' = [OpenPages EXCEPT ![c] = InStore(p)]
  <2>1. PICK h : h = [page |-> p, frame |-> f, wrote |-> FALSE]
    OBVIOUS
  <2>2. h.page = p /\ handle' = [handle EXCEPT ![c] = h]
    BY <2>1
  <2> QED BY <2>2, OpenPageSet
<1>2. Contents' = Contents /\ Given' = Given
  BY DEF Contents, Given
<1>3. OpenPages[c] = NoPage
  BY NoPageOutside DEF OpenPages, InStore, Idle
<1>4. CASE p \in Pages
  <2>1. Store!Open(c, p)
    BY <1>1, <1>2, <1>3, <1>4 DEF Store!Open, Contents, OpenPages, InStore, Given
  <2> QED BY <1>4, <2>1 DEF Store!Next
<1>5. CASE p \notin Pages
  <2>1. OpenPages' = OpenPages
    BY <1>1, <1>3, <1>5 DEF OpenPages, InStore
  <2> QED BY <1>2, <2>1, Unseen
<1> QED BY <1>4, <1>5

\* NewPage creates a page of the store, or uses up the number of one that is not
\* part of it.
LEMMA NewPageCreates ==
    ASSUME TypeOK, NEW c \in Clients, NEW p \in PageIds, NEW f, handle[c] = Idle,
           p \notin Allocated, Allocated' = Allocated \cup {p},
           \A q \in Pages \ {p} : Content(q)' = Content(q), Content(p)' = Zero,
           handle' = [handle EXCEPT ![c] = [page |-> p, frame |-> f, wrote |-> FALSE]]
    PROVE  [Store!Next]_(Store!vars)
<1>1. OpenPages' = [OpenPages EXCEPT ![c] = InStore(p)]
  <2>1. PICK h : h = [page |-> p, frame |-> f, wrote |-> FALSE]
    OBVIOUS
  <2>2. h.page = p /\ handle' = [handle EXCEPT ![c] = h]
    BY <2>1
  <2> QED BY <2>2, OpenPageSet
<1>2. OpenPages[c] = NoPage
  BY NoPageOutside DEF OpenPages, InStore, Idle
<1>3. CASE p \in Pages
  <2>1. Contents' = [Contents EXCEPT ![p] = Zero]
    BY <1>3 DEF Contents
  <2>2. Given' = Given \cup {p} /\ p \notin Given
    BY <1>3 DEF Given
  <2>3. Store!Create(c, p)
    BY <1>1, <1>2, <1>3, <2>1, <2>2 DEF Store!Create, Contents, OpenPages, InStore, Given
  <2> QED BY <1>3, <2>3 DEF Store!Next
<1>4. CASE p \notin Pages
  <2>1. OpenPages' = OpenPages
    BY <1>1, <1>2, <1>4 DEF OpenPages, InStore
  <2>2. Given' = Given
    BY <1>4 DEF Given
  <2> QED BY <1>4, <2>1, <2>2, Unseen
<1> QED BY <1>3, <1>4

\* NewPage that throws uses up a page number.
LEMMA NewPageBurns ==
    ASSUME NEW p \in PageIds, p \notin Allocated, Allocated' = Allocated \cup {p},
           \A q \in Pages : Content(q)' = Content(q), handle' = handle
    PROVE  [Store!Next]_(Store!vars)
<1>1. OpenPages' = OpenPages /\ Contents' = Contents
  BY DEF OpenPages, InStore, Contents
<1>2. CASE p \in Pages
  <2>1. Given' = Given \cup {p} /\ p \notin Given
    BY <1>2 DEF Given
  <2>2. Store!Burn(p)
    BY <1>1, <1>2, <2>1 DEF Store!Burn, Contents, OpenPages, InStore, Given
  <2> QED BY <1>2, <2>2 DEF Store!Next
<1>3. CASE p \notin Pages
  <2>1. Given' = Given
    BY <1>3 DEF Given
  <2> QED BY <1>1, <2>1, Unseen
<1> QED BY <1>2, <1>3

\* A client's write, and UnpinPage.
LEMMA WriteWrites ==
    ASSUME NEW c \in Clients, NEW v \in Data, NEW p \in PageIds, p = handle[c].page,
           \A d \in Clients : handle'[d].page = handle[d].page,
           \A q \in Pages \ {p} : Content(q)' = Content(q), Content(p)' = v,
           Allocated' = Allocated
    PROVE  [Store!Next]_(Store!vars)
<1>1. OpenPages' = OpenPages /\ Given' = Given
  BY OpenPagesSame DEF Given
<1>2. CASE p \in Pages
  <2>1. OpenPages[c] = p /\ p # NoPage
    BY <1>2, NoPageOutside DEF OpenPages, InStore
  <2>2. Contents' = [Contents EXCEPT ![p] = v]
    BY <1>2 DEF Contents
  <2>3. Store!Write(c, v)
    BY <1>1, <2>1, <2>2 DEF Store!Write, Contents, OpenPages, InStore, Given
  <2> QED BY <2>3 DEF Store!Next
<1>3. CASE p \notin Pages
  BY <1>1, <1>3, Unseen
<1> QED BY <1>2, <1>3

LEMMA UnpinCloses ==
    ASSUME TypeOK, NEW c \in Clients, handle' = [handle EXCEPT ![c] = Idle],
           \A q \in Pages : Content(q)' = Content(q), Allocated' = Allocated
    PROVE  [Store!Next]_(Store!vars)
<1>1. OpenPages' = [OpenPages EXCEPT ![c] = NoPage]
  <2>1. OpenPages' = [OpenPages EXCEPT ![c] = InStore(Idle.page)]
    BY OpenPageSet
  <2>2. InStore(Idle.page) = NoPage
    BY DEF InStore, Idle
  <2> QED BY <2>1, <2>2
<1>2. Contents' = Contents /\ Given' = Given
  BY DEF Contents, Given
<1>3. CASE OpenPages[c] # NoPage
  <2>1. Store!Close(c)
    BY <1>1, <1>2, <1>3 DEF Store!Close, Contents, OpenPages, InStore, Given
  <2> QED BY <2>1 DEF Store!Next
<1>4. CASE OpenPages[c] = NoPage
  <2>1. OpenPages' = OpenPages
    BY <1>1, <1>4 DEF OpenPages
  <2> QED BY <1>2, <2>1, Unseen
<1> QED BY <1>3, <1>4

\* DeletePage.
LEMMA DeleteDeletes ==
    ASSUME NEW p \in Pages, \A c \in Clients : handle[c].page # p, handle' = handle,
           \A q \in Pages \ {p} : Content(q)' = Content(q), Content(p)' = Zero,
           Allocated' = Allocated
    PROVE  [Store!Next]_(Store!vars)
<1>1. OpenPages' = OpenPages /\ Given' = Given /\ Contents' = [Contents EXCEPT ![p] = Zero]
  BY DEF OpenPages, InStore, Given, Contents
<1>2. \A c \in Clients : OpenPages[c] # p
  BY NoPageOutside DEF OpenPages, InStore
<1>3. Store!Delete(p)
  BY <1>1, <1>2 DEF Store!Delete, Contents, OpenPages, InStore, Given
<1> QED BY <1>3 DEF Store!Next

\* Every step of the pool is a step of the store, or one it does not see, and
\* keeps what the next ones need.
LEMMA NextDurable ==
    ASSUME DurableInv, NoOverrun, Misuse = {}, [Next]_vars
    PROVE  DurableInv' /\ [Store!Next]_(Store!vars)
<1>0. PlacementInv /\ TypeOK /\ PlacementInv' /\ TypeOK'
  <2>1. PlacementInv
    BY DEF DurableInv
  <2> QED BY <2>1, NextPlacement DEF PlacementInv
<1> DEFINE Goal == CleanPagesOnDisk' /\ FreshReadsZero' /\ [Store!Next]_(Store!vars)
<1>1. ASSUME Kept, Allocated' = Allocated, \A d \in Clients : handle'[d].page = handle[d].page
      PROVE  Goal
  <2>1. OpenPages' = OpenPages /\ Given' = Given
    BY <1>1, OpenPagesSame DEF Given
  <2> QED BY <1>1, <2>1, Unseen DEF Kept
<1>2. ASSUME NEW c \in Clients, NEW p \in PageIds, FetchHit(c, p) PROVE Goal
  <2>1. Kept
    BY <1>2, FetchHitDurable
  <2>2. /\ handle[c] = Idle /\ p \in Allocated /\ Allocated' = Allocated
        /\ handle' = [handle EXCEPT ![c] = [page |-> p, frame |-> FrameOf(p), wrote |-> FALSE]]
    BY <1>2 DEF FetchHit, MayFetch, Allocated
  <2> QED BY <1>0, <2>1, <2>2, FetchOpens DEF Kept
<1>3. ASSUME NEW c \in Clients, NEW p \in PageIds, FetchMiss(c, p) PROVE Goal
  <2>1. Kept
    BY <1>3, FetchMissDurable
  <2>2. /\ handle[c] = Idle /\ p \in Allocated /\ Allocated' = Allocated
        /\ handle' = [handle EXCEPT ![c] = [page |-> p, frame |-> TakenFrame, wrote |-> FALSE]]
    BY <1>3 DEF FetchMiss, MayFetch, Allocated
  <2> QED BY <1>0, <2>1, <2>2, FetchOpens DEF Kept
<1>4. ASSUME NEW c \in Clients, NEW p \in PageIds, FetchThrowsOnWrite(c, p) PROVE Goal
  <2>1. UNCHANGED <<pages_, page_table_, disk, handle, retired>> /\ Allocated' = Allocated
    BY <1>4 DEF FetchThrowsOnWrite, Allocated
  <2>2. Kept
    BY <2>1, ThrowsDurable
  <2> QED BY <1>1, <2>1, <2>2
<1>5. ASSUME NEW c \in Clients, NEW p \in PageIds, FetchThrowsOnRead(c, p) PROVE Goal
  <2>1. Kept
    BY <1>5, FetchThrowsOnReadDurable
  <2>2. handle' = handle /\ Allocated' = Allocated
    BY <1>5 DEF FetchThrowsOnRead, Allocated
  <2> QED BY <1>1, <2>1, <2>2
<1>6. ASSUME NEW c \in Clients, NEW fd \in Fds, NewPage(c, fd) PROVE Goal
  <2>1. PICK p : p = [fd |-> fd, page_no |-> fd2pageno_[fd]]
    OBVIOUS
  <2>2. /\ handle[c] = Idle /\ fd2pageno_[fd] < MaxPages /\ AllocatePage(fd)
        /\ handle' = [handle EXCEPT ![c] = [page |-> p, frame |-> TakenFrame, wrote |-> FALSE]]
    BY <1>6, <2>1 DEF NewPage
  <2>3. p \in PageIds /\ p \notin Allocated /\ Allocated' = Allocated \cup {p}
    BY <1>0, <2>1, <2>2, NewPageIsFresh
  <2>4. /\ CleanPagesOnDisk' /\ FreshReadsZero'
        /\ \A q \in Pages \ {p} : Content(q)' = Content(q)
        /\ Content(p)' = Zero
    BY <1>6, <2>1, NewPageDurable
  <2> QED BY <1>0, <2>2, <2>3, <2>4, NewPageCreates
<1>7. ASSUME NEW c \in Clients, NEW fd \in Fds, NewPageThrows(c, fd) PROVE Goal
  <2>1. PICK p : p = [fd |-> fd, page_no |-> fd2pageno_[fd]]
    OBVIOUS
  <2>2. /\ UNCHANGED <<pages_, page_table_, disk, handle, retired>>
        /\ fd2pageno_[fd] < MaxPages /\ AllocatePage(fd)
    BY <1>7 DEF NewPageThrows
  <2>3. p \in PageIds /\ p \notin Allocated /\ Allocated' = Allocated \cup {p}
    BY <1>0, <2>1, <2>2, NewPageIsFresh
  <2>4. Kept
    BY <2>2, <2>3, ThrowsDurable
  <2> QED BY <2>2, <2>3, <2>4, NewPageBurns DEF Kept
<1>8. ASSUME NEW c \in Clients, NEW v \in Data, WriteData(c, v) PROVE Goal
  <2>1. PICK p : p = handle[c].page
    OBVIOUS
  <2>2. /\ CleanPagesOnDisk' /\ FreshReadsZero'
        /\ p \in PageIds /\ Content(p)' = v
        /\ \A q \in Pages \ {p} : Content(q)' = Content(q)
    BY <1>8, <2>1, WriteDataDurable
  <2>3. Allocated' = Allocated /\ \A d \in Clients : handle'[d].page = handle[d].page
    <3>1. handle' = [handle EXCEPT ![c].wrote = TRUE] /\ handle[c] # Idle
      BY <1>8 DEF WriteData
    <3>2. handle[c] \in [page : PageIds, frame : Frames, wrote : BOOLEAN]
      BY <1>0, <3>1 DEF TypeOK, Handles
    <3> QED BY <1>0, <1>8, <3>1, <3>2 DEF WriteData, Allocated, TypeOK
  <2> QED BY <2>1, <2>2, <2>3, WriteWrites
<1>9. ASSUME NEW c \in Clients, NEW d \in BOOLEAN, UnpinPage(c, d) PROVE Goal
  <2>1. Kept
    BY <1>9, UnpinPageDurable
  <2>2. handle' = [handle EXCEPT ![c] = Idle] /\ Allocated' = Allocated
    BY <1>9 DEF UnpinPage, Allocated
  <2> QED BY <1>0, <2>1, <2>2, UnpinCloses DEF Kept
<1>10. ASSUME NEW p \in PageIds, FlushPage(p) PROVE Goal
  <2>1. Kept
    BY <1>10, FlushPageDurable
  <2>2. handle' = Saved({FrameOf(p)}) /\ Allocated' = Allocated
    BY <1>10 DEF FlushPage, Allocated
  <2>3. \A d \in Clients : handle'[d].page = handle[d].page
    BY <1>0, <2>2, SavedKeepsHandles
  <2> QED BY <1>1, <2>1, <2>2, <2>3
<1>11. ASSUME NEW p \in PageIds, DeletePage(p) PROVE Goal
  <2>1. /\ CleanPagesOnDisk' /\ FreshReadsZero'
        /\ \A q \in Pages \ {p} : Content(q)' = Content(q)
        /\ Content(p)' = Zero /\ p \in Pages
        /\ \A c \in Clients : handle[c].page # p
    BY <1>11, DeletePageDurable DEF Pages
  <2>2. handle' = handle /\ Allocated' = Allocated
    BY <1>11 DEF DeletePage, Allocated
  <2> QED BY <2>1, <2>2, DeleteDeletes
<1>12. ASSUME NEW p \in PageIds, DeletePageThrows(p) PROVE Goal
  <2>1. UNCHANGED <<pages_, page_table_, disk, handle, retired>> /\ Allocated' = Allocated
    BY <1>12 DEF DeletePageThrows, Allocated
  <2>2. Kept
    BY <2>1, ThrowsDurable
  <2> QED BY <1>1, <2>1, <2>2
<1>13. ASSUME NEW fd \in Fds, FlushAllPages(fd) PROVE Goal
  <2>1. Kept
    BY <1>13, FlushAllPagesDurable
  <2>2. PICK F : handle' = Saved(F)
    BY <1>13, Zenon DEF FlushAllPages
  <2>3. \A d \in Clients : handle'[d].page = handle[d].page
    BY <1>0, <2>2, SavedKeepsHandles
  <2>4. Allocated' = Allocated
    BY <1>13 DEF FlushAllPages, Allocated
  <2> QED BY <1>1, <2>1, <2>3, <2>4
<1>14. ASSUME UNCHANGED vars PROVE Goal
  <2>1. UNCHANGED <<pages_, page_table_, disk, handle, retired>> /\ Allocated' = Allocated
    BY <1>14 DEF vars, Allocated
  <2>2. Kept
    BY <2>1, ThrowsDurable
  <2> QED BY <1>1, <2>1, <2>2
<1>15. Goal
  <2> HIDE DEF Goal
  <2> QED BY <1>2, <1>3, <1>4, <1>5, <1>6, <1>7, <1>8, <1>9, <1>10, <1>11, <1>12, <1>13,
             <1>14 DEF Next
<1> QED BY <1>0, <1>15 DEF DurableInv

\* The constructor, over files with pages: nothing is cached.
LEMMA InitDurable ==
    ASSUME NoOverrun, Init
    PROVE  DurableInv /\ Store!Init
<1>1. PlacementInv /\ TypeOK
  BY InitPlacement DEF PlacementInv
<1>2. \A p : ~Cached(p)
  BY DEF Init, Cached
<1>3. CleanPagesOnDisk
  BY <1>2 DEF CleanPagesOnDisk
<1>4. FreshReadsZero
  <2> SUFFICES ASSUME NEW p \in PageIds, p \notin Allocated, Seekable(p)
               PROVE  disk[Location(p)] = Zero
    BY DEF FreshReadsZero, read_page
  <2>1. Location(p) \in Locations /\ Location(p).offset = p.page_no /\ Location(p).fd = p.fd
    BY SeekableHasLocation, SeekableOffset DEF Location
  <2>2. p.page_no \in Nat /\ fd2pageno_[p.fd] \in Nat
    <3>1. p.fd \in Fds /\ p.page_no \in 0 .. MaxPages - 1 /\ MaxPages \in Nat
      BY PoolAssumption DEF PageIds
    <3>2. fd2pageno_[p.fd] \in 0 .. MaxPages
      BY <1>1, <3>1 DEF TypeOK
    <3> QED BY <3>1, <3>2
  <2>3. Location(p).offset >= fd2pageno_[Location(p).fd]
    BY <2>1, <2>2 DEF Allocated
  <2> QED BY <2>1, <2>3 DEF Init
<1>5. \A p \in Pages : Content(p) \in Data
  <2> SUFFICES ASSUME NEW p \in Pages PROVE disk[Location(p)] \in Data
    BY <1>2 DEF Init, Content, read_page
  <2>1. Location(p) \in Locations
    BY SeekableHasLocation DEF Pages
  <2> QED BY <1>1, <2>1 DEF TypeOK
<1>6. \A c \in Clients : handle[c].page = NoPage
  BY DEF Init, Idle
<1>7. Store!Init
  BY <1>5, <1>6 DEF Store!Init
<1> QED BY <1>1, <1>3, <1>4, <1>7 DEF DurableInv

-----------------------------------------------------------------------------
(* Theorems                                                                *)

\* Everything the durability argument carries from call to call: the placement,
\* what is clean equals its copy on disk, and pages not given out read as zeroes.
THEOREM DurableCorrect == NoOverrun /\ Misuse = {} /\ Spec => []DurableInv
<1>1. NoOverrun /\ Misuse = {} /\ DurableInv /\ [Next]_vars => DurableInv'
  BY NextDurable
<1>2. NoOverrun /\ Init => DurableInv
  BY InitDurable
<1>3. CASE NoOverrun /\ Misuse = {}
  BY <1>1, <1>2, <1>3, PTL DEF Spec
<1> QED BY <1>3

\* FetchPage and NewPage may drop a frame that is not marked dirty: the disk has
\* what it held.
THEOREM CleanIsOnDisk == NoOverrun /\ Misuse = {} /\ Spec => []CleanPagesOnDisk
<1>1. DurableInv => CleanPagesOnDisk
  BY DEF DurableInv
<1> QED BY <1>1, DurableCorrect, PTL

\* The pool is a store of pages: whatever is fetched, evicted, flushed or deleted
\* in between, a page whose I/O does not throw holds what was last written to it,
\* and NewPage hands out a zeroed page nobody was given before.
THEOREM PoolImplementsStore == NoOverrun /\ Misuse = {} /\ Spec => ImplementsPageStore
<1>1. NoOverrun /\ Misuse = {} /\ DurableInv /\ [Next]_vars => [Store!Next]_(Store!vars)
  BY NextDurable
<1>2. NoOverrun /\ Init => Store!Init
  BY InitDurable
<1>3. CASE NoOverrun /\ Misuse = {}
  BY <1>1, <1>2, <1>3, DurableCorrect, PTL DEF Spec, ImplementsPageStore, Store!Spec
<1> QED BY <1>3

=============================================================================
