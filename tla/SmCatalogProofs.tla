-------------------------- MODULE SmCatalogProofs --------------------------
(***************************************************************************)
(* Proofs about the catalog, for any number of tables, columns, records    *)
(* and descriptors: the catalog in memory, db.meta, the directory and the  *)
(* open files agree, through crashes too; and the files that were opened   *)
(* on a fresh descriptor hold the records their tables were given.         *)
(***************************************************************************)
EXTENDS SmCatalog, FiniteSetTheorems, WellFoundedInduction, TLAPS

-----------------------------------------------------------------------------
(* Functions that grow and shrink by a path                                *)

LEMMA WithoutEffect ==
    ASSUME NEW f, NEW ps
    PROVE  /\ DOMAIN Without(f, ps) = DOMAIN f \ ps
           /\ \A q \in DOMAIN f \ ps : Without(f, ps)[q] = f[q]
BY DEF Without, Restrict

\* What CatalogIsBacked says of fhs_, ihs_ (H) and path2fd_ (F): they have the
\* paths in S, agree on the descriptors, and no two paths share one.
HandlesOf(S, H, F) ==
    /\ DOMAIN H = S
    /\ \A p \in S : "fd" \in DOMAIN H[p]
    /\ F = [p \in S |-> H[p].fd]
    /\ IsInjective(F)

LEMMA OpenKeeps ==
    ASSUME NEW S, NEW H, NEW F, HandlesOf(S, H, F), NEW p, p \notin S,
           NEW fd, fd \notin Range(F), NEW n, NEW own
    PROVE  HandlesOf(S \cup {p}, With(H, p, [fd |-> fd, num_pages |-> n, own |-> own]),
                     With(F, p, fd))
<1> DEFINE h == [fd |-> fd, num_pages |-> n, own |-> own]
           H2 == With(H, p, h)
           F2 == With(F, p, fd)
<1>1. /\ DOMAIN H = S /\ F = [q \in S |-> H[q].fd] /\ IsInjective(F)
      /\ \A q \in S : "fd" \in DOMAIN H[q]
  BY DEF HandlesOf
<1>2. h.fd = fd /\ "fd" \in DOMAIN h
  OBVIOUS
<1> HIDE DEF h
<1>3. DOMAIN H2 = S \cup {p} /\ H2[p] = h /\ \A q \in S : H2[q] = H[q]
  BY <1>1 DEF With
<1>4. DOMAIN F = S /\ \A q \in S : F[q] = H[q].fd
  BY <1>1
<1>5. F2 = [q \in S \cup {p} |-> IF q = p THEN fd ELSE F[q]]
  BY <1>4 DEF With
<1> HIDE DEF H2, F2
<1>6. F2 = [q \in S \cup {p} |-> H2[q].fd]
  BY <1>2, <1>3, <1>4, <1>5
<1>7. IsInjective(F2)
  <2>1. \A q \in S : F[q] # fd
    BY <1>4 DEF Range
  <2>2. \A a, b \in S : F[a] = F[b] => a = b
    BY <1>1, <1>4 DEF IsInjective
  <2>3. DOMAIN F2 = S \cup {p} /\ F2[p] = fd /\ \A q \in S : F2[q] = F[q]
    BY <1>5
  <2> QED BY <2>1, <2>2, <2>3 DEF IsInjective
<1>8. HandlesOf(S \cup {p}, H2, F2)
  BY <1>1, <1>2, <1>3, <1>6, <1>7 DEF HandlesOf
<1> QED BY <1>8 DEF H2, F2, h

LEMMA CloseKeeps ==
    ASSUME NEW S, NEW H, NEW F, HandlesOf(S, H, F), NEW ps
    PROVE  HandlesOf(S \ ps, Without(H, ps), Without(F, ps))
<1> DEFINE H2 == Without(H, ps)
           F2 == Without(F, ps)
<1>1. /\ DOMAIN H = S /\ F = [q \in S |-> H[q].fd] /\ IsInjective(F)
      /\ \A q \in S : "fd" \in DOMAIN H[q]
  BY DEF HandlesOf
<1>2. DOMAIN H2 = S \ ps /\ \A q \in S \ ps : H2[q] = H[q]
  BY <1>1, WithoutEffect
<1>3. F2 = [q \in S \ ps |-> F[q]] /\ DOMAIN F = S
  BY <1>1 DEF Without, Restrict
<1> HIDE DEF H2, F2
<1>4. F2 = [q \in S \ ps |-> H2[q].fd]
  BY <1>1, <1>2, <1>3
<1>5. IsInjective(F2)
  BY <1>1, <1>3 DEF IsInjective
<1>6. HandlesOf(S \ ps, H2, F2)
  BY <1>1, <1>2, <1>4, <1>5 DEF HandlesOf
<1> QED BY <1>6 DEF H2, F2

-----------------------------------------------------------------------------
(* Catalogs and the files they name                                        *)

Catalogs == UNION {[S -> SUBSET Cols] : S \in SUBSET Tables}

LEMMA CatalogFacts ==
    ASSUME NEW tabs \in Catalogs
    PROVE  /\ tabs = [t \in DOMAIN tabs |-> tabs[t]]
           /\ DOMAIN tabs \subseteq Tables
           /\ \A t \in DOMAIN tabs : tabs[t] \subseteq Cols
BY DEF Catalogs

LEMMA CatalogType ==
    ASSUME NEW S \in SUBSET Tables, NEW f \in [S -> SUBSET Cols]
    PROVE  f \in Catalogs
BY DEF Catalogs

LEMMA PathsDiffer ==
    /\ \A t, u : TabPath(t) = TabPath(u) <=> t = u
    /\ \A t, u : \A d \in Cols : TabPath(t) # IxPath(u, d)
    /\ \A t, u, c, d : IxPath(t, c) = IxPath(u, d) <=> t = u /\ c = d
<1>1. NoCol \notin Cols
  BY CatalogAssumption
<1> QED BY <1>1 DEF TabPath, IxPath

\* A path is in FilesOf(tabs) for one reason only.
LEMMA FilesOfMembers ==
    ASSUME NEW tabs, NEW p
    PROVE  p \in FilesOf(tabs) <=>
              \/ \E t \in DOMAIN tabs : p = TabPath(t)
              \/ \E t \in DOMAIN tabs : \E c \in tabs[t] : p = IxPath(t, c)
BY DEF FilesOf

LEMMA FilesOfNone ==
    ASSUME NEW tabs, DOMAIN tabs = {}
    PROVE  FilesOf(tabs) = {}
BY DEF FilesOf

\* create_table adds the record file to the files of the catalog ...
LEMMA AddTable ==
    ASSUME NEW tabs \in Catalogs, NEW t \in Tables, t \notin DOMAIN tabs
    PROVE  /\ With(tabs, t, {}) \in Catalogs
           /\ FilesOf(With(tabs, t, {})) = FilesOf(tabs) \cup {TabPath(t)}
           /\ TabPath(t) \notin FilesOf(tabs)
<1> DEFINE new == With(tabs, t, {})
<1>1. /\ DOMAIN tabs \subseteq Tables /\ \A u \in DOMAIN tabs : tabs[u] \subseteq Cols
  BY CatalogFacts
<1>2. DOMAIN new = DOMAIN tabs \cup {t} /\ new[t] = {} /\ \A u \in DOMAIN tabs : new[u] = tabs[u]
  BY DEF With
<1>3. new \in Catalogs
  <2>1. new \in [DOMAIN tabs \cup {t} -> SUBSET Cols]
    BY <1>1 DEF With
  <2> QED BY <1>1, <2>1, CatalogType
<1> HIDE DEF new
<1>4. ASSUME NEW p PROVE p \in FilesOf(new) <=> p \in FilesOf(tabs) \cup {TabPath(t)}
  BY <1>2, FilesOfMembers
<1>5. TabPath(t) \notin FilesOf(tabs)
  <2>1. ~\E u \in DOMAIN tabs : TabPath(t) = TabPath(u)
    BY PathsDiffer
  <2>2. ~\E u \in DOMAIN tabs : \E c \in tabs[u] : TabPath(t) = IxPath(u, c)
    BY <1>1, PathsDiffer
  <2> QED BY <2>1, <2>2, FilesOfMembers
<1> QED BY <1>3, <1>4, <1>5 DEF new

\* ... and drop_table takes it and the files of the indexes away.
LEMMA RemoveTable ==
    ASSUME NEW tabs \in Catalogs, NEW t \in DOMAIN tabs
    PROVE  /\ Without(tabs, {t}) \in Catalogs
           /\ FilesOf(Without(tabs, {t}))
                 = FilesOf(tabs) \ ({TabPath(t)} \cup {IxPath(t, c) : c \in tabs[t]})
           /\ {TabPath(t)} \cup {IxPath(t, c) : c \in tabs[t]} \subseteq FilesOf(tabs)
<1> DEFINE new == Without(tabs, {t})
           gone == {TabPath(t)} \cup {IxPath(t, c) : c \in tabs[t]}
<1>1. /\ DOMAIN tabs \subseteq Tables /\ \A u \in DOMAIN tabs : tabs[u] \subseteq Cols
  BY CatalogFacts
<1>2. DOMAIN new = DOMAIN tabs \ {t} /\ \A u \in DOMAIN tabs \ {t} : new[u] = tabs[u]
  BY WithoutEffect
<1>3. new \in Catalogs
  <2>1. new \in [DOMAIN tabs \ {t} -> SUBSET Cols]
    BY <1>1 DEF Without, Restrict
  <2> QED BY <1>1, <2>1, CatalogType
<1> HIDE DEF new
<1>4. \A p : p \in gone <=> p = TabPath(t) \/ \E c \in tabs[t] : p = IxPath(t, c)
  OBVIOUS
<1> HIDE DEF gone
<1>5. ASSUME NEW p PROVE p \in FilesOf(new) => p \in FilesOf(tabs) \ gone
  <2>1. CASE \E u \in DOMAIN new : p = TabPath(u)
    <3>1. PICK u \in DOMAIN tabs : u # t /\ p = TabPath(u)
      BY <1>2, <2>1
    <3>2. p # TabPath(t) /\ ~\E c \in tabs[t] : p = IxPath(t, c)
      BY <1>1, <3>1, PathsDiffer
    <3> QED BY <1>4, <3>1, <3>2, FilesOfMembers
  <2>2. CASE \E u \in DOMAIN new : \E c \in new[u] : p = IxPath(u, c)
    <3>1. PICK u \in DOMAIN tabs : u # t /\ \E c \in tabs[u] : p = IxPath(u, c)
      BY <1>2, <2>2
    <3>2. p # TabPath(t) /\ ~\E c \in tabs[t] : p = IxPath(t, c)
      BY <1>1, <3>1, PathsDiffer
    <3> QED BY <1>4, <3>1, <3>2, FilesOfMembers
  <2> QED BY <2>1, <2>2, FilesOfMembers
<1>6. ASSUME NEW p PROVE p \in FilesOf(tabs) \ gone => p \in FilesOf(new)
  BY <1>2, <1>4, FilesOfMembers
<1>7. gone \subseteq FilesOf(tabs)
  BY <1>4, FilesOfMembers
<1> QED BY <1>3, <1>5, <1>6, <1>7 DEF new, gone

\* The same for one index.
LEMMA AddIndex ==
    ASSUME NEW tabs \in Catalogs, NEW t \in DOMAIN tabs, NEW c \in Cols, c \notin tabs[t]
    PROVE  /\ [tabs EXCEPT ![t] = @ \cup {c}] \in Catalogs
           /\ FilesOf([tabs EXCEPT ![t] = @ \cup {c}]) = FilesOf(tabs) \cup {IxPath(t, c)}
           /\ IxPath(t, c) \notin FilesOf(tabs)
<1> DEFINE new == [tabs EXCEPT ![t] = @ \cup {c}]
<1>1. /\ DOMAIN tabs \subseteq Tables /\ \A u \in DOMAIN tabs : tabs[u] \subseteq Cols
      /\ tabs = [u \in DOMAIN tabs |-> tabs[u]]
  BY CatalogFacts
<1>2. /\ DOMAIN new = DOMAIN tabs /\ new[t] = tabs[t] \cup {c}
      /\ \A u \in DOMAIN tabs \ {t} : new[u] = tabs[u]
  OBVIOUS
<1>3. new \in Catalogs
  <2>1. new \in [DOMAIN tabs -> SUBSET Cols]
    BY <1>1
  <2> QED BY <1>1, <2>1, CatalogType
<1> HIDE DEF new
<1>4. ASSUME NEW p PROVE p \in FilesOf(new) => p \in FilesOf(tabs) \cup {IxPath(t, c)}
  BY <1>2, FilesOfMembers
<1>5. ASSUME NEW p PROVE p \in FilesOf(tabs) \cup {IxPath(t, c)} => p \in FilesOf(new)
  BY <1>2, FilesOfMembers
<1>6. IxPath(t, c) \notin FilesOf(tabs)
  BY <1>1, FilesOfMembers, PathsDiffer
<1> QED BY <1>3, <1>4, <1>5, <1>6 DEF new

LEMMA RemoveIndex ==
    ASSUME NEW tabs \in Catalogs, NEW t \in DOMAIN tabs, NEW c \in tabs[t]
    PROVE  /\ [tabs EXCEPT ![t] = @ \ {c}] \in Catalogs
           /\ FilesOf([tabs EXCEPT ![t] = @ \ {c}]) = FilesOf(tabs) \ {IxPath(t, c)}
           /\ IxPath(t, c) \in FilesOf(tabs)
<1> DEFINE new == [tabs EXCEPT ![t] = @ \ {c}]
<1>1. /\ DOMAIN tabs \subseteq Tables /\ \A u \in DOMAIN tabs : tabs[u] \subseteq Cols
      /\ tabs = [u \in DOMAIN tabs |-> tabs[u]]
  BY CatalogFacts
<1>2. /\ DOMAIN new = DOMAIN tabs /\ new[t] = tabs[t] \ {c}
      /\ \A u \in DOMAIN tabs \ {t} : new[u] = tabs[u]
  OBVIOUS
<1>3. new \in Catalogs
  <2>1. new \in [DOMAIN tabs -> SUBSET Cols]
    BY <1>1
  <2> QED BY <1>1, <2>1, CatalogType
<1> HIDE DEF new
<1>4. ASSUME NEW p PROVE p \in FilesOf(new) => p \in FilesOf(tabs) \ {IxPath(t, c)}
  <2>1. CASE \E u \in DOMAIN new : p = TabPath(u)
    BY <1>1, <1>2, <2>1, FilesOfMembers, PathsDiffer
  <2>2. CASE \E u \in DOMAIN new : \E d \in new[u] : p = IxPath(u, d)
    <3>1. PICK u \in DOMAIN tabs : \E d \in new[u] : p = IxPath(u, d)
      BY <1>2, <2>2
    <3>2. PICK d \in new[u] : p = IxPath(u, d)
      BY <3>1
    <3>3. d \in tabs[u] /\ d \in Cols /\ ~(u = t /\ d = c)
      BY <1>1, <1>2
    <3> QED BY <1>1, <3>2, <3>3, FilesOfMembers, PathsDiffer
  <2> QED BY <2>1, <2>2, FilesOfMembers
<1>5. ASSUME NEW p PROVE p \in FilesOf(tabs) \ {IxPath(t, c)} => p \in FilesOf(new)
  BY <1>2, FilesOfMembers
<1>6. IxPath(t, c) \in FilesOf(tabs)
  BY FilesOfMembers
<1> QED BY <1>3, <1>4, <1>5, <1>6 DEF new

\* db.meta keeps the catalog: what operator>> reads is what operator<< wrote.
LEMMA MetaRoundTrip ==
    ASSUME NEW tabs \in Catalogs
    PROVE  ReadMeta(WriteMeta(tabs)) = tabs
<1> DEFINE m == WriteMeta(tabs)
<1>1. \A e : e \in m <=> \E t \in DOMAIN tabs : e = [name |-> t, indexed |-> tabs[t]]
  BY DEF WriteMeta
<1> HIDE DEF m
<1>2. {e.name : e \in m} = DOMAIN tabs
  <2>1. ASSUME NEW t \in DOMAIN tabs PROVE t \in {e.name : e \in m}
    <3>1. [name |-> t, indexed |-> tabs[t]] \in m /\ [name |-> t, indexed |-> tabs[t]].name = t
      BY <1>1
    <3> QED BY <3>1
  <2>2. ASSUME NEW e \in m PROVE e.name \in DOMAIN tabs
    BY <1>1
  <2> QED BY <2>1, <2>2
<1>3. ASSUME NEW t \in DOMAIN tabs PROVE (CHOOSE e \in m : e.name = t).indexed = tabs[t]
  <2>1. \E e \in m : e.name = t
    BY <1>2
  <2> DEFINE x == CHOOSE e \in m : e.name = t
  <2>2. x \in m /\ x.name = t
    BY <2>1
  <2> HIDE DEF x
  <2>3. PICK u \in DOMAIN tabs : x = [name |-> u, indexed |-> tabs[u]]
    BY <1>1, <2>2
  <2>4. x.indexed = tabs[t]
    BY <2>2, <2>3
  <2> QED BY <2>4 DEF x
<1>4. ReadMeta(m) = [t \in DOMAIN tabs |-> tabs[t]]
  BY <1>2, <1>3 DEF ReadMeta
<1> QED BY <1>4, CatalogFacts DEF m

-----------------------------------------------------------------------------
(* The invariant                                                           *)

CatalogInv ==
    /\ up \in BOOLEAN /\ crashed \in BOOLEAN
    /\ db_ \in Catalogs /\ ReadMeta(meta) \in Catalogs
    /\ up => FilesOf(db_) \subseteq DOMAIN files /\ HandlesOf(FilesOf(db_), handles, path2fd_)
    /\ FilesMatchCatalog
    /\ MissingFilesWereDropped

LEMMA EmptyCatalog ==
    /\ <<>> \in Catalogs /\ FilesOf(<<>>) = {} /\ DOMAIN <<>> = {}
<1>1. DOMAIN <<>> = {}
  OBVIOUS
<1>2. <<>> \in [{} -> SUBSET Cols]
  OBVIOUS
<1> QED BY <1>1, <1>2, CatalogType, FilesOfNone

LEMMA CatalogInitial == Init => CatalogInv
<1> SUFFICES ASSUME Init PROVE CatalogInv
  OBVIOUS
<1>1. ReadMeta(meta) = <<>>
  BY EmptyCatalog, MetaRoundTrip DEF Init
<1> QED BY <1>1, EmptyCatalog
        DEF Init, CatalogInv, FilesMatchCatalog, MissingFilesWereDropped, FilesOfMeta

\* A statement that adds the files X to the directory and the catalog alike ...
LEMMA GrowStep ==
    ASSUME CatalogInv, up, up' = up, UNCHANGED <<meta, dropped, crashed>>,
           NEW X, db_' \in Catalogs, FilesOf(db_') = FilesOf(db_) \cup X,
           DOMAIN files' = DOMAIN files \cup X,
           HandlesOf(FilesOf(db_'), handles', path2fd_')
    PROVE  CatalogInv'
BY DEF CatalogInv, FilesMatchCatalog, MissingFilesWereDropped, FilesOfMeta

\* ... and one that takes the files X away from both.
LEMMA ShrinkStep ==
    ASSUME CatalogInv, up, up' = up, UNCHANGED <<meta, crashed>>,
           NEW X, db_' \in Catalogs, FilesOf(db_') = FilesOf(db_) \ X,
           DOMAIN files' = DOMAIN files \ X, dropped' = dropped \cup (X \cap FilesOfMeta),
           HandlesOf(FilesOf(db_'), handles', path2fd_')
    PROVE  CatalogInv'
BY DEF CatalogInv, FilesMatchCatalog, MissingFilesWereDropped, FilesOfMeta

\* The process ends; at most it took files away that the history knows.
LEMMA StopStep ==
    ASSUME CatalogInv, Stopped, crashed' = TRUE, UNCHANGED meta,
           NEW X, DOMAIN files' = DOMAIN files \ X, dropped' = dropped \cup (X \cap FilesOfMeta)
    PROVE  CatalogInv'
<1>1. db_' \in Catalogs /\ up' = FALSE
  BY EmptyCatalog DEF Stopped
<1> QED BY <1>1 DEF CatalogInv, FilesMatchCatalog, MissingFilesWereDropped, FilesOfMeta

LEMMA CrashStep ==
    ASSUME CatalogInv, Crash
    PROVE  CatalogInv'
<1>1. DOMAIN files' = DOMAIN files \ {} /\ dropped' = dropped \cup ({} \cap FilesOfMeta)
  BY DEF Crash, disk
<1> QED BY <1>1, StopStep DEF Crash, disk

LEMMA BootStep ==
    ASSUME CatalogInv, Boot
    PROVE  CatalogInv'
<1>1. /\ FilesOfMeta \subseteq DOMAIN files /\ up' = TRUE /\ ~up /\ db_' = ReadMeta(meta)
      /\ UNCHANGED <<meta, files, dropped, crashed>>
  BY DEF Boot, open_db, disk
<1>2. HandlesOf(FilesOf(db_'), handles', path2fd_')
  <2>1. PICK fds \in Injection(FilesOfMeta, Fds) :
          /\ path2fd_' = fds
          /\ handles' = [p \in FilesOfMeta |->
                          [fd |-> fds[p], num_pages |-> files[p][FILE_HDR_PAGE].num_pages,
                           own |-> p \in intact]]
    BY DEF Boot, open_db
  <2>2. fds \in [FilesOfMeta -> Fds] /\ IsInjective(fds)
    BY DEF Injection
  <2>3. FilesOf(db_') = FilesOfMeta
    BY <1>1 DEF FilesOfMeta
  <2>4. DOMAIN handles' = FilesOfMeta /\ \A p \in FilesOfMeta : "fd" \in DOMAIN handles'[p]
                                                               /\ handles'[p].fd = fds[p]
    BY <2>1
  <2>5. fds = [p \in FilesOfMeta |-> handles'[p].fd]
    BY <2>2, <2>4
  <2> QED BY <2>1, <2>2, <2>3, <2>4, <2>5 DEF HandlesOf
<1> QED BY <1>1, <1>2 DEF CatalogInv, FilesMatchCatalog, MissingFilesWereDropped, FilesOfMeta

LEMMA CloseStep ==
    ASSUME CatalogInv, close_db
    PROVE  CatalogInv'
<1>1. /\ up /\ meta' = WriteMeta(db_) /\ up' = FALSE /\ db_' = <<>> /\ dropped' = {}
      /\ DOMAIN files' = DOMAIN files /\ crashed' = crashed
  BY DEF close_db, Stopped
<1>2. ReadMeta(meta') = db_
  BY <1>1, MetaRoundTrip DEF CatalogInv
<1>3. FilesOf(db_) \subseteq DOMAIN files /\ db_ \in Catalogs
  BY <1>1 DEF CatalogInv
<1>4. FilesMatchCatalog'
  BY <1>1, <1>2 DEF CatalogInv, FilesMatchCatalog
<1>5. MissingFilesWereDropped'
  BY <1>1, <1>2, <1>3 DEF MissingFilesWereDropped, FilesOfMeta
<1> QED BY <1>1, <1>2, <1>3, <1>4, <1>5, EmptyCatalog DEF CatalogInv

LEMMA CrashInDropTableStep ==
    ASSUME CatalogInv, NEW t \in Tables, CrashInDropTable(t)
    PROVE  CatalogInv'
<1>1. PICK X : files' = destroy_file(files, X) /\ dropped' = dropped \cup (X \cap FilesOfMeta)
  BY DEF CrashInDropTable
<1>2. DOMAIN files' = DOMAIN files \ X
  BY <1>1, WithoutEffect DEF destroy_file
<1> QED BY <1>1, <1>2, StopStep DEF CrashInDropTable

LEMMA CreateTableStep ==
    ASSUME CatalogInv, NEW t \in Tables, create_table(t), ~UNCHANGED vars
    PROVE  CatalogInv'
<1> DEFINE p == TabPath(t)
<1>1. /\ up /\ t \notin DOMAIN db_ /\ files' = create_file(files, p, 1)
      /\ db_' = With(db_, t, {}) /\ UNCHANGED <<meta, up, dropped, crashed>>
  BY DEF create_table, Throw
<1>2. PICK fd \in UnusedFds :
          /\ path2fd_' = open_file(path2fd_, p, fd)
          /\ handles' = With(handles, p, [fd |-> fd, num_pages |-> 1, own |-> Untouched(pool, fd)])
  BY DEF create_table, Throw
<1>3. db_ \in Catalogs /\ HandlesOf(FilesOf(db_), handles, path2fd_)
  BY <1>1 DEF CatalogInv
<1>4. /\ db_' \in Catalogs /\ FilesOf(db_') = FilesOf(db_) \cup {p} /\ p \notin FilesOf(db_)
  BY <1>1, <1>3, AddTable
<1>5. DOMAIN files' = DOMAIN files \cup {p}
  BY <1>1 DEF create_file, With
<1> HIDE DEF p
<1>6. HandlesOf(FilesOf(db_) \cup {p}, handles', path2fd_')
  BY <1>2, <1>3, <1>4, OpenKeeps DEF open_file, UnusedFds
<1> QED BY <1>1, <1>4, <1>5, <1>6, GrowStep

LEMMA DropTableStep ==
    ASSUME CatalogInv, NEW t \in Tables, drop_table(t), ~UNCHANGED vars
    PROVE  CatalogInv'
<1> DEFINE gone == {TabPath(t)} \cup {IxPath(t, c) : c \in db_[t]}
<1>1. /\ up /\ t \in DOMAIN db_ /\ files' = destroy_file(files, gone)
      /\ path2fd_' = close_file(path2fd_, gone) /\ handles' = Without(handles, gone)
      /\ dropped' = dropped \cup (gone \cap FilesOfMeta) /\ db_' = Without(db_, {t})
      /\ UNCHANGED <<meta, up, crashed>>
  BY DEF drop_table, Throw
<1>2. db_ \in Catalogs /\ HandlesOf(FilesOf(db_), handles, path2fd_)
  BY <1>1 DEF CatalogInv
<1>3. db_' \in Catalogs /\ FilesOf(db_') = FilesOf(db_) \ gone
  BY <1>1, <1>2, RemoveTable
<1> HIDE DEF gone
<1>4. DOMAIN files' = DOMAIN files \ gone
  BY <1>1, WithoutEffect DEF destroy_file
<1>5. HandlesOf(FilesOf(db_) \ gone, handles', path2fd_')
  BY <1>1, <1>2, CloseKeeps DEF close_file
<1> QED BY <1>1, <1>3, <1>4, <1>5, ShrinkStep

LEMMA CreateIndexStep ==
    ASSUME CatalogInv, NEW t \in Tables, NEW c \in Cols, create_index(t, c), ~UNCHANGED vars
    PROVE  CatalogInv'
<1> DEFINE p == IxPath(t, c)
<1>1. /\ up /\ t \in DOMAIN db_ /\ c \notin db_[t]
      /\ db_' = [db_ EXCEPT ![t] = @ \cup {c}] /\ UNCHANGED <<meta, up, dropped, crashed>>
  BY DEF create_index, Throw, history
<1>2. PICK fd \in UnusedFds :
          /\ path2fd_' = open_file(path2fd_, p, fd)
          /\ files' = create_file(files, p, IX_INIT_NUM_PAGES)
          /\ handles' = With(handles, p, [fd |-> fd, num_pages |-> IX_INIT_NUM_PAGES,
                                          own |-> Untouched(pool, fd) /\ handles[TabPath(t)].own
                                                  /\ Visible(t) # {}])
  BY DEF create_index, Throw
<1>3. db_ \in Catalogs /\ HandlesOf(FilesOf(db_), handles, path2fd_)
  BY <1>1 DEF CatalogInv
<1>4. /\ db_' \in Catalogs /\ FilesOf(db_') = FilesOf(db_) \cup {p} /\ p \notin FilesOf(db_)
  BY <1>1, <1>3, AddIndex
<1>5. DOMAIN files' = DOMAIN files \cup {p}
  BY <1>2 DEF create_file, With
<1> HIDE DEF p
<1>6. HandlesOf(FilesOf(db_) \cup {p}, handles', path2fd_')
  BY <1>2, <1>3, <1>4, OpenKeeps DEF open_file, UnusedFds
<1> QED BY <1>1, <1>4, <1>5, <1>6, GrowStep

LEMMA DropIndexStep ==
    ASSUME CatalogInv, NEW t \in Tables, NEW c \in Cols, drop_index(t, c), ~UNCHANGED vars
    PROVE  CatalogInv'
<1> DEFINE gone == {IxPath(t, c)}
<1>1. /\ up /\ t \in DOMAIN db_ /\ c \in db_[t] /\ files' = destroy_file(files, gone)
      /\ path2fd_' = close_file(path2fd_, gone) /\ handles' = Without(handles, gone)
      /\ dropped' = dropped \cup (gone \cap FilesOfMeta)
      /\ db_' = [db_ EXCEPT ![t] = @ \ {c}]
      /\ UNCHANGED <<meta, up, crashed>>
  BY DEF drop_index, Throw
<1>2. db_ \in Catalogs /\ HandlesOf(FilesOf(db_), handles, path2fd_)
  BY <1>1 DEF CatalogInv
<1>3. db_' \in Catalogs /\ FilesOf(db_') = FilesOf(db_) \ gone
  BY <1>1, <1>2, RemoveIndex
<1> HIDE DEF gone
<1>4. DOMAIN files' = DOMAIN files \ gone
  BY <1>1, WithoutEffect DEF destroy_file
<1>5. HandlesOf(FilesOf(db_) \ gone, handles', path2fd_')
  BY <1>1, <1>2, CloseKeeps DEF close_file
<1> QED BY <1>1, <1>3, <1>4, <1>5, ShrinkStep

\* INSERT and DELETE touch neither catalog nor directory; INSERT changes the
\* header in a handle, not its descriptor.
LEMMA RowStep ==
    ASSUME CatalogInv, NEW t \in Tables, NEW r \in Rows, InsertRow(t, r) \/ DeleteRow(t, r)
    PROVE  CatalogInv'
<1>1. /\ up /\ t \in DOMAIN db_ /\ UNCHANGED <<meta, files, up, db_, path2fd_, dropped, crashed>>
  BY DEF InsertRow, DeleteRow, disk
<1>2. db_ \in Catalogs /\ HandlesOf(FilesOf(db_), handles, path2fd_)
  BY <1>1 DEF CatalogInv
<1>3. HandlesOf(FilesOf(db_), handles', path2fd_)
  <2>1. CASE InsertRow(t, r)
    <3>1. handles' = [handles EXCEPT ![TabPath(t)].num_pages = 2]
      BY <2>1 DEF InsertRow
    <3>2. DOMAIN handles' = DOMAIN handles
      BY <3>1
    <3>3. ASSUME NEW p \in DOMAIN handles, "fd" \in DOMAIN handles[p]
          PROVE  "fd" \in DOMAIN handles'[p] /\ handles'[p].fd = handles[p].fd
      BY <3>1, <3>3
    <3> QED BY <1>2, <3>2, <3>3 DEF HandlesOf
  <2>2. CASE DeleteRow(t, r)
    BY <1>2, <2>2 DEF DeleteRow
  <2> QED BY <2>1, <2>2
<1> QED BY <1>1, <1>2, <1>3 DEF CatalogInv, FilesMatchCatalog, MissingFilesWereDropped, FilesOfMeta

LEMMA CatalogStep == CatalogInv /\ [Next]_vars => CatalogInv'
<1> SUFFICES ASSUME CatalogInv, [Next]_vars PROVE CatalogInv'
  OBVIOUS
<1>1. CASE UNCHANGED vars
  BY <1>1 DEF vars, disk, process, history, CatalogInv, FilesMatchCatalog, MissingFilesWereDropped,
              FilesOfMeta
<1>2. CASE Boot
  BY <1>2, BootStep
<1>3. CASE BootFails
  BY <1>1, <1>3 DEF BootFails, Throw
<1>4. CASE close_db
  BY <1>4, CloseStep
<1>5. CASE Crash
  BY <1>5, CrashStep
<1>6. ASSUME NEW t \in Tables,
             \/ CrashInDropTable(t) \/ create_table(t) \/ drop_table(t)
             \/ drop_indexNoTable(t) \/ NoSuchColumn(t)
      PROVE  CatalogInv'
  <2>1. CASE CrashInDropTable(t)
    BY <2>1, CrashInDropTableStep
  <2>2. CASE create_table(t)
    BY <1>1, <2>2, CreateTableStep
  <2>3. CASE drop_table(t)
    BY <1>1, <2>3, DropTableStep
  <2>4. CASE drop_indexNoTable(t)
    BY <2>4, CrashStep DEF drop_indexNoTable
  <2>5. CASE NoSuchColumn(t)
    BY <1>1, <2>5, CrashStep DEF NoSuchColumn, Throw
  <2> QED BY <1>6, <2>1, <2>2, <2>3, <2>4, <2>5
<1>7. ASSUME NEW t \in Tables, NEW c \in Cols, create_index(t, c) \/ drop_index(t, c)
      PROVE  CatalogInv'
  BY <1>1, <1>7, CreateIndexStep, DropIndexStep
<1>8. ASSUME NEW t \in Tables, NEW r \in Rows, InsertRow(t, r) \/ DeleteRow(t, r)
      PROVE  CatalogInv'
  BY <1>8, RowStep
<1> QED BY <1>1, <1>2, <1>3, <1>4, <1>5, <1>6, <1>7, <1>8 DEF Next

-----------------------------------------------------------------------------
(* Least elements, sequences without repetitions                           *)

LEMMA LeastNatural ==
    ASSUME NEW S, S \subseteq Nat, S # {}
    PROVE  \E x \in S : \A y \in S : x <= y
<1> DEFINE R == {ss \in Nat \X Nat : ss[1] < ss[2]}
<1>1. IsWellFoundedOn(R, Nat)
  BY NatLessThanWellFounded, Zenon DEF OpToRel
<1> HIDE DEF R
<1>2. PICK x \in S : \A y \in S : <<y, x>> \notin R
  BY <1>1, WFMin
<1>3. ASSUME NEW y \in S PROVE x <= y
  <2>1. x \in Nat /\ y \in Nat
    OBVIOUS
  <2>2. y < x => <<y, x>> \in R
    BY <2>1 DEF R
  <2> QED BY <1>2, <2>1, <2>2
<1> QED BY <1>3

LEMMA SeqExcept ==
    ASSUME NEW T, NEW s \in Seq(T), NEW k \in DOMAIN s, NEW x \in T
    PROVE  [s EXCEPT ![k] = x] \in Seq(T) /\ DOMAIN [s EXCEPT ![k] = x] = DOMAIN s
OBVIOUS

LEMMA SetToSeqFacts ==
    ASSUME NEW S, IsFiniteSet(S)
    PROVE  /\ Cardinality(S) \in Nat
           /\ SetToSeq(S) \in [1 .. Cardinality(S) -> S]
           /\ \A i, j \in 1 .. Cardinality(S) : SetToSeq(S)[i] = SetToSeq(S)[j] => i = j
           /\ \A x \in S : \E i \in 1 .. Cardinality(S) : SetToSeq(S)[i] = x
<1> DEFINE n == Cardinality(S)
           q == SetToSeq(S)
<1>1. n \in Nat /\ ExistsBijection(1 .. n, S)
  BY FS_CardinalityType
<1>2. \E f \in [1 .. n -> S] : IsInjective(f)
  BY <1>1 DEF ExistsBijection, Bijection, Injection, IsInjective
<1>3. q \in [1 .. n -> S] /\ IsInjective(q)
  BY <1>2 DEF SetToSeq
<1>4. q \in Injection(1 .. n, S)
  BY <1>3 DEF Injection
<1>5. Cardinality(1 .. n) = n
  BY <1>1, FS_Interval
<1>6. q \in Surjection(1 .. n, S)
  BY <1>4, <1>5, FS_Injection
<1> QED BY <1>1, <1>3, <1>6 DEF IsInjective, Surjection

-----------------------------------------------------------------------------
(* Pages in the pool                                                       *)

Records == Rows \cup {Junk}
PageType == [num_pages : Nat, rows : SUBSET Records]
Frames == [fd : Fds, page : Pages, data : PageType]

\* The page has at most one frame, so FetchPage and FlushAllPages mean the same.
Single(pl, fd, n) == \A i, j \in FramesOf(pl, fd, n) : i = j

\* Users of page n of file p find the records or entries rs there.
OwnPage(pl, fs, p, fd, n, rs) == Single(pl, fd, n) /\ Data(pl, fs, p, fd, n).rows = rs

\* The pools pl and ql have the same to say about the page.
SamePage(pl, ql, fd, n) ==
    /\ FramesOf(ql, fd, n) = FramesOf(pl, fd, n)
    /\ \A i \in FramesOf(pl, fd, n) : ql[i].data = pl[i].data

LEMMA FrameOfFacts ==
    ASSUME NEW pl \in Seq(Frames), NEW fd, NEW n, InPool(pl, fd, n)
    PROVE  /\ FrameOf(pl, fd, n) \in FramesOf(pl, fd, n)
           /\ FrameOf(pl, fd, n) \in DOMAIN pl
           /\ Single(pl, fd, n) => Max(FramesOf(pl, fd, n)) = FrameOf(pl, fd, n)
<1> DEFINE S == FramesOf(pl, fd, n)
<1>1. S # {} /\ S \subseteq Nat /\ S \subseteq DOMAIN pl
  BY DEF InPool, FramesOf
<1>2. Single(pl, fd, n) <=> \A i, j \in S : i = j
  BY DEF Single
<1> HIDE DEF S
<1>3. \E x \in S : \A y \in S : x <= y
  BY <1>1, LeastNatural
<1>4. Min(S) \in S
  BY <1>3 DEF Min
<1>5. ASSUME \A i, j \in S : i = j PROVE Max(S) = Min(S)
  <2>1. ASSUME NEW y \in S PROVE Min(S) >= y
    <3>1. y = Min(S) /\ y \in Nat
      BY <1>1, <1>4, <1>5
    <3> QED BY <3>1
  <2>2. Max(S) \in S
    BY <1>4, <2>1 DEF Max
  <2> QED BY <1>4, <1>5, <2>2
<1> QED BY <1>1, <1>2, <1>4, <1>5 DEF S, FrameOf

LEMMA SamePageFacts ==
    ASSUME NEW pl \in Seq(Frames), NEW ql, NEW fd, NEW n, SamePage(pl, ql, fd, n)
    PROVE  /\ InPool(ql, fd, n) <=> InPool(pl, fd, n)
           /\ Single(ql, fd, n) <=> Single(pl, fd, n)
           /\ \A fs, p : Data(ql, fs, p, fd, n) = Data(pl, fs, p, fd, n)
           /\ \A fs, p, rs : OwnPage(ql, fs, p, fd, n, rs) <=> OwnPage(pl, fs, p, fd, n, rs)
<1>1. /\ InPool(ql, fd, n) <=> InPool(pl, fd, n)
      /\ Single(ql, fd, n) <=> Single(pl, fd, n)
  BY DEF SamePage, InPool, Single
<1>2. ASSUME NEW fs, NEW p PROVE Data(ql, fs, p, fd, n) = Data(pl, fs, p, fd, n)
  <2>1. CASE InPool(pl, fd, n)
    <3>1. FrameOf(pl, fd, n) \in FramesOf(pl, fd, n)
      BY <2>1, FrameOfFacts
    <3>2. FrameOf(ql, fd, n) = FrameOf(pl, fd, n)
      BY DEF SamePage, FrameOf
    <3> QED BY <1>1, <2>1, <3>1, <3>2 DEF SamePage, Data
  <2>2. CASE ~InPool(pl, fd, n)
    BY <1>1, <2>2 DEF Data
  <2> QED BY <2>1, <2>2
<1> QED BY <1>1, <1>2 DEF OwnPage

\* A frame is added: the page it is for has it last, nothing else changes.
Appended(pl, f) ==
    LET ql == Append(pl, f)
    IN /\ ql \in Seq(Frames)
       /\ InPool(ql, f.fd, f.page)
       /\ \A gd, m : gd # f.fd \/ m # f.page => SamePage(pl, ql, gd, m)
       /\ ~InPool(pl, f.fd, f.page) =>
             /\ Single(ql, f.fd, f.page)
             /\ \A fs, p : Data(ql, fs, p, f.fd, f.page) = f.data

LEMMA AppendFacts ==
    ASSUME NEW pl \in Seq(Frames), NEW f \in Frames
    PROVE  Appended(pl, f)
<1> DEFINE ql == Append(pl, f)
           fd == f.fd
           n == f.page
<1>1. f.fd = fd /\ f.page = n
  OBVIOUS
<1>2. /\ ql \in Seq(Frames) /\ DOMAIN ql = 1 .. Len(pl) + 1 /\ DOMAIN pl = 1 .. Len(pl)
      /\ \A i \in DOMAIN pl : ql[i] = pl[i]
      /\ ql[Len(pl) + 1] = f /\ Len(pl) \in Nat
  OBVIOUS
<1> HIDE DEF ql, fd, n
<1>3. Len(pl) + 1 \in FramesOf(ql, fd, n)
  BY <1>1, <1>2 DEF FramesOf
<1>4. ASSUME NEW gd, NEW m, gd # fd \/ m # n PROVE SamePage(pl, ql, gd, m)
  <2>1. Len(pl) + 1 \notin FramesOf(ql, gd, m)
    BY <1>1, <1>2, <1>4 DEF FramesOf
  <2>2. FramesOf(ql, gd, m) = FramesOf(pl, gd, m)
    BY <1>2, <2>1 DEF FramesOf
  <2> QED BY <1>2, <2>2 DEF SamePage, FramesOf
<1>5. ASSUME ~InPool(pl, fd, n)
      PROVE  Single(ql, fd, n) /\ \A fs, p : Data(ql, fs, p, fd, n) = f.data
  <2>1. FramesOf(ql, fd, n) = {Len(pl) + 1}
    BY <1>2, <1>3, <1>5 DEF FramesOf, InPool
  <2>2. FrameOf(ql, fd, n) = Len(pl) + 1 /\ InPool(ql, fd, n)
    BY <1>2, <2>1, FrameOfFacts DEF InPool
  <2> QED BY <1>1, <1>2, <2>1, <2>2 DEF Single, Data
<1>6. InPool(ql, fd, n)
  BY <1>3 DEF InPool
<1> QED BY <1>2, <1>4, <1>5, <1>6 DEF Appended, ql, fd, n

\* Nothing changes but page n of the file open as fd.
KeepsOthers(pl, ql, fd, n) == \A gd, m : gd # fd \/ m # n => SamePage(pl, ql, gd, m)

\* FetchPage changes nothing a user of any page can see.
LEMMA FetchFacts ==
    ASSUME NEW pl \in Seq(Frames), NEW fd \in Fds, NEW n \in Pages, NEW fs, NEW p,
           fs[p] \in [Pages -> PageType]
    PROVE  /\ FetchPage(pl, fs, p, fd, n) \in Seq(Frames)
           /\ InPool(FetchPage(pl, fs, p, fd, n), fd, n)
           /\ KeepsOthers(pl, FetchPage(pl, fs, p, fd, n), fd, n)
           /\ \A rs : OwnPage(pl, fs, p, fd, n, rs)
                        => OwnPage(FetchPage(pl, fs, p, fd, n), fs, p, fd, n, rs)
<1> DEFINE ql == FetchPage(pl, fs, p, fd, n)
<1>1. CASE InPool(pl, fd, n)
  <2>1. ql = pl
    BY <1>1 DEF FetchPage
  <2> QED BY <1>1, <2>1 DEF SamePage, KeepsOthers
<1>2. CASE ~InPool(pl, fd, n)
  <2>1. ql = Append(pl, [fd |-> fd, page |-> n, data |-> fs[p][n]]) /\ fs[p][n] \in PageType
    BY <1>2 DEF FetchPage
  <2>2. Data(pl, fs, p, fd, n) = fs[p][n]
    BY <1>2 DEF Data
  <2> DEFINE f == [fd |-> fd, page |-> n, data |-> fs[p][n]]
  <2>3. /\ f \in Frames /\ f.fd = fd /\ f.page = n /\ f.data = fs[p][n]
        /\ ql = Append(pl, f)
    BY <2>1 DEF Frames
  <2> HIDE DEF f, ql
  <2>4. Appended(pl, f)
    BY <2>3, AppendFacts
  <2>5. /\ ql \in Seq(Frames) /\ InPool(ql, fd, n) /\ KeepsOthers(pl, ql, fd, n)
        /\ \A rs : OwnPage(pl, fs, p, fd, n, rs) => OwnPage(ql, fs, p, fd, n, rs)
    BY <1>2, <2>2, <2>3, <2>4 DEF OwnPage, Appended, KeepsOthers
  <2> QED BY <2>5 DEF ql
<1> QED BY <1>1, <1>2

\* A fetched page is changed.
SetRows(pl, fd, n, S) == [pl EXCEPT ![FrameOf(pl, fd, n)].data.rows = S]

LEMMA EditFacts ==
    ASSUME NEW pl \in Seq(Frames), NEW fd, NEW n, InPool(pl, fd, n),
           NEW S \in SUBSET Records
    PROVE  /\ SetRows(pl, fd, n, S) \in Seq(Frames)
           /\ InPool(SetRows(pl, fd, n, S), fd, n)
           /\ KeepsOthers(pl, SetRows(pl, fd, n, S), fd, n)
           /\ \A fs, p : Single(pl, fd, n) => OwnPage(SetRows(pl, fd, n, S), fs, p, fd, n, S)
<1> DEFINE k == FrameOf(pl, fd, n)
           ql == SetRows(pl, fd, n, S)
<1>1. k \in FramesOf(pl, fd, n) /\ k \in DOMAIN pl
  BY FrameOfFacts
<1>0. ql = [pl EXCEPT ![k].data.rows = S]
  BY DEF SetRows
<1> HIDE DEF k, ql
<1>2. pl[k] \in Frames /\ pl[k].fd = fd /\ pl[k].page = n
  BY <1>1 DEF FramesOf
<1>3. /\ ql \in Seq(Frames) /\ DOMAIN ql = DOMAIN pl
      /\ \A i \in DOMAIN pl \ {k} : ql[i] = pl[i]
      /\ ql[k].fd = fd /\ ql[k].page = n /\ ql[k].data.rows = S
  <2> DEFINE x == [pl[k] EXCEPT !.data = [pl[k].data EXCEPT !.rows = S]]
  <2>1. ql = [pl EXCEPT ![k] = x]
    BY <1>0
  <2>2. x \in Frames /\ x.fd = fd /\ x.page = n /\ x.data.rows = S
    BY <1>2 DEF Frames, PageType
  <2> HIDE DEF x
  <2>3. [pl EXCEPT ![k] = x] \in Seq(Frames) /\ DOMAIN [pl EXCEPT ![k] = x] = DOMAIN pl
    BY <1>1, <2>2, SeqExcept
  <2> QED BY <1>1, <2>1, <2>2, <2>3
<1>4. \A gd, m : FramesOf(ql, gd, m) = FramesOf(pl, gd, m)
  BY <1>1, <1>2, <1>3 DEF FramesOf
<1>5. ASSUME NEW gd, NEW m, gd # fd \/ m # n PROVE SamePage(pl, ql, gd, m)
  <2>1. k \notin FramesOf(pl, gd, m)
    BY <1>2, <1>5 DEF FramesOf
  <2>2. FramesOf(pl, gd, m) \subseteq DOMAIN pl \ {k}
    BY <2>1 DEF FramesOf
  <2>3. \A i \in FramesOf(pl, gd, m) : ql[i] = pl[i]
    BY <1>3, <2>2
  <2> QED BY <1>4, <2>3 DEF SamePage
<1>6. FrameOf(ql, fd, n) = k /\ InPool(ql, fd, n)
  BY <1>4 DEF FrameOf, InPool, k
<1>7. ASSUME NEW fs, NEW p PROVE Single(pl, fd, n) => OwnPage(ql, fs, p, fd, n, S)
  <2>1. Data(ql, fs, p, fd, n) = ql[k].data
    BY <1>6 DEF Data
  <2> QED BY <1>3, <1>4, <2>1 DEF OwnPage, Single
<1> QED BY <1>3, <1>5, <1>6, <1>7 DEF ql, KeepsOthers

\* The records a user of a page in the pool finds there are those of its frame.
LEMMA FrameRows ==
    ASSUME NEW pl \in Seq(Frames), NEW fd, NEW n, InPool(pl, fd, n)
    PROVE  /\ pl[FrameOf(pl, fd, n)].data.rows \in SUBSET Records
           /\ \A fs, p, rs : OwnPage(pl, fs, p, fd, n, rs) => pl[FrameOf(pl, fd, n)].data.rows = rs
<1>1. FrameOf(pl, fd, n) \in DOMAIN pl
  BY FrameOfFacts
<1>2. pl[FrameOf(pl, fd, n)] \in Frames
  BY <1>1
<1>3. pl[FrameOf(pl, fd, n)].data.rows \in SUBSET Records
  BY <1>2 DEF Frames, PageType
<1> QED BY <1>3 DEF OwnPage, Data

LEMMA AddFacts ==
    ASSUME NEW pl \in Seq(Frames), NEW fd, NEW n, InPool(pl, fd, n), NEW rs \in SUBSET Records
    PROVE  /\ AddRows(pl, fd, n, rs) \in Seq(Frames)
           /\ InPool(AddRows(pl, fd, n, rs), fd, n)
           /\ KeepsOthers(pl, AddRows(pl, fd, n, rs), fd, n)
           /\ \A fs, p, x : OwnPage(pl, fs, p, fd, n, x)
                              => OwnPage(AddRows(pl, fd, n, rs), fs, p, fd, n, x \cup rs)
<1> DEFINE old == pl[FrameOf(pl, fd, n)].data.rows
           S == old \cup rs
<1>1. AddRows(pl, fd, n, rs) = SetRows(pl, fd, n, S)
  BY DEF AddRows, SetRows
<1>2. old \in SUBSET Records /\ \A fs, p, x : OwnPage(pl, fs, p, fd, n, x) => old = x
  BY FrameRows
<1>3. S \in SUBSET Records
  BY <1>2
<1>4. \A fs, p, x : OwnPage(pl, fs, p, fd, n, x) => Single(pl, fd, n) /\ S = x \cup rs
  BY <1>2 DEF OwnPage
<1> HIDE DEF S
<1>5. /\ SetRows(pl, fd, n, S) \in Seq(Frames)
      /\ InPool(SetRows(pl, fd, n, S), fd, n)
      /\ KeepsOthers(pl, SetRows(pl, fd, n, S), fd, n)
      /\ \A fs, p : Single(pl, fd, n) => OwnPage(SetRows(pl, fd, n, S), fs, p, fd, n, S)
  BY <1>3, EditFacts
<1> QED BY <1>1, <1>4, <1>5

LEMMA CutFacts ==
    ASSUME NEW pl \in Seq(Frames), NEW fd, NEW n, InPool(pl, fd, n), NEW r
    PROVE  /\ CutRow(pl, fd, n, r) \in Seq(Frames)
           /\ KeepsOthers(pl, CutRow(pl, fd, n, r), fd, n)
           /\ \A fs, p, x : OwnPage(pl, fs, p, fd, n, x)
                              => OwnPage(CutRow(pl, fd, n, r), fs, p, fd, n, x \ {r})
<1> DEFINE old == pl[FrameOf(pl, fd, n)].data.rows
           S == old \ {r}
<1>1. CutRow(pl, fd, n, r) = SetRows(pl, fd, n, S)
  BY DEF CutRow, SetRows
<1>2. old \in SUBSET Records /\ \A fs, p, x : OwnPage(pl, fs, p, fd, n, x) => old = x
  BY FrameRows
<1>3. S \in SUBSET Records
  BY <1>2
<1>4. \A fs, p, x : OwnPage(pl, fs, p, fd, n, x) => Single(pl, fd, n) /\ S = x \ {r}
  BY <1>2 DEF OwnPage
<1> HIDE DEF S
<1>5. /\ SetRows(pl, fd, n, S) \in Seq(Frames)
      /\ KeepsOthers(pl, SetRows(pl, fd, n, S), fd, n)
      /\ \A fs, p : Single(pl, fd, n) => OwnPage(SetRows(pl, fd, n, S), fs, p, fd, n, S)
  BY <1>3, EditFacts
<1> QED BY <1>1, <1>4, <1>5

\* What INSERT needs of the indexes of t: one descriptor each, and a file.
IndexFd(t, c) == handles[IxPath(t, c)].fd
IndexesOpen(t) ==
    /\ IsFiniteSet(db_[t])
    /\ \A c \in db_[t] : IndexFd(t, c) \in Fds /\ files[IxPath(t, c)] \in [Pages -> PageType]
    /\ \A c, d \in db_[t] : IndexFd(t, c) = IndexFd(t, d) => c = d

\* Nothing changes but the roots of the indexes of t.
KeepsAllButRoots(pl, ql, t) ==
    \A gd, m : m # IX_INIT_ROOT_PAGE \/ (\A c \in db_[t] : gd # IndexFd(t, c))
                => SamePage(pl, ql, gd, m)

LEMMA ConcatFacts ==
    ASSUME NEW T, NEW s \in Seq(T), NEW k \in Nat, NEW g \in [1 .. k -> T]
    PROVE  /\ s \o g \in Seq(T)
           /\ DOMAIN (s \o g) = 1 .. Len(s) + k /\ Len(s) \in Nat /\ DOMAIN s = 1 .. Len(s)
           /\ \A i \in DOMAIN s : (s \o g)[i] = s[i]
           /\ \A i \in 1 .. k : (s \o g)[Len(s) + i] = g[i]
<1>1. g \in Seq(T) /\ Len(g) = k
  OBVIOUS
<1> QED BY <1>1

LEMMA RootsReadFacts ==
    ASSUME NEW pl \in Seq(Frames), NEW t, IndexesOpen(t)
    PROVE  /\ RootsRead(pl, t) \in Seq(Frames)
           /\ KeepsAllButRoots(pl, RootsRead(pl, t), t)
           /\ \A c \in db_[t] :
                /\ InPool(RootsRead(pl, t), IndexFd(t, c), IX_INIT_ROOT_PAGE)
                /\ \A rs : OwnPage(pl, files, IxPath(t, c), IndexFd(t, c), IX_INIT_ROOT_PAGE, rs)
                     => OwnPage(RootsRead(pl, t), files, IxPath(t, c), IndexFd(t, c),
                                IX_INIT_ROOT_PAGE, rs)
<1> DEFINE root == IX_INIT_ROOT_PAGE
           absent == {c \in db_[t] : ~InPool(pl, IndexFd(t, c), root)}
           order == SetToSeq(absent)
           k == Cardinality(absent)
           g == [i \in 1 .. k |-> [fd |-> IndexFd(t, order[i]), page |-> root,
                                   data |-> files[IxPath(t, order[i])][root]]]
           ql == RootsRead(pl, t)
<1>1. /\ IsFiniteSet(db_[t]) /\ root \in Pages
      /\ \A c \in db_[t] : IndexFd(t, c) \in Fds /\ files[IxPath(t, c)][root] \in PageType
      /\ \A c, d \in db_[t] : IndexFd(t, c) = IndexFd(t, d) => c = d
  BY DEF IndexesOpen, Pages
<1>2. ql = pl \o g
  BY DEF RootsRead, IndexFd
<1>3. \A c : c \in absent <=> c \in db_[t] /\ ~InPool(pl, IndexFd(t, c), root)
  OBVIOUS
<1>4. IsFiniteSet(absent)
  BY <1>1, FS_Subset
<1> HIDE DEF absent, root
<1>5. /\ k \in Nat
      /\ \A i \in 1 .. k : order[i] \in absent
      /\ \A i, j \in 1 .. k : order[i] = order[j] => i = j
      /\ \A x \in absent : \E i \in 1 .. k : order[i] = x
  BY <1>4, SetToSeqFacts
<1> HIDE DEF order, k, ql
<1>6. /\ DOMAIN g = 1 .. k /\ g \in [1 .. k -> Frames]
      /\ \A i \in 1 .. k : /\ g[i].fd = IndexFd(t, order[i]) /\ g[i].page = root
                           /\ g[i].data = files[IxPath(t, order[i])][root]
  BY <1>1, <1>3, <1>5 DEF Frames
<1> HIDE DEF g
<1>7. /\ ql \in Seq(Frames)
      /\ DOMAIN ql = 1 .. Len(pl) + k /\ Len(pl) \in Nat /\ DOMAIN pl = 1 .. Len(pl)
      /\ \A i \in DOMAIN pl : ql[i] = pl[i]
      /\ \A i \in 1 .. k : ql[Len(pl) + i] = g[i]
  BY <1>2, <1>5, <1>6, ConcatFacts
<1>8. \A i \in DOMAIN ql : i \in DOMAIN pl \/ \E j \in 1 .. k : i = Len(pl) + j
  <2> SUFFICES ASSUME NEW i \in DOMAIN ql, i \notin DOMAIN pl
               PROVE  \E j \in 1 .. k : i = Len(pl) + j
    OBVIOUS
  <2>1. i - Len(pl) \in 1 .. k /\ i = Len(pl) + (i - Len(pl))
    BY <1>5, <1>7
  <2> QED BY <2>1
<1>9. ASSUME NEW gd, NEW m,
             \A j \in 1 .. k : ~(IndexFd(t, order[j]) = gd /\ root = m)
      PROVE  SamePage(pl, ql, gd, m)
  <2>1. FramesOf(ql, gd, m) = FramesOf(pl, gd, m)
    <3>1. ASSUME NEW i \in FramesOf(ql, gd, m) PROVE i \in FramesOf(pl, gd, m)
      <4>1. i \in DOMAIN ql /\ ql[i].fd = gd /\ ql[i].page = m
        BY DEF FramesOf
      <4>2. i \in DOMAIN pl
        BY <1>6, <1>7, <1>8, <1>9, <4>1
      <4> QED BY <1>7, <4>1, <4>2 DEF FramesOf
    <3>2. ASSUME NEW i \in FramesOf(pl, gd, m) PROVE i \in FramesOf(ql, gd, m)
      BY <1>5, <1>7 DEF FramesOf
    <3> QED BY <3>1, <3>2
  <2> QED BY <1>7, <2>1 DEF SamePage, FramesOf
<1>10. KeepsAllButRoots(pl, ql, t)
  <2> SUFFICES ASSUME NEW gd, NEW m, m # root \/ (\A c \in db_[t] : gd # IndexFd(t, c))
               PROVE  SamePage(pl, ql, gd, m)
    BY DEF KeepsAllButRoots, root
  <2> QED BY <1>3, <1>5, <1>9
<1>11. ASSUME NEW c \in db_[t]
       PROVE  /\ InPool(ql, IndexFd(t, c), root)
              /\ \A rs : OwnPage(pl, files, IxPath(t, c), IndexFd(t, c), root, rs)
                            => OwnPage(ql, files, IxPath(t, c), IndexFd(t, c), root, rs)
  <2> DEFINE fd == IndexFd(t, c)
  <2>1. CASE c \notin absent
    <3>1. InPool(pl, fd, root)
      BY <1>3, <2>1
    <3>2. SamePage(pl, ql, fd, root)
      BY <1>1, <1>3, <1>5, <1>9, <2>1
    <3> HIDE DEF fd
    <3>3. /\ InPool(ql, fd, root) <=> InPool(pl, fd, root)
          /\ \A fs, p, rs : OwnPage(ql, fs, p, fd, root, rs) <=> OwnPage(pl, fs, p, fd, root, rs)
      BY <3>2, SamePageFacts
    <3> QED BY <3>1, <3>3 DEF fd
  <2>2. CASE c \in absent
    <3>1. PICK j \in 1 .. k : order[j] = c
      BY <1>5, <2>2
    <3>2. Len(pl) + j \in DOMAIN ql /\ ql[Len(pl) + j] = g[j]
      BY <1>5, <1>7
    <3>3. FramesOf(ql, fd, root) = {Len(pl) + j}
      <4>1. Len(pl) + j \in FramesOf(ql, fd, root)
        BY <1>6, <3>1, <3>2 DEF FramesOf
      <4>2. ASSUME NEW i \in FramesOf(ql, fd, root) PROVE i = Len(pl) + j
        <5>1. i \in DOMAIN ql /\ ql[i].fd = fd /\ ql[i].page = root
          BY DEF FramesOf
        <5>2. i \notin DOMAIN pl
          BY <1>3, <1>7, <2>2, <5>1 DEF InPool, FramesOf
        <5>3. PICK l \in 1 .. k : i = Len(pl) + l
          BY <1>8, <5>1, <5>2
        <5>4. IndexFd(t, order[l]) = fd
          BY <1>6, <1>7, <5>1, <5>3
        <5>5. order[l] = c
          BY <1>1, <1>3, <1>5, <5>4
        <5> QED BY <1>5, <3>1, <5>3, <5>5
      <4> QED BY <4>1, <4>2
    <3> HIDE DEF fd
    <3>4. InPool(ql, fd, root)
      BY <3>3 DEF InPool
    <3>5. FrameOf(ql, fd, root) = Len(pl) + j
      BY <1>7, <3>3, <3>4, FrameOfFacts
    <3>6. Data(ql, files, IxPath(t, c), fd, root) = files[IxPath(t, c)][root]
      BY <1>6, <3>1, <3>2, <3>4, <3>5 DEF Data
    <3>7. Data(pl, files, IxPath(t, c), fd, root) = files[IxPath(t, c)][root]
      BY <1>3, <2>2 DEF Data, fd
    <3> QED BY <3>3, <3>4, <3>6, <3>7 DEF OwnPage, Single, fd
  <2> QED BY <2>1, <2>2
<1> QED BY <1>7, <1>10, <1>11 DEF ql, root

LEMMA InsertInIndexesFacts ==
    ASSUME NEW pl \in Seq(Frames), NEW t, IndexesOpen(t), NEW r \in Records
    PROVE  /\ InsertInIndexes(pl, t, r) \in Seq(Frames)
           /\ KeepsAllButRoots(pl, InsertInIndexes(pl, t, r), t)
           /\ \A c \in db_[t] :
                \A rs : OwnPage(pl, files, IxPath(t, c), IndexFd(t, c), IX_INIT_ROOT_PAGE, rs)
                     => OwnPage(InsertInIndexes(pl, t, r), files, IxPath(t, c), IndexFd(t, c),
                                IX_INIT_ROOT_PAGE, rs \cup {r})
<1> DEFINE root == IX_INIT_ROOT_PAGE
           ql == RootsRead(pl, t)
           ml == InsertInIndexes(pl, t, r)
           K == {RootOf(ql, t, c) : c \in db_[t]}
<1>1. /\ ql \in Seq(Frames)
      /\ KeepsAllButRoots(pl, ql, t)
      /\ \A c \in db_[t] :
           /\ InPool(ql, IndexFd(t, c), root)
           /\ \A rs : OwnPage(pl, files, IxPath(t, c), IndexFd(t, c), root, rs)
                        => OwnPage(ql, files, IxPath(t, c), IndexFd(t, c), root, rs)
  BY RootsReadFacts
<1>2. ml = [i \in DOMAIN ql |-> IF i \in K THEN [ql[i] EXCEPT !.data.rows = @ \cup {r}] ELSE ql[i]]
  BY DEF InsertInIndexes
<1>3. \A c \in db_[t] : RootOf(ql, t, c) = FrameOf(ql, IndexFd(t, c), root) /\ RootOf(ql, t, c) \in K
  BY DEF RootOf, IndexFd
<1>4. \A i \in K : \E c \in db_[t] : i = FrameOf(ql, IndexFd(t, c), root)
  BY DEF RootOf, IndexFd
<1> HIDE DEF root, ql, ml, K
<1>5. \A c \in db_[t] : FrameOf(ql, IndexFd(t, c), root) \in FramesOf(ql, IndexFd(t, c), root)
  BY <1>1, FrameOfFacts
<1>6. \A i \in DOMAIN ql : ql[i] \in Frames
  BY <1>1
<1>7. \A i \in DOMAIN ql : [ql[i] EXCEPT !.data.rows = @ \cup {r}] \in Frames
  BY <1>6 DEF Frames, PageType
<1>8. /\ DOMAIN ml = DOMAIN ql
      /\ \A i \in DOMAIN ql : /\ ml[i] \in Frames /\ ml[i].fd = ql[i].fd /\ ml[i].page = ql[i].page
                              /\ i \notin K => ml[i] = ql[i]
                              /\ i \in K => ml[i].data.rows = ql[i].data.rows \cup {r}
  <2>1. \A i \in DOMAIN ql : LET f == [ql[i] EXCEPT !.data.rows = @ \cup {r}]
                             IN f.fd = ql[i].fd /\ f.page = ql[i].page
                                /\ f.data.rows = ql[i].data.rows \cup {r}
    BY <1>6 DEF Frames, PageType
  <2> QED BY <1>2, <1>6, <1>7, <2>1
<1>9. ml \in Seq(Frames)
  <2>1. DOMAIN ql = 1 .. Len(ql) /\ Len(ql) \in Nat
    BY <1>1
  <2>2. ml = [i \in 1 .. Len(ql) |-> ml[i]] /\ \A i \in 1 .. Len(ql) : ml[i] \in Frames
    BY <1>2, <1>8, <2>1
  <2> QED BY <2>1, <2>2
<1>10. \A gd, m : FramesOf(ml, gd, m) = FramesOf(ql, gd, m)
  BY <1>8 DEF FramesOf
<1>11. ASSUME NEW gd, NEW m, m # root \/ (\A c \in db_[t] : gd # IndexFd(t, c))
       PROVE  SamePage(pl, ml, gd, m)
  <2>1. SamePage(pl, ql, gd, m)
    BY <1>1, <1>11 DEF KeepsAllButRoots, root
  <2>2. ASSUME NEW i \in FramesOf(ql, gd, m) PROVE i \in DOMAIN ql /\ i \notin K
    <3>1. i \in DOMAIN ql /\ ql[i].fd = gd /\ ql[i].page = m
      BY DEF FramesOf
    <3>2. ASSUME NEW c \in db_[t] PROVE i # FrameOf(ql, IndexFd(t, c), root)
      BY <1>5, <1>11, <3>1 DEF FramesOf
    <3> QED BY <1>4, <3>1, <3>2
  <2>3. \A i \in FramesOf(ql, gd, m) : ml[i].data = ql[i].data
    BY <1>8, <2>2
  <2> QED BY <1>10, <2>1, <2>3 DEF SamePage
<1>12. ASSUME NEW c \in db_[t], NEW rs,
              OwnPage(pl, files, IxPath(t, c), IndexFd(t, c), root, rs)
       PROVE  OwnPage(ml, files, IxPath(t, c), IndexFd(t, c), root, rs \cup {r})
  <2> DEFINE fd == IndexFd(t, c)
             i == FrameOf(ql, fd, root)
  <2>1. OwnPage(ql, files, IxPath(t, c), fd, root, rs) /\ InPool(ql, fd, root)
    BY <1>1, <1>12
  <2>2. i \in K /\ i \in DOMAIN ql
    BY <1>3, <1>5 DEF FramesOf
  <2>3. InPool(ml, fd, root) /\ FrameOf(ml, fd, root) = i
    BY <1>10, <2>1 DEF InPool, FrameOf
  <2> HIDE DEF fd, i
  <2>4. Data(ql, files, IxPath(t, c), fd, root) = ql[i].data
    BY <2>1 DEF Data, i
  <2>5. Data(ml, files, IxPath(t, c), fd, root) = ml[i].data
    BY <2>3 DEF Data
  <2>6. ml[i].data.rows = rs \cup {r}
    BY <1>8, <2>1, <2>2, <2>4 DEF OwnPage
  <2>7. Single(ml, fd, root)
    BY <1>10, <2>1 DEF OwnPage, Single
  <2> QED BY <2>5, <2>6, <2>7 DEF OwnPage, fd
<1>13. KeepsAllButRoots(pl, ml, t)
  BY <1>11 DEF KeepsAllButRoots, root
<1> QED BY <1>9, <1>12, <1>13 DEF ml, root

-----------------------------------------------------------------------------
(* Records and entries                                                     *)

Handles == [fd : Fds, num_pages : Nat, own : BOOLEAN]

RowsType ==
    /\ pool \in Seq(Frames)
    /\ \A p \in DOMAIN files : files[p] \in [Pages -> PageType]
    /\ \A p \in DOMAIN handles : handles[p] \in Handles

\* While the server runs: a table that was opened on a fresh descriptor has no
\* page yet, or one page with its records; its indexes have entries for them.
OwnTable(t) ==
    LET h == handles[TabPath(t)]
    IN h.own => IF h.num_pages = 1
                THEN rows[t] = {} /\ ~InPool(pool, h.fd, FIRST_RECORD_PAGE)
                ELSE OwnPage(pool, files, TabPath(t), h.fd, FIRST_RECORD_PAGE, rows[t])

OwnIndex(t, c) ==
    handles[IxPath(t, c)].own =>
        OwnPage(pool, files, IxPath(t, c), IndexFd(t, c), IX_INIT_ROOT_PAGE, rows[t])

OwnAll ==
    up => /\ DOMAIN rows = DOMAIN db_ /\ intact = {}
          /\ \A t \in DOMAIN db_ : OwnTable(t) /\ \A c \in db_[t] : OwnIndex(t, c)

\* After close_db: the files it saved hold the records and the entries.
SavedTable(t) ==
    LET f == files[TabPath(t)]
    IN TabPath(t) \in intact =>
          /\ t \in DOMAIN rows
          /\ f[FILE_HDR_PAGE].num_pages = 1 => rows[t] = {}
          /\ f[FILE_HDR_PAGE].num_pages # 1 => f[FIRST_RECORD_PAGE].rows = rows[t]

SavedIndex(t, c) ==
    IxPath(t, c) \in intact =>
        t \in DOMAIN rows /\ files[IxPath(t, c)][IX_INIT_ROOT_PAGE].rows = rows[t]

SavedAll ==
    \A t \in DOMAIN ReadMeta(meta) :
        SavedTable(t) /\ \A c \in ReadMeta(meta)[t] : SavedIndex(t, c)

RowsInv == RowsType /\ OwnAll /\ SavedAll

\* What a running server has of a table and of an index.
LEMMA RunningFacts ==
    ASSUME CatalogInv, RowsType, up
    PROVE  /\ DOMAIN handles = FilesOf(db_) /\ FilesOf(db_) \subseteq DOMAIN files
           /\ \A p \in FilesOf(db_) : handles[p] \in Handles /\ files[p] \in [Pages -> PageType]
           /\ \A p, q \in FilesOf(db_) : handles[p].fd = handles[q].fd => p = q
           /\ \A fd \in UnusedFds, p \in FilesOf(db_) : fd \in Fds /\ handles[p].fd # fd
           /\ \A t \in DOMAIN db_ :
                 /\ TabPath(t) \in FilesOf(db_) /\ db_[t] \subseteq Cols /\ t \in Tables
                 /\ \A c \in db_[t] : IxPath(t, c) \in FilesOf(db_) /\ IxPath(t, c) # TabPath(t)
<1>1. HandlesOf(FilesOf(db_), handles, path2fd_) /\ FilesOf(db_) \subseteq DOMAIN files
      /\ db_ \in Catalogs
  BY DEF CatalogInv
<1>2. /\ DOMAIN handles = FilesOf(db_) /\ IsInjective(path2fd_)
      /\ path2fd_ = [p \in FilesOf(db_) |-> handles[p].fd]
  BY <1>1 DEF HandlesOf
<1>3. \A p, q \in FilesOf(db_) : handles[p].fd = handles[q].fd => p = q
  BY <1>2 DEF IsInjective
<1>4. \A fd \in UnusedFds, p \in FilesOf(db_) : fd \in Fds /\ handles[p].fd # fd
  BY <1>2 DEF UnusedFds, Range
<1>5. \A t \in DOMAIN db_ : db_[t] \subseteq Cols /\ t \in Tables
  BY <1>1, CatalogFacts
<1>6. \A t \in DOMAIN db_ :
         /\ TabPath(t) \in FilesOf(db_)
         /\ \A c \in db_[t] : IxPath(t, c) \in FilesOf(db_) /\ IxPath(t, c) # TabPath(t)
  BY <1>5, FilesOfMembers, PathsDiffer
<1>7. \A p \in FilesOf(db_) : handles[p] \in Handles /\ files[p] \in [Pages -> PageType]
  BY <1>1, <1>2 DEF RowsType
<1> QED BY <1>1, <1>2, <1>3, <1>4, <1>5, <1>6, <1>7

LEMMA SamePageReflexive ==
    ASSUME NEW pl, NEW fd, NEW n PROVE SamePage(pl, pl, fd, n)
BY DEF SamePage

LEMMA SamePageTransitive ==
    ASSUME NEW pl, NEW ql, NEW ml, NEW fd, NEW n, SamePage(pl, ql, fd, n), SamePage(ql, ml, fd, n)
    PROVE  SamePage(pl, ml, fd, n)
BY DEF SamePage

\* Only the contents of the file itself matter.
LEMMA OwnPageFile ==
    ASSUME NEW pl, NEW fs, NEW gs, NEW p, NEW fd, NEW n, NEW rs, fs[p] = gs[p]
    PROVE  OwnPage(pl, fs, p, fd, n, rs) <=> OwnPage(pl, gs, p, fd, n, rs)
BY DEF OwnPage, Data

\* A step that leaves a table's file, handle, records and page alone.
LEMMA KeepTable ==
    ASSUME pool \in Seq(Frames), NEW t, OwnTable(t), rows'[t] = rows[t],
           handles'[TabPath(t)] = handles[TabPath(t)], files'[TabPath(t)] = files[TabPath(t)],
           SamePage(pool, pool', handles[TabPath(t)].fd, FIRST_RECORD_PAGE)
    PROVE  OwnTable(t)'
<1> DEFINE p == TabPath(t)
           fd == handles[p].fd
           n == FIRST_RECORD_PAGE
<1>1. /\ InPool(pool', fd, n) <=> InPool(pool, fd, n)
      /\ \A fs, q, rs : OwnPage(pool', fs, q, fd, n, rs) <=> OwnPage(pool, fs, q, fd, n, rs)
  BY SamePageFacts
<1>2. \A rs : OwnPage(pool', files', p, fd, n, rs) <=> OwnPage(pool', files, p, fd, n, rs)
  BY OwnPageFile
<1> QED BY <1>1, <1>2 DEF OwnTable

LEMMA KeepIndex ==
    ASSUME pool \in Seq(Frames), NEW t, NEW c, OwnIndex(t, c), rows'[t] = rows[t],
           handles'[IxPath(t, c)] = handles[IxPath(t, c)],
           files'[IxPath(t, c)] = files[IxPath(t, c)],
           SamePage(pool, pool', IndexFd(t, c), IX_INIT_ROOT_PAGE)
    PROVE  OwnIndex(t, c)'
<1> DEFINE p == IxPath(t, c)
           fd == IndexFd(t, c)
           n == IX_INIT_ROOT_PAGE
<1>1. \A fs, q, rs : OwnPage(pool', fs, q, fd, n, rs) <=> OwnPage(pool, fs, q, fd, n, rs)
  BY SamePageFacts
<1>2. \A rs : OwnPage(pool', files', p, fd, n, rs) <=> OwnPage(pool', files, p, fd, n, rs)
  BY OwnPageFile
<1>3. IndexFd(t, c)' = fd
  BY DEF IndexFd
<1> QED BY <1>1, <1>2, <1>3 DEF OwnIndex

\* db.meta and intact say nothing of the files while the server runs.
LEMMA NothingSaved ==
    ASSUME intact' = {}
    PROVE  SavedAll'
BY DEF SavedAll, SavedTable, SavedIndex

LEMMA RowsInitial == Init => RowsInv
<1> SUFFICES ASSUME Init PROVE RowsInv
  OBVIOUS
<1>1. ~up /\ files = <<>> /\ handles = <<>> /\ pool = <<>> /\ intact = {}
  BY DEF Init
<1>2. RowsType
  BY <1>1, EmptyCatalog DEF RowsType
<1>3. SavedAll
  BY <1>1 DEF SavedAll, SavedTable, SavedIndex
<1> QED BY <1>1, <1>2, <1>3 DEF RowsInv, OwnAll

\* The process ends without close_db.
LEMMA RowsStop ==
    ASSUME RowsInv, Stopped, intact' = {}, DOMAIN files' \subseteq DOMAIN files,
           \A p \in DOMAIN files' : files'[p] = files[p]
    PROVE  RowsInv'
<1>1. ~up' /\ handles' = <<>> /\ pool' = <<>>
  BY DEF Stopped
<1>2. RowsType'
  BY <1>1, EmptyCatalog DEF RowsInv, RowsType
<1>3. SavedAll'
  BY NothingSaved
<1> QED BY <1>1, <1>2, <1>3 DEF RowsInv, OwnAll

LEMMA RowsCrash ==
    ASSUME RowsInv, Crash
    PROVE  RowsInv'
BY RowsStop DEF Crash, disk

LEMMA RowsCrashInDropTable ==
    ASSUME RowsInv, NEW t \in Tables, CrashInDropTable(t)
    PROVE  RowsInv'
<1>1. PICK X : files' = Without(files, X)
  BY DEF CrashInDropTable, destroy_file
<1>2. DOMAIN Without(files, X) = DOMAIN files \ X
      /\ \A q \in DOMAIN files \ X : Without(files, X)[q] = files[q]
  BY WithoutEffect
<1>3. DOMAIN files' \subseteq DOMAIN files /\ \A p \in DOMAIN files' : files'[p] = files[p]
  BY <1>1, <1>2
<1>4. Stopped /\ intact' = {}
  BY DEF CrashInDropTable
<1> QED BY <1>3, <1>4, RowsStop

LEMMA RowsBoot ==
    ASSUME RowsInv, Boot
    PROVE  RowsInv'
<1> DEFINE tabs == ReadMeta(meta)
<1>1. /\ FilesOf(tabs) \subseteq DOMAIN files /\ up' /\ db_' = tabs /\ files' = files
      /\ pool' = <<>> /\ intact' = {} /\ FilesOfMeta = FilesOf(tabs)
      /\ rows' = [t \in DOMAIN tabs |-> IF t \in DOMAIN rows THEN rows[t] ELSE {}]
  BY DEF Boot, open_db, disk, FilesOfMeta
<1>2. PICK fds \in [FilesOf(tabs) -> Fds] :
         handles' = [p \in FilesOf(tabs) |->
                        [fd |-> fds[p], num_pages |-> files[p][FILE_HDR_PAGE].num_pages,
                         own |-> p \in intact]]
  BY <1>1 DEF Boot, open_db, Injection
<1> HIDE DEF tabs
<1>3. /\ DOMAIN handles' = FilesOf(tabs)
      /\ \A p \in FilesOf(tabs) : /\ handles'[p].own => p \in intact
                                  /\ handles'[p].num_pages = files[p][FILE_HDR_PAGE].num_pages
                                  /\ handles'[p].own \in BOOLEAN /\ handles'[p].fd \in Fds
  <2>1. DOMAIN handles' = FilesOf(tabs)
    BY <1>2
  <2>2. ASSUME NEW p \in FilesOf(tabs)
        PROVE  /\ handles'[p].own => p \in intact
               /\ handles'[p].num_pages = files[p][FILE_HDR_PAGE].num_pages
               /\ handles'[p].own \in BOOLEAN /\ handles'[p].fd \in Fds
    <3>1. fds[p] \in Fds
      OBVIOUS
    <3> DEFINE b == p \in intact
    <3>2. handles'[p] = [fd |-> fds[p], num_pages |-> files[p][FILE_HDR_PAGE].num_pages,
                         own |-> b]
      BY <1>2
    <3>3. b \in BOOLEAN
      OBVIOUS
    <3> HIDE DEF b
    <3>4. handles'[p].own = b
      BY <3>2
    <3>5. handles'[p].num_pages = files[p][FILE_HDR_PAGE].num_pages /\ handles'[p].fd = fds[p]
      BY <3>2
    <3> QED BY <3>1, <3>3, <3>4, <3>5, Zenon DEF b
  <2> QED BY <2>1, <2>2
<1>4. RowsType'
  <2>1. ASSUME NEW p \in FilesOf(tabs) PROVE handles'[p] \in Handles
    <3>1. files[p] \in [Pages -> PageType] /\ FILE_HDR_PAGE \in Pages
      BY <1>1 DEF RowsInv, RowsType, Pages
    <3>2. files[p][FILE_HDR_PAGE].num_pages \in Nat
      BY <3>1 DEF PageType
    <3> QED BY <1>2, <3>2 DEF Handles
  <2> QED BY <1>1, <1>3, <2>1 DEF RowsInv, RowsType
<1>5. \A fd, n : ~InPool(pool', fd, n) /\ Single(pool', fd, n)
  BY <1>1 DEF InPool, FramesOf, Single
<1>6. \A fs, p, fd, n : Data(pool', fs, p, fd, n) = fs[p][n]
  BY <1>5 DEF Data
<1>7. ASSUME NEW t \in DOMAIN tabs PROVE OwnTable(t)'
  <2>1. TabPath(t) \in FilesOf(tabs)
    BY FilesOfMembers
  <2>2. SavedTable(t)
    BY DEF RowsInv, SavedAll, tabs
  <2> SUFFICES ASSUME handles'[TabPath(t)].own
               PROVE  IF handles'[TabPath(t)].num_pages = 1
                      THEN rows'[t] = {} /\ ~InPool(pool', handles'[TabPath(t)].fd, FIRST_RECORD_PAGE)
                      ELSE OwnPage(pool', files', TabPath(t), handles'[TabPath(t)].fd,
                                   FIRST_RECORD_PAGE, rows'[t])
    BY DEF OwnTable
  <2>3. TabPath(t) \in intact
    BY <1>3, <2>1
  <2>4. t \in DOMAIN rows /\ rows'[t] = rows[t]
    BY <1>1, <2>2, <2>3 DEF SavedTable
  <2> QED BY <1>1, <1>3, <1>5, <1>6, <2>1, <2>2, <2>3, <2>4 DEF SavedTable, OwnPage
<1>8. ASSUME NEW t \in DOMAIN tabs, NEW c \in tabs[t] PROVE OwnIndex(t, c)'
  <2>1. IxPath(t, c) \in FilesOf(tabs)
    BY FilesOfMembers
  <2>2. SavedIndex(t, c)
    BY DEF RowsInv, SavedAll, tabs
  <2> SUFFICES ASSUME handles'[IxPath(t, c)].own
               PROVE  OwnPage(pool', files', IxPath(t, c), IndexFd(t, c)', IX_INIT_ROOT_PAGE, rows'[t])
    BY DEF OwnIndex
  <2>3. IxPath(t, c) \in intact
    BY <1>3, <2>1
  <2>4. t \in DOMAIN rows /\ rows'[t] = rows[t]
    BY <1>1, <2>2, <2>3 DEF SavedIndex
  <2> QED BY <1>1, <1>5, <1>6, <2>2, <2>3, <2>4 DEF SavedIndex, OwnPage
<1>9. OwnAll'
  BY <1>1, <1>7, <1>8 DEF OwnAll
<1> QED BY <1>1, <1>4, <1>9, NothingSaved DEF RowsInv


LEMMA ReadMetaAfter ==
    ASSUME db_ \in Catalogs, meta' = WriteMeta(db_) PROVE ReadMeta(meta)' = db_
BY MetaRoundTrip

LEMMA LastFrame ==
    ASSUME NEW pl \in Seq(Frames), NEW fd, NEW n, InPool(pl, fd, n)
    PROVE  Max(FramesOf(pl, fd, n)) \in DOMAIN pl
<1> DEFINE S == FramesOf(pl, fd, n)
           T == {Len(pl) - i : i \in S}
<1>1. S # {} /\ S \subseteq DOMAIN pl /\ DOMAIN pl = 1 .. Len(pl) /\ Len(pl) \in Nat
  BY DEF InPool, FramesOf
<1> HIDE DEF S
<1>2. T \subseteq Nat /\ T # {}
  BY <1>1
<1>3. PICK x \in T : \A y \in T : x <= y
  BY <1>2, LeastNatural
<1>4. PICK i \in S : x = Len(pl) - i
  OBVIOUS
<1>5. ASSUME NEW j \in S PROVE i >= j
  <2>1. Len(pl) - j \in T
    OBVIOUS
  <2>2. Len(pl) - i <= Len(pl) - j /\ i \in Nat /\ j \in Nat
    BY <1>1, <1>3, <1>4, <2>1
  <2> QED BY <1>1, <2>2
<1>6. Max(S) \in S
  BY <1>5 DEF Max
<1> QED BY <1>1, <1>6 DEF S

\* What close_file and close_index leave on disk.
LEMMA ClosedFacts ==
    ASSUME NEW pl \in Seq(Frames), NEW h \in Handles, NEW file \in [Pages -> PageType]
    PROVE  /\ Closed(pl, h, file) \in [Pages -> PageType]
           /\ ~InPool(pl, h.fd, FILE_HDR_PAGE)
                => Closed(pl, h, file)[FILE_HDR_PAGE].num_pages = h.num_pages
           /\ \A n \in Pages : n # FILE_HDR_PAGE /\ Single(pl, h.fd, n) =>
                \A fs, p : fs[p] = file => Closed(pl, h, file)[n] = Data(pl, fs, p, h.fd, n)
<1> DEFINE hdr == HdrPage(h.num_pages)
           mid == [file EXCEPT ![FILE_HDR_PAGE] = hdr]
           new == Closed(pl, h, file)
<1>1. h.num_pages \in Nat
  BY DEF Handles
<1>2. hdr \in PageType /\ hdr.num_pages = h.num_pages
  BY <1>1 DEF HdrPage, ZeroPage, PageType
<1> HIDE DEF hdr
<1>3. FILE_HDR_PAGE \in Pages
  BY DEF Pages
<1>4. /\ mid \in [Pages -> PageType] /\ mid[FILE_HDR_PAGE] = hdr
      /\ \A n \in Pages : n # FILE_HDR_PAGE => mid[n] = file[n]
  BY <1>2, <1>3
<1>5. new = Flushed(pl, h.fd, mid)
  BY DEF Closed, hdr
<1> HIDE DEF mid, new
<1>6. new = [n \in Pages |-> IF InPool(pl, h.fd, n) THEN pl[Max(FramesOf(pl, h.fd, n))].data ELSE mid[n]]
  BY <1>5 DEF Flushed
<1>7. ASSUME NEW n \in Pages, InPool(pl, h.fd, n)
      PROVE  pl[Max(FramesOf(pl, h.fd, n))].data \in PageType
  <2>1. Max(FramesOf(pl, h.fd, n)) \in DOMAIN pl
    BY <1>7, LastFrame
  <2>2. pl[Max(FramesOf(pl, h.fd, n))] \in Frames
    BY <2>1
  <2> QED BY <2>2 DEF Frames
<1>8. new \in [Pages -> PageType]
  BY <1>4, <1>6, <1>7
<1>9. ~InPool(pl, h.fd, FILE_HDR_PAGE) => new[FILE_HDR_PAGE].num_pages = h.num_pages
  BY <1>2, <1>3, <1>4, <1>6
<1>10. ASSUME NEW n \in Pages, n # FILE_HDR_PAGE, Single(pl, h.fd, n), NEW fs, NEW p, fs[p] = file
       PROVE  new[n] = Data(pl, fs, p, h.fd, n)
  <2>1. CASE InPool(pl, h.fd, n)
    <3>1. Max(FramesOf(pl, h.fd, n)) = FrameOf(pl, h.fd, n)
      BY <1>10, <2>1, FrameOfFacts
    <3> QED BY <1>6, <2>1, <3>1 DEF Data
  <2>2. CASE ~InPool(pl, h.fd, n)
    BY <1>4, <1>6, <1>10, <2>2 DEF Data
  <2> QED BY <2>1, <2>2
<1> QED BY <1>8, <1>9, <1>10 DEF new

LEMMA RowsClose ==
    ASSUME CatalogInv, RowsInv, close_db
    PROVE  RowsInv'
<1>1. /\ up /\ meta' = WriteMeta(db_) /\ intact' = Saved /\ rows' = rows
      /\ ~up' /\ handles' = <<>> /\ pool' = <<>>
      /\ files' = [p \in DOMAIN files |->
                    IF p \in DOMAIN handles THEN Closed(pool, handles[p], files[p]) ELSE files[p]]
  BY DEF close_db, Stopped
<1>2. RowsType /\ OwnAll /\ pool \in Seq(Frames)
  BY DEF RowsInv, RowsType
<1>3. /\ DOMAIN handles = FilesOf(db_) /\ FilesOf(db_) \subseteq DOMAIN files
      /\ \A p \in FilesOf(db_) : handles[p] \in Handles /\ files[p] \in [Pages -> PageType]
      /\ \A t \in DOMAIN db_ :
            TabPath(t) \in FilesOf(db_) /\ \A c \in db_[t] : IxPath(t, c) \in FilesOf(db_)
  BY <1>1, <1>2, RunningFacts
<1>4. /\ DOMAIN files' = DOMAIN files
      /\ \A p \in FilesOf(db_) : files'[p] = Closed(pool, handles[p], files[p])
      /\ \A p \in DOMAIN files \ FilesOf(db_) : files'[p] = files[p]
  BY <1>1, <1>3
<1>5. RowsType'
  <2>1. ASSUME NEW p \in DOMAIN files PROVE files'[p] \in [Pages -> PageType]
    <3>1. CASE p \in FilesOf(db_)
      BY <1>2, <1>3, <1>4, <3>1, ClosedFacts
    <3>2. CASE p \notin FilesOf(db_)
      <4>1. files[p] \in [Pages -> PageType]
        BY <1>2 DEF RowsType
      <4> QED BY <1>4, <3>2, <4>1
    <3> QED BY <3>1, <3>2
  <2> QED BY <1>1, <1>4, <2>1, EmptyCatalog DEF RowsType
<1>6. ReadMeta(meta)' = db_ /\ DOMAIN rows = DOMAIN db_
  <2>1. db_ \in Catalogs
    BY DEF CatalogInv
  <2> QED BY <1>1, <1>2, <2>1, ReadMetaAfter DEF OwnAll
<1>7. \A p \in Saved : p \in FilesOf(db_) /\ handles[p].own
                        /\ ~InPool(pool, handles[p].fd, FILE_HDR_PAGE)
  BY <1>3 DEF Saved
<1>8. FIRST_RECORD_PAGE \in Pages /\ IX_INIT_ROOT_PAGE \in Pages
      /\ FIRST_RECORD_PAGE # FILE_HDR_PAGE /\ IX_INIT_ROOT_PAGE # FILE_HDR_PAGE
  BY DEF Pages, FIRST_RECORD_PAGE, IX_INIT_ROOT_PAGE, FILE_HDR_PAGE
<1>9. ASSUME NEW t \in DOMAIN db_, TabPath(t) \in Saved
      PROVE  /\ files'[TabPath(t)][FILE_HDR_PAGE].num_pages = 1 => rows[t] = {}
             /\ files'[TabPath(t)][FILE_HDR_PAGE].num_pages # 1
                   => files'[TabPath(t)][FIRST_RECORD_PAGE].rows = rows[t]
  <2> DEFINE p == TabPath(t)
             h == handles[p]
  <2>1. p \in FilesOf(db_) /\ h.own /\ ~InPool(pool, h.fd, FILE_HDR_PAGE)
    BY <1>7, <1>9
  <2>2. h \in Handles /\ files[p] \in [Pages -> PageType] /\ files'[p] = Closed(pool, h, files[p])
    BY <1>3, <1>4, <2>1
  <2>3. OwnTable(t)
    BY <1>1, <1>2 DEF OwnAll
  <2>4. IF h.num_pages = 1 THEN rows[t] = {}
        ELSE OwnPage(pool, files, p, h.fd, FIRST_RECORD_PAGE, rows[t])
    BY <2>1, <2>3 DEF OwnTable
  <2> HIDE DEF h, p
  <2>5. Closed(pool, h, files[p])[FILE_HDR_PAGE].num_pages = h.num_pages
    BY <1>2, <2>1, <2>2, ClosedFacts
  <2>6. Single(pool, h.fd, FIRST_RECORD_PAGE) =>
           Closed(pool, h, files[p])[FIRST_RECORD_PAGE] = Data(pool, files, p, h.fd, FIRST_RECORD_PAGE)
    BY <1>2, <1>8, <2>2, ClosedFacts
  <2>7. /\ files'[p][FILE_HDR_PAGE].num_pages = 1 => rows[t] = {}
        /\ files'[p][FILE_HDR_PAGE].num_pages # 1 => files'[p][FIRST_RECORD_PAGE].rows = rows[t]
    BY <2>2, <2>4, <2>5, <2>6 DEF OwnPage
  <2> QED BY <2>7 DEF p
<1>10. ASSUME NEW t \in DOMAIN db_, NEW c \in db_[t], IxPath(t, c) \in Saved
       PROVE  files'[IxPath(t, c)][IX_INIT_ROOT_PAGE].rows = rows[t]
  <2> DEFINE p == IxPath(t, c)
             h == handles[p]
  <2>1. p \in FilesOf(db_) /\ h.own
    BY <1>7, <1>10
  <2>2. h \in Handles /\ files[p] \in [Pages -> PageType] /\ files'[p] = Closed(pool, h, files[p])
    BY <1>3, <1>4, <2>1
  <2>3. OwnIndex(t, c)
    BY <1>1, <1>2 DEF OwnAll
  <2>4. OwnPage(pool, files, p, h.fd, IX_INIT_ROOT_PAGE, rows[t])
    BY <2>1, <2>3 DEF OwnIndex, IndexFd
  <2> HIDE DEF h, p
  <2>5. Single(pool, h.fd, IX_INIT_ROOT_PAGE) =>
           Closed(pool, h, files[p])[IX_INIT_ROOT_PAGE] = Data(pool, files, p, h.fd, IX_INIT_ROOT_PAGE)
    BY <1>2, <1>8, <2>2, ClosedFacts
  <2>6. files'[p][IX_INIT_ROOT_PAGE].rows = rows[t]
    BY <2>2, <2>4, <2>5 DEF OwnPage
  <2> QED BY <2>6 DEF p
<1>11. SavedAll'
  <2>1. ASSUME NEW t \in DOMAIN db_ PROVE SavedTable(t)'
    BY <1>1, <1>6, <1>9 DEF SavedTable
  <2>2. ASSUME NEW t \in DOMAIN db_, NEW c \in db_[t] PROVE SavedIndex(t, c)'
    BY <1>1, <1>6, <1>10 DEF SavedIndex
  <2> QED BY <1>6, <2>1, <2>2 DEF SavedAll
<1> QED BY <1>1, <1>5, <1>11 DEF RowsInv, OwnAll

\* A statement of a running server: what is left to show of RowsInv'.
LEMMA RowsStatement ==
    ASSUME RowsInv, up, intact' = intact, RowsType', DOMAIN rows' = DOMAIN db_',
           \A t \in DOMAIN db_' : OwnTable(t)' /\ \A c \in db_'[t] : OwnIndex(t, c)'
    PROVE  RowsInv'
<1>1. intact' = {}
  BY DEF RowsInv, OwnAll
<1>2. SavedAll'
  BY <1>1, NothingSaved
<1> QED BY <1>1, <1>2 DEF RowsInv, OwnAll

\* A statement that leaves the pool and the records of the tables it keeps alone.
LEMMA KeepFiles ==
    ASSUME pool \in Seq(Frames), pool' = pool, NEW t, rows'[t] = rows[t]
    PROVE  /\ OwnTable(t) /\ handles'[TabPath(t)] = handles[TabPath(t)]
                /\ files'[TabPath(t)] = files[TabPath(t)] => OwnTable(t)'
           /\ \A c : OwnIndex(t, c) /\ handles'[IxPath(t, c)] = handles[IxPath(t, c)]
                /\ files'[IxPath(t, c)] = files[IxPath(t, c)] => OwnIndex(t, c)'
<1>1. \A fd, n : SamePage(pool, pool', fd, n)
  BY SamePageReflexive
<1> QED BY <1>1, KeepTable, KeepIndex

LEMMA NewFileType ==
    ASSUME NEW n \in Nat
    PROVE  /\ NewFile(n) \in [Pages -> PageType]
           /\ \A m \in Pages : m # FILE_HDR_PAGE => NewFile(n)[m].rows = {}
<1>1. HdrPage(n) \in PageType /\ ZeroPage \in PageType /\ ZeroPage.rows = {}
  BY DEF HdrPage, ZeroPage, PageType
<1> QED BY <1>1 DEF NewFile

\* The types after a file is created and opened ...
LEMMA OpenType ==
    ASSUME RowsType, up, CatalogInv, NEW p, NEW n \in Nat, NEW fd \in UnusedFds, NEW own \in BOOLEAN,
           files' = create_file(files, p, n),
           handles' = With(handles, p, [fd |-> fd, num_pages |-> n, own |-> own]),
           pool' \in Seq(Frames)
    PROVE  /\ RowsType'
           /\ handles'[p].fd = fd /\ handles'[p].num_pages = n /\ handles'[p].own = own
           /\ files'[p] = NewFile(n)
           /\ \A q \in DOMAIN handles : q # p => handles'[q] = handles[q]
           /\ \A q \in DOMAIN files : q # p => files'[q] = files[q]
<1> DEFINE h == [fd |-> fd, num_pages |-> n, own |-> own]
<1>1. h.fd = fd /\ h.num_pages = n /\ h.own = own /\ h \in Handles
  BY DEF UnusedFds, Handles
<1> HIDE DEF h
<1>2. /\ DOMAIN handles' = DOMAIN handles \cup {p} /\ handles'[p] = h
      /\ \A q \in DOMAIN handles : q # p => handles'[q] = handles[q]
  BY DEF With, h
<1>3. /\ DOMAIN files' = DOMAIN files \cup {p} /\ files'[p] = NewFile(n)
      /\ \A q \in DOMAIN files : q # p => files'[q] = files[q]
  BY DEF With, create_file
<1>4. NewFile(n) \in [Pages -> PageType]
  BY NewFileType
<1>5. \A q \in DOMAIN files' : files'[q] \in [Pages -> PageType]
  BY <1>3, <1>4 DEF RowsType
<1>6. \A q \in DOMAIN handles' : handles'[q] \in Handles
  BY <1>1, <1>2 DEF RowsType
<1> QED BY <1>1, <1>2, <1>3, <1>5, <1>6 DEF RowsType

\* ... and after files are closed and destroyed.
LEMMA CloseType ==
    ASSUME RowsType, NEW X, files' = destroy_file(files, X), handles' = Without(handles, X),
           pool' = pool
    PROVE  /\ RowsType'
           /\ \A q \in DOMAIN handles \ X : handles'[q] = handles[q]
           /\ \A q \in DOMAIN files \ X : files'[q] = files[q]
<1>1. /\ DOMAIN handles' = DOMAIN handles \ X
      /\ \A q \in DOMAIN handles \ X : handles'[q] = handles[q]
  BY WithoutEffect
<1>2. /\ DOMAIN files' = DOMAIN files \ X
      /\ \A q \in DOMAIN files \ X : files'[q] = files[q]
  BY WithoutEffect DEF destroy_file
<1> QED BY <1>1, <1>2 DEF RowsType

LEMMA RowsCreateTable ==
    ASSUME CatalogInv, RowsInv, NEW t \in Tables, create_table(t), ~UNCHANGED vars
    PROVE  RowsInv'
<1> DEFINE p == TabPath(t)
<1>1. /\ up /\ t \notin DOMAIN db_ /\ files' = create_file(files, p, 1)
      /\ db_' = With(db_, t, {}) /\ rows' = With(rows, t, {}) /\ pool' = pool /\ intact' = intact
  BY DEF create_table, Throw
<1>2. PICK fd \in UnusedFds :
         handles' = With(handles, p, [fd |-> fd, num_pages |-> 1, own |-> Untouched(pool, fd)])
  BY DEF create_table, Throw
<1>3. RowsType /\ OwnAll /\ pool \in Seq(Frames) /\ DOMAIN rows = DOMAIN db_
  BY <1>1 DEF RowsInv, RowsType, OwnAll
<1>4. /\ DOMAIN handles = FilesOf(db_) /\ FilesOf(db_) \subseteq DOMAIN files
      /\ \A u \in DOMAIN db_ :
            /\ TabPath(u) \in FilesOf(db_) /\ db_[u] \subseteq Cols
            /\ \A c \in db_[u] : IxPath(u, c) \in FilesOf(db_)
  BY <1>1, <1>3, RunningFacts
<1>5. /\ DOMAIN db_' = DOMAIN db_ \cup {t} /\ db_'[t] = {} /\ \A u \in DOMAIN db_ : u # t => db_'[u] = db_[u]
  BY <1>1 DEF With
<1>6. /\ DOMAIN rows' = DOMAIN rows \cup {t} /\ rows'[t] = {} /\ \A u \in DOMAIN rows : u # t => rows'[u] = rows[u]
  BY <1>1 DEF With
<1>7. \A u \in DOMAIN db_ : TabPath(u) # p /\ \A c \in db_[u] : IxPath(u, c) # p
  BY <1>1, <1>4, PathsDiffer
<1> DEFINE own == Untouched(pool, fd)
<1>8. own \in BOOLEAN /\ (own => ~InPool(pool, fd, FIRST_RECORD_PAGE))
  BY DEF Untouched, InPool, FramesOf
<1> HIDE DEF own, p
<1>9. /\ RowsType'
      /\ handles'[p].fd = fd /\ handles'[p].num_pages = 1 /\ handles'[p].own = own
      /\ \A q \in DOMAIN handles : q # p => handles'[q] = handles[q]
      /\ \A q \in DOMAIN files : q # p => files'[q] = files[q]
  <2>1. handles' = With(handles, p, [fd |-> fd, num_pages |-> 1, own |-> own])
    BY <1>2 DEF own
  <2> QED BY <1>1, <1>3, <1>8, <2>1, OpenType
<1>10. OwnTable(t)'
  BY <1>1, <1>6, <1>8, <1>9 DEF OwnTable, p
<1>11. ASSUME NEW u \in DOMAIN db_ PROVE OwnTable(u)' /\ \A c \in db_[u] : OwnIndex(u, c)'
  <2>1. OwnTable(u) /\ \A c \in db_[u] : OwnIndex(u, c)
    BY <1>1, <1>3 DEF OwnAll
  <2>2. rows'[u] = rows[u]
    BY <1>1, <1>3, <1>6
  <2>3. handles'[TabPath(u)] = handles[TabPath(u)] /\ files'[TabPath(u)] = files[TabPath(u)]
    BY <1>4, <1>7, <1>9
  <2>4. \A c \in db_[u] : handles'[IxPath(u, c)] = handles[IxPath(u, c)]
                          /\ files'[IxPath(u, c)] = files[IxPath(u, c)]
    BY <1>4, <1>7, <1>9
  <2> QED BY <1>1, <1>3, <2>1, <2>2, <2>3, <2>4, KeepFiles
<1>12. \A u \in DOMAIN db_' : OwnTable(u)' /\ \A c \in db_'[u] : OwnIndex(u, c)'
  BY <1>5, <1>10, <1>11
<1> QED BY <1>1, <1>3, <1>5, <1>6, <1>9, <1>12, RowsStatement

LEMMA RowsDropTable ==
    ASSUME CatalogInv, RowsInv, NEW t \in Tables, drop_table(t), ~UNCHANGED vars
    PROVE  RowsInv'
<1> DEFINE gone == {TabPath(t)} \cup {IxPath(t, c) : c \in db_[t]}
<1>1. /\ up /\ t \in DOMAIN db_ /\ files' = destroy_file(files, gone)
      /\ handles' = Without(handles, gone) /\ db_' = Without(db_, {t})
      /\ rows' = Without(rows, {t}) /\ pool' = pool /\ intact' = intact
  BY DEF drop_table, Throw
<1>2. RowsType /\ OwnAll /\ pool \in Seq(Frames) /\ DOMAIN rows = DOMAIN db_
  BY <1>1 DEF RowsInv, RowsType, OwnAll
<1>3. /\ DOMAIN handles = FilesOf(db_) /\ FilesOf(db_) \subseteq DOMAIN files
      /\ \A u \in DOMAIN db_ :
            /\ TabPath(u) \in FilesOf(db_) /\ db_[u] \subseteq Cols
            /\ \A c \in db_[u] : IxPath(u, c) \in FilesOf(db_)
  BY <1>1, <1>2, RunningFacts
<1>4. DOMAIN db_' = DOMAIN db_ \ {t} /\ \A u \in DOMAIN db_ \ {t} : db_'[u] = db_[u]
  BY <1>1, WithoutEffect
<1>5. DOMAIN rows' = DOMAIN rows \ {t} /\ \A u \in DOMAIN rows \ {t} : rows'[u] = rows[u]
  BY <1>1, WithoutEffect
<1>6. ASSUME NEW u \in DOMAIN db_ \ {t}
      PROVE  TabPath(u) \notin gone /\ \A c \in db_[u] : IxPath(u, c) \notin gone
  BY <1>1, <1>3, PathsDiffer
<1> HIDE DEF gone
<1>7. /\ RowsType'
      /\ \A q \in DOMAIN handles \ gone : handles'[q] = handles[q]
      /\ \A q \in DOMAIN files \ gone : files'[q] = files[q]
  BY <1>1, <1>2, CloseType
<1>8. ASSUME NEW u \in DOMAIN db_ \ {t} PROVE OwnTable(u)' /\ \A c \in db_[u] : OwnIndex(u, c)'
  <2>1. OwnTable(u) /\ \A c \in db_[u] : OwnIndex(u, c)
    BY <1>1, <1>2 DEF OwnAll
  <2>2. rows'[u] = rows[u]
    BY <1>2, <1>5
  <2>3. handles'[TabPath(u)] = handles[TabPath(u)] /\ files'[TabPath(u)] = files[TabPath(u)]
    BY <1>3, <1>6, <1>7
  <2>4. \A c \in db_[u] : handles'[IxPath(u, c)] = handles[IxPath(u, c)]
                          /\ files'[IxPath(u, c)] = files[IxPath(u, c)]
    BY <1>3, <1>6, <1>7
  <2> QED BY <1>1, <1>2, <2>1, <2>2, <2>3, <2>4, KeepFiles
<1>9. \A u \in DOMAIN db_' : OwnTable(u)' /\ \A c \in db_'[u] : OwnIndex(u, c)'
  BY <1>4, <1>8
<1> QED BY <1>1, <1>2, <1>4, <1>5, <1>7, <1>9, RowsStatement

LEMMA RowsDropIndex ==
    ASSUME CatalogInv, RowsInv, NEW t \in Tables, NEW c \in Cols, drop_index(t, c), ~UNCHANGED vars
    PROVE  RowsInv'
<1> DEFINE gone == {IxPath(t, c)}
<1>1. /\ up /\ t \in DOMAIN db_ /\ c \in db_[t] /\ files' = destroy_file(files, gone)
      /\ handles' = Without(handles, gone) /\ db_' = [db_ EXCEPT ![t] = @ \ {c}]
      /\ rows' = rows /\ pool' = pool /\ intact' = intact
  BY DEF drop_index, Throw
<1>2. RowsType /\ OwnAll /\ pool \in Seq(Frames) /\ DOMAIN rows = DOMAIN db_
  BY <1>1 DEF RowsInv, RowsType, OwnAll
<1>3. /\ DOMAIN handles = FilesOf(db_) /\ FilesOf(db_) \subseteq DOMAIN files
      /\ \A u \in DOMAIN db_ :
            /\ TabPath(u) \in FilesOf(db_) /\ db_[u] \subseteq Cols
            /\ \A d \in db_[u] : IxPath(u, d) \in FilesOf(db_)
  BY <1>1, <1>2, RunningFacts
<1>4. /\ DOMAIN db_' = DOMAIN db_
      /\ \A u \in DOMAIN db_ : db_'[u] \subseteq db_[u]
      /\ \A u \in DOMAIN db_ : \A d \in db_'[u] : u # t \/ d # c
  BY <1>1
<1>5. ASSUME NEW u \in DOMAIN db_
      PROVE  TabPath(u) \notin gone /\ \A d \in db_'[u] : IxPath(u, d) \notin gone
  BY <1>3, <1>4, PathsDiffer
<1> HIDE DEF gone
<1>7. /\ RowsType'
      /\ \A q \in DOMAIN handles \ gone : handles'[q] = handles[q]
      /\ \A q \in DOMAIN files \ gone : files'[q] = files[q]
  BY <1>1, <1>2, CloseType
<1>8. ASSUME NEW u \in DOMAIN db_ PROVE OwnTable(u)' /\ \A d \in db_'[u] : OwnIndex(u, d)'
  <2>1. OwnTable(u) /\ \A d \in db_'[u] : OwnIndex(u, d)
    BY <1>1, <1>2, <1>4 DEF OwnAll
  <2>3. handles'[TabPath(u)] = handles[TabPath(u)] /\ files'[TabPath(u)] = files[TabPath(u)]
    BY <1>3, <1>5, <1>7
  <2>4. \A d \in db_'[u] : handles'[IxPath(u, d)] = handles[IxPath(u, d)]
                           /\ files'[IxPath(u, d)] = files[IxPath(u, d)]
    BY <1>3, <1>4, <1>5, <1>7
  <2> QED BY <1>1, <1>2, <2>1, <2>3, <2>4, KeepFiles
<1>9. \A u \in DOMAIN db_' : OwnTable(u)' /\ \A d \in db_'[u] : OwnIndex(u, d)'
  BY <1>4, <1>8
<1> QED BY <1>1, <1>2, <1>4, <1>7, <1>9, RowsStatement

LEMMA PageNumbers ==
    /\ FILE_HDR_PAGE \in Pages /\ FIRST_RECORD_PAGE \in Pages /\ IX_INIT_ROOT_PAGE \in Pages
    /\ FIRST_RECORD_PAGE # FILE_HDR_PAGE /\ IX_INIT_ROOT_PAGE # FILE_HDR_PAGE
    /\ FIRST_RECORD_PAGE # IX_INIT_ROOT_PAGE
BY DEF Pages, FIRST_RECORD_PAGE, IX_INIT_ROOT_PAGE, FILE_HDR_PAGE

LEMMA DataType ==
    ASSUME NEW pl \in Seq(Frames), NEW fs, NEW p, fs[p] \in [Pages -> PageType],
           NEW fd, NEW n \in Pages
    PROVE  Data(pl, fs, p, fd, n).rows \subseteq Records
<1>1. CASE InPool(pl, fd, n)
  <2>1. pl[FrameOf(pl, fd, n)].data.rows \in SUBSET Records
    BY <1>1, FrameRows
  <2> QED BY <1>1, <2>1 DEF Data
<1>2. CASE ~InPool(pl, fd, n)
  <2>1. fs[p][n] \in PageType
    OBVIOUS
  <2> QED BY <1>2, <2>1 DEF Data, PageType
<1> QED BY <1>1, <1>2

\* What a scan of a table returns.
LEMMA VisibleFacts ==
    ASSUME CatalogInv, RowsType, up, NEW t \in DOMAIN db_
    PROVE  /\ Visible(t) \subseteq Records
           /\ handles[TabPath(t)].num_pages = 1 => Visible(t) = {}
           /\ OwnTable(t) /\ handles[TabPath(t)].own => Visible(t) = rows[t]
<1> DEFINE p == TabPath(t)
           h == handles[p]
<1>1. pool \in Seq(Frames)
  BY DEF RowsType
<1>2. files[p] \in [Pages -> PageType]
  BY RunningFacts
<1>3. Data(pool, files, p, h.fd, FIRST_RECORD_PAGE).rows \subseteq Records
  BY <1>1, <1>2, DataType, PageNumbers
<1> QED BY <1>3 DEF Visible, OwnTable, OwnPage

LEMMA RowsCreateIndex ==
    ASSUME CatalogInv, RowsInv, NEW t \in Tables, NEW c \in Cols, create_index(t, c), ~UNCHANGED vars
    PROVE  RowsInv'
<1> DEFINE p == IxPath(t, c)
           q == TabPath(t)
           h == handles[q]
           n0 == IF h.num_pages = 1 THEN FILE_HDR_PAGE ELSE FIRST_RECORD_PAGE
           root == IX_INIT_ROOT_PAGE
           sl == FetchPage(pool, files, q, h.fd, n0)
<1>1. /\ up /\ t \in DOMAIN db_ /\ c \notin db_[t] /\ ~is_file(p)
      /\ db_' = [db_ EXCEPT ![t] = @ \cup {c}] /\ rows' = rows /\ intact' = intact
  BY DEF create_index, Throw, history
<1>2. PICK fd \in UnusedFds, junk \in Rows \cup {Junk} :
          /\ Visible(t) # {} => junk = Junk
          /\ files' = create_file(files, p, IX_INIT_NUM_PAGES)
          /\ pool' = InsertEntries(Scanned(pool, t), files', p, fd,
                                   IF Visible(t) = {} THEN {junk} ELSE Visible(t))
          /\ handles' = With(handles, p, [fd |-> fd, num_pages |-> IX_INIT_NUM_PAGES,
                                          own |-> Untouched(pool, fd) /\ handles[q].own
                                                  /\ Visible(t) # {}])
  BY DEF create_index, Throw
<1> DEFINE found == IF Visible(t) = {} THEN {junk} ELSE Visible(t)
           own == Untouched(pool, fd) /\ handles[q].own /\ Visible(t) # {}
           ml == FetchPage(sl, files', p, fd, root)
<1>3. RowsType /\ OwnAll /\ pool \in Seq(Frames) /\ DOMAIN rows = DOMAIN db_ /\ OwnTable(t)
  BY <1>1 DEF RowsInv, RowsType, OwnAll
<1>4. /\ DOMAIN handles = FilesOf(db_) /\ FilesOf(db_) \subseteq DOMAIN files
      /\ \A x \in FilesOf(db_) : handles[x] \in Handles /\ files[x] \in [Pages -> PageType]
      /\ \A x, y \in FilesOf(db_) : handles[x].fd = handles[y].fd => x = y
      /\ fd \in Fds /\ \A x \in FilesOf(db_) : handles[x].fd # fd
      /\ \A u \in DOMAIN db_ :
            /\ TabPath(u) \in FilesOf(db_)
            /\ \A d \in db_[u] : IxPath(u, d) \in FilesOf(db_) /\ IxPath(u, d) # TabPath(u)
  BY <1>1, <1>3, RunningFacts
<1>5. p \notin FilesOf(db_)
  BY <1>1, <1>4 DEF is_file
<1>6. /\ Visible(t) \subseteq Records
      /\ h.num_pages = 1 => Visible(t) = {}
      /\ h.own => Visible(t) = rows[t]
  BY <1>1, <1>3, VisibleFacts
<1>7. found \in SUBSET Records
  BY <1>6 DEF Records
<1>8. pool' = AddRows(ml, fd, root, found)
  BY <1>2 DEF InsertEntries, Scanned
<1>9. own \in BOOLEAN
  OBVIOUS
<1>10. own => Untouched(pool, fd) /\ h.own /\ found = rows[t] /\ h.num_pages # 1
  BY <1>6
<1>11. handles' = With(handles, p, [fd |-> fd, num_pages |-> IX_INIT_NUM_PAGES, own |-> own])
  BY <1>2
<1>12. n0 \in Pages /\ (h.num_pages = 1 => n0 # FIRST_RECORD_PAGE)
      /\ (h.num_pages # 1 => n0 = FIRST_RECORD_PAGE)
  BY PageNumbers
<1>13. q \in FilesOf(db_) /\ h \in Handles /\ h.fd \in Fds /\ h.fd # fd
       /\ files[q] \in [Pages -> PageType]
  BY <1>1, <1>4 DEF Handles
<1> HIDE DEF found, own, n0, h
<1>14. /\ sl \in Seq(Frames) /\ KeepsOthers(pool, sl, h.fd, n0)
       /\ \A rs : OwnPage(pool, files, q, h.fd, n0, rs) => OwnPage(sl, files, q, h.fd, n0, rs)
  BY <1>3, <1>12, <1>13, FetchFacts
<1> HIDE DEF sl
<1>15. files'[p] = NewFile(IX_INIT_NUM_PAGES) /\ IX_INIT_NUM_PAGES \in Nat
  BY <1>2 DEF create_file, With, IX_INIT_NUM_PAGES
<1>16. files'[p] \in [Pages -> PageType] /\ files'[p][root].rows = {}
  BY <1>15, NewFileType, PageNumbers
<1> HIDE DEF p, q
<1>17. /\ ml \in Seq(Frames) /\ InPool(ml, fd, root) /\ KeepsOthers(sl, ml, fd, root)
       /\ \A rs : OwnPage(sl, files', p, fd, root, rs) => OwnPage(ml, files', p, fd, root, rs)
  BY <1>4, <1>14, <1>16, FetchFacts, PageNumbers
<1> HIDE DEF ml
<1>18. /\ pool' \in Seq(Frames) /\ KeepsOthers(ml, pool', fd, root)
       /\ \A rs : OwnPage(ml, files', p, fd, root, rs) => OwnPage(pool', files', p, fd, root, rs \cup found)
  BY <1>7, <1>8, <1>17, AddFacts
<1>19. /\ RowsType'
       /\ handles'[p].fd = fd /\ handles'[p].own = own
       /\ \A x \in DOMAIN handles : x # p => handles'[x] = handles[x]
       /\ \A x \in DOMAIN files : x # p => files'[x] = files[x]
  BY <1>1, <1>2, <1>3, <1>9, <1>11, <1>15, <1>18, OpenType
<1>20. ASSUME NEW gd, gd # fd, NEW m PROVE SamePage(sl, pool', gd, m)
  BY <1>17, <1>18, <1>20, SamePageTransitive DEF KeepsOthers
<1>21. ASSUME NEW gd, gd # fd, NEW m, gd # h.fd \/ m # n0 PROVE SamePage(pool, pool', gd, m)
  <2>1. SamePage(pool, sl, gd, m)
    BY <1>14, <1>21 DEF KeepsOthers
  <2>2. SamePage(sl, pool', gd, m)
    BY <1>20, <1>21
  <2> QED BY <2>1, <2>2, SamePageTransitive
<1>22. \A x \in FilesOf(db_) : handles'[x] = handles[x] /\ files'[x] = files[x]
  BY <1>4, <1>5, <1>19
<1>23. ASSUME NEW x \in FilesOf(db_), NEW m, x # q \/ m # n0
       PROVE  SamePage(pool, pool', handles[x].fd, m)
  <2>1. handles[x].fd # fd /\ (x # q => handles[x].fd # h.fd)
    BY <1>4, <1>13 DEF h
  <2> QED BY <1>21, <1>23, <2>1
<1>24. ASSUME NEW u \in DOMAIN db_, u # t \/ n0 # FIRST_RECORD_PAGE PROVE OwnTable(u)'
  <2>1. OwnTable(u) /\ TabPath(u) \in FilesOf(db_)
    BY <1>1, <1>3, <1>4 DEF OwnAll
  <2>2. TabPath(u) # q \/ n0 # FIRST_RECORD_PAGE
    BY <1>24, PathsDiffer DEF q
  <2>3. SamePage(pool, pool', handles[TabPath(u)].fd, FIRST_RECORD_PAGE)
    BY <1>23, <2>1, <2>2
  <2> QED BY <1>1, <1>3, <1>22, <2>1, <2>3, KeepTable
<1>25. ASSUME n0 = FIRST_RECORD_PAGE PROVE OwnTable(t)'
  <2>1. h.num_pages # 1 /\ handles'[q] = h /\ files'[q] = files[q]
    BY <1>12, <1>13, <1>22, <1>25 DEF h
  <2>2. h.own => OwnPage(pool, files, q, h.fd, n0, rows[t])
    BY <1>3, <1>25, <2>1 DEF OwnTable, h, q
  <2>3. h.own => OwnPage(sl, files, q, h.fd, n0, rows[t])
    BY <1>14, <2>2
  <2>4. SamePage(sl, pool', h.fd, n0)
    BY <1>13, <1>20
  <2>5. h.own => OwnPage(pool', files, q, h.fd, n0, rows[t])
    BY <1>14, <2>3, <2>4, SamePageFacts
  <2>6. h.own => OwnPage(pool', files', q, h.fd, n0, rows[t])
    BY <2>1, <2>5, OwnPageFile
  <2> QED BY <1>1, <1>25, <2>1, <2>6 DEF OwnTable, q
<1>26. ASSUME NEW u \in DOMAIN db_, NEW d \in db_[u] PROVE OwnIndex(u, d)'
  <2>1. OwnIndex(u, d) /\ IxPath(u, d) \in FilesOf(db_)
    BY <1>1, <1>3, <1>4 DEF OwnAll
  <2>2. root # n0
    BY PageNumbers DEF n0
  <2>3. SamePage(pool, pool', IndexFd(u, d), root)
    BY <1>23, <2>1, <2>2 DEF IndexFd
  <2> QED BY <1>1, <1>3, <1>22, <2>1, <2>3, KeepIndex
<1>27. OwnIndex(t, c)'
  <2> SUFFICES ASSUME own PROVE OwnPage(pool', files', p, fd, root, rows[t])
    BY <1>1, <1>19 DEF OwnIndex, IndexFd, p
  <2>1. ~InPool(pool, fd, root)
    BY <1>10 DEF Untouched, InPool, FramesOf
  <2>2. SamePage(pool, sl, fd, root)
    BY <1>13, <1>14 DEF KeepsOthers
  <2>3. ~InPool(sl, fd, root)
    BY <1>3, <2>1, <2>2, SamePageFacts
  <2>4. OwnPage(sl, files', p, fd, root, {})
    BY <1>16, <2>3 DEF OwnPage, Data, InPool, Single
  <2>5. OwnPage(ml, files', p, fd, root, {})
    BY <1>17, <2>4
  <2>6. OwnPage(pool', files', p, fd, root, {} \cup found)
    BY <1>18, <2>5
  <2>7. {} \cup found = rows[t]
    BY <1>10
  <2> QED BY <2>6, <2>7
<1>28. /\ DOMAIN db_' = DOMAIN db_ /\ db_'[t] = db_[t] \cup {c}
       /\ \A u \in DOMAIN db_ : u # t => db_'[u] = db_[u]
  BY <1>1
<1>29. \A u \in DOMAIN db_' : OwnTable(u)' /\ \A d \in db_'[u] : OwnIndex(u, d)'
  BY <1>1, <1>24, <1>25, <1>26, <1>27, <1>28
<1> QED BY <1>1, <1>3, <1>19, <1>28, <1>29, RowsStatement

\* INSERT puts the record on the page of the table: p3 in InsertRow.
TableInsert(t, r) ==
    LET h == handles[TabPath(t)]
        p1 == IF h.num_pages = 1 THEN NewPage(pool, h.fd, FIRST_RECORD_PAGE) ELSE pool
        p2 == FetchPage(p1, files, TabPath(t), h.fd, FIRST_RECORD_PAGE)
    IN AddRows(p2, h.fd, FIRST_RECORD_PAGE, {r})

LEMMA NewPageFacts ==
    ASSUME NEW pl \in Seq(Frames), NEW fd \in Fds, NEW n \in Pages
    PROVE  /\ NewPage(pl, fd, n) \in Seq(Frames)
           /\ KeepsOthers(pl, NewPage(pl, fd, n), fd, n)
           /\ ~InPool(pl, fd, n) => \A fs, p : OwnPage(NewPage(pl, fd, n), fs, p, fd, n, {})
<1> DEFINE f == [fd |-> fd, page |-> n, data |-> ZeroPage]
<1>1. f \in Frames /\ f.fd = fd /\ f.page = n /\ f.data.rows = {}
  BY DEF Frames, ZeroPage, PageType
<1>2. NewPage(pl, fd, n) = Append(pl, f)
  BY DEF NewPage
<1> HIDE DEF f
<1>3. Appended(pl, f)
  BY <1>1, AppendFacts
<1> QED BY <1>1, <1>2, <1>3 DEF Appended, KeepsOthers, OwnPage

LEMMA KeepsOthersTransitive ==
    ASSUME NEW pl, NEW ql, NEW ml, NEW fd, NEW n, KeepsOthers(pl, ql, fd, n), KeepsOthers(ql, ml, fd, n)
    PROVE  KeepsOthers(pl, ml, fd, n)
BY SamePageTransitive DEF KeepsOthers

LEMMA TableInsertFacts ==
    ASSUME CatalogInv, RowsType, up, NEW t \in DOMAIN db_, OwnTable(t), NEW r \in Rows
    PROVE  /\ TableInsert(t, r) \in Seq(Frames)
           /\ KeepsOthers(pool, TableInsert(t, r), handles[TabPath(t)].fd, FIRST_RECORD_PAGE)
           /\ handles[TabPath(t)].own =>
                 OwnPage(TableInsert(t, r), files, TabPath(t), handles[TabPath(t)].fd,
                         FIRST_RECORD_PAGE, rows[t] \cup {r})
<1> DEFINE q == TabPath(t)
           h == handles[q]
           n == FIRST_RECORD_PAGE
           p1 == IF h.num_pages = 1 THEN NewPage(pool, h.fd, n) ELSE pool
           p2 == FetchPage(p1, files, q, h.fd, n)
           p3 == AddRows(p2, h.fd, n, {r})
<1>1. /\ pool \in Seq(Frames) /\ h.fd \in Fds /\ files[q] \in [Pages -> PageType] /\ n \in Pages
      /\ {r} \in SUBSET Records
  BY RunningFacts, PageNumbers DEF RowsType, Handles, Records
<1>2. h.own => IF h.num_pages = 1 THEN rows[t] = {} /\ ~InPool(pool, h.fd, n)
               ELSE OwnPage(pool, files, q, h.fd, n, rows[t])
  BY DEF OwnTable
<1>3. p3 = TableInsert(t, r)
  BY DEF TableInsert
<1> HIDE DEF h, q, n
<1>4. /\ p1 \in Seq(Frames) /\ KeepsOthers(pool, p1, h.fd, n)
      /\ h.own => OwnPage(p1, files, q, h.fd, n, rows[t])
  <2>1. CASE h.num_pages = 1
    <3>1. /\ NewPage(pool, h.fd, n) \in Seq(Frames) /\ KeepsOthers(pool, NewPage(pool, h.fd, n), h.fd, n)
          /\ ~InPool(pool, h.fd, n) => OwnPage(NewPage(pool, h.fd, n), files, q, h.fd, n, {})
      BY <1>1, NewPageFacts
    <3> QED BY <1>2, <2>1, <3>1
  <2>2. CASE h.num_pages # 1
    BY <1>1, <1>2, <2>2, SamePageReflexive DEF KeepsOthers
  <2> QED BY <2>1, <2>2
<1> HIDE DEF p1
<1>5. /\ p2 \in Seq(Frames) /\ InPool(p2, h.fd, n) /\ KeepsOthers(p1, p2, h.fd, n)
      /\ \A rs : OwnPage(p1, files, q, h.fd, n, rs) => OwnPage(p2, files, q, h.fd, n, rs)
  BY <1>1, <1>4, FetchFacts
<1> HIDE DEF p2
<1>6. /\ p3 \in Seq(Frames) /\ KeepsOthers(p2, p3, h.fd, n)
      /\ \A rs : OwnPage(p2, files, q, h.fd, n, rs) => OwnPage(p3, files, q, h.fd, n, rs \cup {r})
  BY <1>1, <1>5, AddFacts
<1> HIDE DEF p3
<1>7. KeepsOthers(pool, p3, h.fd, n)
  BY <1>4, <1>5, <1>6, KeepsOthersTransitive
<1> QED BY <1>3, <1>4, <1>5, <1>6, <1>7 DEF h, q, n

\* INSERT and DELETE leave the other tables and their indexes alone.
LEMMA OthersKept ==
    ASSUME CatalogInv, RowsInv, up, UNCHANGED <<files, db_>>, NEW t \in DOMAIN db_,
           \A u \in DOMAIN db_ : u # t => rows'[u] = rows[u],
           \A p \in FilesOf(db_) : p # TabPath(t) => handles'[p] = handles[p],
           \A gd, m : gd # handles[TabPath(t)].fd /\ (\A c \in db_[t] : gd # IndexFd(t, c))
                          => SamePage(pool, pool', gd, m)
    PROVE  \A u \in DOMAIN db_ : u # t => OwnTable(u)' /\ \A d \in db_[u] : OwnIndex(u, d)'
<1>1. RowsType /\ OwnAll /\ pool \in Seq(Frames)
  BY DEF RowsInv, RowsType
<1>2. /\ \A x, y \in FilesOf(db_) : handles[x].fd = handles[y].fd => x = y
      /\ \A u \in DOMAIN db_ :
            /\ TabPath(u) \in FilesOf(db_) /\ db_[u] \subseteq Cols
            /\ \A d \in db_[u] : IxPath(u, d) \in FilesOf(db_)
  BY <1>1, RunningFacts
<1>3. ASSUME NEW x \in FilesOf(db_), x # TabPath(t), \A c \in db_[t] : x # IxPath(t, c), NEW m
      PROVE  SamePage(pool, pool', handles[x].fd, m)
  <2>1. handles[x].fd # handles[TabPath(t)].fd
    BY <1>2, <1>3
  <2>2. \A c \in db_[t] : handles[x].fd # IndexFd(t, c)
    BY <1>2, <1>3 DEF IndexFd
  <2> QED BY <2>1, <2>2
<1> SUFFICES ASSUME NEW u \in DOMAIN db_, u # t
             PROVE  OwnTable(u)' /\ \A d \in db_[u] : OwnIndex(u, d)'
  OBVIOUS
<1>4. OwnTable(u) /\ \A d \in db_[u] : OwnIndex(u, d)
  BY <1>1 DEF OwnAll
<1>5. TabPath(u) # TabPath(t) /\ \A c \in db_[t] : TabPath(u) # IxPath(t, c)
  BY <1>2, PathsDiffer
<1>6. \A d \in db_[u] : IxPath(u, d) # TabPath(t) /\ \A c \in db_[t] : IxPath(u, d) # IxPath(t, c)
  BY <1>2, PathsDiffer
<1>7. OwnTable(u)'
  <2>1. SamePage(pool, pool', handles[TabPath(u)].fd, FIRST_RECORD_PAGE)
    BY <1>2, <1>3, <1>5
  <2>2. handles'[TabPath(u)] = handles[TabPath(u)] /\ rows'[u] = rows[u]
    BY <1>2, <1>5
  <2> QED BY <1>1, <1>4, <2>1, <2>2, KeepTable
<1>8. ASSUME NEW d \in db_[u] PROVE OwnIndex(u, d)'
  <2>1. SamePage(pool, pool', IndexFd(u, d), IX_INIT_ROOT_PAGE)
    BY <1>2, <1>3, <1>6 DEF IndexFd
  <2>2. handles'[IxPath(u, d)] = handles[IxPath(u, d)] /\ rows'[u] = rows[u]
    BY <1>2, <1>6
  <2> QED BY <1>1, <1>4, <2>1, <2>2, KeepIndex
<1> QED BY <1>7, <1>8

LEMMA RowsInsert ==
    ASSUME CatalogInv, RowsInv, NEW t \in Tables, NEW r \in Rows, InsertRow(t, r)
    PROVE  RowsInv'
<1> DEFINE q == TabPath(t)
           h == handles[q]
           p3 == TableInsert(t, r)
           root == IX_INIT_ROOT_PAGE
<1>1. /\ up /\ t \in DOMAIN db_ /\ UNCHANGED <<files, up, db_, intact>>
      /\ pool' = InsertInIndexes(p3, t, r)
      /\ handles' = [handles EXCEPT ![q].num_pages = 2]
      /\ rows' = [rows EXCEPT ![t] = @ \cup {r}]
  BY DEF InsertRow, TableInsert, disk
<1>2. RowsType /\ OwnAll /\ pool \in Seq(Frames) /\ DOMAIN rows = DOMAIN db_
      /\ OwnTable(t) /\ \A c \in db_[t] : OwnIndex(t, c)
  BY <1>1 DEF RowsInv, RowsType, OwnAll
<1>3. /\ DOMAIN handles = FilesOf(db_)
      /\ \A x \in FilesOf(db_) : handles[x] \in Handles /\ files[x] \in [Pages -> PageType]
      /\ \A x, y \in FilesOf(db_) : handles[x].fd = handles[y].fd => x = y
      /\ q \in FilesOf(db_) /\ db_[t] \subseteq Cols
      /\ \A d \in db_[t] : IxPath(t, d) \in FilesOf(db_) /\ IxPath(t, d) # q
  BY <1>1, <1>2, RunningFacts
<1>4. IndexesOpen(t)
  <2>1. IsFiniteSet(db_[t])
    BY <1>3, FS_Subset, CatalogAssumption
  <2>2. \A c \in db_[t] : IndexFd(t, c) \in Fds /\ files[IxPath(t, c)] \in [Pages -> PageType]
    BY <1>3 DEF IndexFd, Handles
  <2>3. \A c, d \in db_[t] : IndexFd(t, c) = IndexFd(t, d) => c = d
    BY <1>3, PathsDiffer DEF IndexFd
  <2> QED BY <2>1, <2>2, <2>3 DEF IndexesOpen
<1>5. /\ p3 \in Seq(Frames) /\ KeepsOthers(pool, p3, h.fd, FIRST_RECORD_PAGE)
      /\ h.own => OwnPage(p3, files, q, h.fd, FIRST_RECORD_PAGE, rows[t] \cup {r})
  BY <1>1, <1>2, TableInsertFacts
<1> HIDE DEF p3
<1>6. /\ pool' \in Seq(Frames) /\ KeepsAllButRoots(p3, pool', t)
      /\ \A c \in db_[t] :
           \A rs : OwnPage(p3, files, IxPath(t, c), IndexFd(t, c), root, rs)
                      => OwnPage(pool', files, IxPath(t, c), IndexFd(t, c), root, rs \cup {r})
  <2>1. r \in Records
    BY DEF Records
  <2> QED BY <1>1, <1>4, <1>5, <2>1, InsertInIndexesFacts
<1>7. /\ DOMAIN handles' = DOMAIN handles /\ handles'[q].fd = h.fd /\ handles'[q].num_pages = 2
      /\ handles'[q].own = h.own /\ handles'[q] \in Handles
      /\ \A x \in FilesOf(db_) : x # q => handles'[x] = handles[x]
  <2>1. h \in Handles
    BY <1>3
  <2>2. /\ DOMAIN handles' = DOMAIN handles /\ handles'[q] = [h EXCEPT !.num_pages = 2]
        /\ \A x \in FilesOf(db_) : x # q => handles'[x] = handles[x]
    BY <1>1, <1>3
  <2> HIDE DEF h
  <2> QED BY <2>1, <2>2 DEF Handles
<1>8. DOMAIN rows' = DOMAIN rows /\ rows'[t] = rows[t] \cup {r}
      /\ \A u \in DOMAIN db_ : u # t => rows'[u] = rows[u]
  BY <1>1, <1>2
<1>9. RowsType'
  BY <1>1, <1>2, <1>3, <1>6, <1>7 DEF RowsType
<1>10. OwnTable(t)'
  <2>1. SamePage(p3, pool', h.fd, FIRST_RECORD_PAGE)
    BY <1>6, PageNumbers DEF KeepsAllButRoots
  <2>2. h.own => OwnPage(pool', files, q, h.fd, FIRST_RECORD_PAGE, rows[t] \cup {r})
    BY <1>5, <2>1, SamePageFacts
  <2> QED BY <1>1, <1>7, <1>8, <2>2 DEF OwnTable
<1>11. ASSUME NEW c \in db_[t] PROVE OwnIndex(t, c)'
  <2>1. SamePage(pool, p3, IndexFd(t, c), root)
    BY <1>5, PageNumbers DEF KeepsOthers
  <2>2. handles[IxPath(t, c)].own => OwnPage(pool, files, IxPath(t, c), IndexFd(t, c), root, rows[t])
    BY <1>2 DEF OwnIndex
  <2>3. handles[IxPath(t, c)].own => OwnPage(p3, files, IxPath(t, c), IndexFd(t, c), root, rows[t])
    BY <1>2, <2>1, <2>2, SamePageFacts
  <2>4. handles[IxPath(t, c)].own
           => OwnPage(pool', files, IxPath(t, c), IndexFd(t, c), root, rows[t] \cup {r})
    BY <1>6, <2>3
  <2>5. handles'[IxPath(t, c)] = handles[IxPath(t, c)]
    BY <1>3, <1>7
  <2> QED BY <1>1, <1>8, <2>4, <2>5 DEF OwnIndex, IndexFd
<1>12. ASSUME NEW gd, NEW m, gd # h.fd, \A c \in db_[t] : gd # IndexFd(t, c)
       PROVE  SamePage(pool, pool', gd, m)
  <2>1. SamePage(pool, p3, gd, m)
    BY <1>5, <1>12 DEF KeepsOthers
  <2>2. SamePage(p3, pool', gd, m)
    BY <1>6, <1>12 DEF KeepsAllButRoots
  <2> QED BY <2>1, <2>2, SamePageTransitive
<1>13. \A u \in DOMAIN db_ : u # t => OwnTable(u)' /\ \A d \in db_[u] : OwnIndex(u, d)'
  BY <1>1, <1>7, <1>8, <1>12, OthersKept
<1>14. \A u \in DOMAIN db_' : OwnTable(u)' /\ \A d \in db_'[u] : OwnIndex(u, d)'
  BY <1>1, <1>10, <1>11, <1>13
<1> QED BY <1>1, <1>2, <1>8, <1>9, <1>14, RowsStatement

LEMMA RowsDelete ==
    ASSUME CatalogInv, RowsInv, NEW t \in Tables, NEW r \in Rows, DeleteRow(t, r)
    PROVE  RowsInv'
<1> DEFINE q == TabPath(t)
           h == handles[q]
           n == FIRST_RECORD_PAGE
           sl == FetchPage(pool, files, q, h.fd, n)
<1>1. /\ up /\ t \in DOMAIN db_ /\ db_[t] = {} /\ UNCHANGED <<files, up, db_, handles, intact>>
      /\ r \in Visible(t) /\ pool' = CutRow(Scanned(pool, t), h.fd, n, r)
      /\ rows' = [rows EXCEPT ![t] = @ \ {r}]
  BY DEF DeleteRow, disk
<1>2. RowsType /\ OwnAll /\ pool \in Seq(Frames) /\ DOMAIN rows = DOMAIN db_ /\ OwnTable(t)
  BY <1>1 DEF RowsInv, RowsType, OwnAll
<1>3. /\ h.fd \in Fds /\ files[q] \in [Pages -> PageType] /\ n \in Pages
  BY <1>1, <1>2, RunningFacts, PageNumbers DEF Handles
<1>4. h.num_pages # 1
  BY <1>1, <1>2, VisibleFacts
<1>5. pool' = CutRow(sl, h.fd, n, r)
  BY <1>1, <1>4 DEF Scanned
<1>6. /\ sl \in Seq(Frames) /\ InPool(sl, h.fd, n) /\ KeepsOthers(pool, sl, h.fd, n)
      /\ \A rs : OwnPage(pool, files, q, h.fd, n, rs) => OwnPage(sl, files, q, h.fd, n, rs)
  BY <1>2, <1>3, FetchFacts
<1> HIDE DEF sl
<1>7. /\ pool' \in Seq(Frames) /\ KeepsOthers(sl, pool', h.fd, n)
      /\ \A rs : OwnPage(sl, files, q, h.fd, n, rs) => OwnPage(pool', files, q, h.fd, n, rs \ {r})
  BY <1>5, <1>6, CutFacts
<1>8. DOMAIN rows' = DOMAIN rows /\ rows'[t] = rows[t] \ {r}
      /\ \A u \in DOMAIN db_ : u # t => rows'[u] = rows[u]
  BY <1>1, <1>2
<1>9. RowsType'
  BY <1>1, <1>2, <1>7 DEF RowsType
<1>10. OwnTable(t)'
  <2>1. h.own => OwnPage(pool, files, q, h.fd, n, rows[t])
    BY <1>2, <1>4 DEF OwnTable
  <2> QED BY <1>1, <1>4, <1>6, <1>7, <1>8, <2>1 DEF OwnTable
<1>11. KeepsOthers(pool, pool', h.fd, n)
  BY <1>6, <1>7, KeepsOthersTransitive
<1>12. \A gd, m : gd # h.fd => SamePage(pool, pool', gd, m)
  BY <1>11 DEF KeepsOthers
<1>13. \A u \in DOMAIN db_ : u # t => OwnTable(u)' /\ \A d \in db_[u] : OwnIndex(u, d)'
  BY <1>1, <1>8, <1>12, OthersKept
<1>14. \A u \in DOMAIN db_' : OwnTable(u)' /\ \A d \in db_'[u] : OwnIndex(u, d)'
  BY <1>1, <1>10, <1>13
<1> QED BY <1>1, <1>2, <1>8, <1>9, <1>14, RowsStatement

LEMMA RowsStep == CatalogInv /\ RowsInv /\ [Next]_vars => RowsInv'
<1> SUFFICES ASSUME CatalogInv, RowsInv, [Next]_vars PROVE RowsInv'
  OBVIOUS
<1>1. CASE UNCHANGED vars
  BY <1>1 DEF vars, disk, process, history, RowsInv, RowsType, OwnAll, OwnTable, OwnIndex, IndexFd,
              SavedAll, SavedTable, SavedIndex
<1>2. CASE Boot
  BY <1>2, RowsBoot
<1>3. CASE BootFails
  BY <1>1, <1>3 DEF BootFails, Throw
<1>4. CASE close_db
  BY <1>4, RowsClose
<1>5. CASE Crash
  BY <1>5, RowsCrash
<1>6. ASSUME NEW t \in Tables,
             \/ CrashInDropTable(t) \/ create_table(t) \/ drop_table(t)
             \/ drop_indexNoTable(t) \/ NoSuchColumn(t)
      PROVE  RowsInv'
  <2>1. CASE CrashInDropTable(t)
    BY <2>1, RowsCrashInDropTable
  <2>2. CASE create_table(t)
    BY <1>1, <2>2, RowsCreateTable
  <2>3. CASE drop_table(t)
    BY <1>1, <2>3, RowsDropTable
  <2>4. CASE drop_indexNoTable(t)
    BY <2>4, RowsCrash DEF drop_indexNoTable
  <2>5. CASE NoSuchColumn(t)
    BY <1>1, <2>5, RowsCrash DEF NoSuchColumn, Throw
  <2> QED BY <1>6, <2>1, <2>2, <2>3, <2>4, <2>5
<1>7. ASSUME NEW t \in Tables, NEW c \in Cols, create_index(t, c) \/ drop_index(t, c)
      PROVE  RowsInv'
  BY <1>1, <1>7, RowsCreateIndex, RowsDropIndex
<1>8. ASSUME NEW t \in Tables, NEW r \in Rows, InsertRow(t, r) \/ DeleteRow(t, r)
      PROVE  RowsInv'
  BY <1>8, RowsInsert, RowsDelete
<1> QED BY <1>1, <1>2, <1>3, <1>4, <1>5, <1>6, <1>7, <1>8 DEF Next

-----------------------------------------------------------------------------
(* Theorems                                                                *)

\* The catalog in memory, db.meta, the directory and the open files agree.
THEOREM CatalogCorrect == Spec => []CatalogInv
BY CatalogInitial, CatalogStep, PTL DEF Spec

\* fhs_.at and ihs_.at never fail: every table and index of the catalog has a
\* file, a handle and a descriptor of its own, after any statements, shutdowns,
\* crashes and restarts.
THEOREM CatalogBacked == Spec => []CatalogIsBacked
<1>1. CatalogInv => CatalogIsBacked
  BY DEF CatalogInv, CatalogIsBacked, HandlesOf
<1> QED BY <1>1, CatalogCorrect, PTL

\* Until the process dies for the first time the directory holds the files of
\* the catalog and no others.
THEOREM FilesMatch == Spec => []FilesMatchCatalog
<1>1. CatalogInv => FilesMatchCatalog
  BY DEF CatalogInv
<1> QED BY <1>1, CatalogCorrect, PTL

\* open_db fails after crashes only for a file that was dropped since close_db
\* last wrote db.meta.
THEOREM OnlyDroppedFilesMissing == Spec => []MissingFilesWereDropped
<1>1. CatalogInv => MissingFilesWereDropped
  BY DEF CatalogInv
<1> QED BY <1>1, CatalogCorrect, PTL

\* Files opened on a fresh descriptor hold their own records: in the pool while
\* the server runs, on disk after close_db.
THEOREM RowsCorrect == Spec => []RowsInv
BY CatalogCorrect, RowsInitial, RowsStep, PTL DEF Spec

\* A table that was opened on a descriptor without pages in the pool shows
\* exactly the records it was given, and so do its indexes that were: through
\* statements on any tables, scans, close_db, crashes and restarts.
THEOREM OwnRows == Spec => []OwnRowsWithFreshDescriptor
<1>1. CatalogInv /\ RowsInv => OwnRowsWithFreshDescriptor
  <2> SUFFICES ASSUME CatalogInv, RowsInv, up, NEW t \in DOMAIN db_
               PROVE  /\ handles[TabPath(t)].own => Visible(t) = rows[t]
                      /\ \A c \in db_[t] : handles[IxPath(t, c)].own => Entries(t, c) = rows[t]
    BY DEF OwnRowsWithFreshDescriptor
  <2>1. RowsType /\ OwnTable(t) /\ \A c \in db_[t] : OwnIndex(t, c)
    BY DEF RowsInv, OwnAll
  <2>2. handles[TabPath(t)].own => Visible(t) = rows[t]
    BY <2>1, VisibleFacts
  <2>3. ASSUME NEW c \in db_[t], handles[IxPath(t, c)].own PROVE Entries(t, c) = rows[t]
    BY <2>1, <2>3 DEF OwnIndex, OwnPage, IndexFd, Entries
  <2> QED BY <2>2, <2>3
<1> QED BY <1>1, CatalogCorrect, RowsCorrect, PTL

=============================================================================
