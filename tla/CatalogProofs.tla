--------------------------- MODULE CatalogProofs ---------------------------
(***************************************************************************)
(* The catalog of a Lustre filesystem has no orphans: for any objects,     *)
(* directories, names, rules and page size, no statement of ingest or of   *)
(* the HSM poller, in any interleaving and with crashes between any two,   *)
(* leaves an edge or stripes without a row, or a malformed row.            *)
(***************************************************************************)
EXTENDS LustreCatalog, FiniteSetTheorems, TLAPS

RowOrNone(o) == LustreRows(o) \cup {None}
AnyRow  == UNION {RowOrNone(o) : o \in Objects}
Stripes == UNION {{{}, Osts(o)} : o \in Objects}

\* The tables, by type.
Tables == [entry : [Objects -> AnyRow], edge : [Places -> Objects \cup {None}],
           stripe : [Objects -> Stripes], removed : [Objects -> AnyRow]]

\* A row is that of its object; edges and stripes belong to rows.
Sane(d) ==
  /\ d \in Tables
  /\ \A o \in Objects : /\ d.entry[o] \in RowOrNone(o) /\ d.removed[o] \in RowOrNone(o)
                        /\ d.stripe[o] \in {{}, Osts(o)}
  /\ \A p \in Places : d.edge[p] # None => d.entry[d.edge[p]] # None
  /\ \A o \in Objects : d.stripe[o] # {} => d.entry[o] # None

\* No object, no place and no row is None.
LEMMA Constants ==
  /\ None \notin Objects /\ None \notin Names /\ NoPlace \notin Places
  /\ \A o \in Objects : None \notin LustreRows(o)
  /\ \A p \in Places : p[1] \in Dirs \cup {Root} /\ p[2] \in Names /\ p = <<p[1], p[2]>>
  /\ \A d \in Dirs \cup {Root}, n \in Names : <<d, n>> \in Places
  <1>1. None \notin Objects /\ None \notin Names /\ \A o \in Objects : None \notin LustreRows(o)
    BY CatalogAssumption, LustreAssumption, Zenon
  <1>. QED
    BY <1>1 DEF Places, NoPlace

\* A link count has the width of its column.
LEMMA LinkCountFits ==
  ASSUME NEW o
  PROVE  LinkCount(LinksOf(o)) \in 0..MaxLinks
  <1>1. IsFiniteSet(Dirs) /\ IsFiniteSet({Root}) /\ IsFiniteSet(Names)
    BY CatalogAssumption, FS_Subset, FS_Singleton, Zenon
  <1>2. IsFiniteSet(Places)
    BY <1>1, FS_Union, FS_Product, Zenon DEF Places
  <1>3. Cardinality(LinksOf(o)) \in Nat
    BY <1>2, FS_Subset, FS_CardinalityType, Zenon DEF LinksOf
  <1>. QED
    BY <1>3, CatalogAssumption DEF LinkCount

-----------------------------------------------------------------------------
(* The statements.                                                         *)

\* A row is written.
LEMMA RowWritten ==
  ASSUME NEW d, Sane(d), NEW o \in Objects, NEW row \in LustreRows(o)
  PROVE  /\ Sane(upsert_scoped_entry(d, o, row))
         /\ upsert_scoped_entry(d, o, row).entry[o] # None
         /\ \A x \in Objects : d.entry[x] # None => upsert_scoped_entry(d, o, row).entry[x] # None
  <1>1. d \in Tables /\ row \in AnyRow /\ row # None
    BY Constants DEF Sane, AnyRow, RowOrNone
  <1>2. PICK e : e = upsert_scoped_entry(d, o, row)
    BY Zenon
  <1>3. /\ e \in Tables /\ e.edge = d.edge /\ e.stripe = d.stripe /\ e.removed = d.removed
        /\ e.entry = [d.entry EXCEPT ![o] = row]
    BY <1>1, <1>2, Zenon DEF upsert_scoped_entry, upsert_scoped_entry_tx, Tables
  <1>4. e.entry[o] = row /\ \A x \in Objects : x # o => e.entry[x] = d.entry[x]
    BY <1>1, <1>3, Zenon DEF Tables
  <1>5. \A x \in Objects : e.entry[x] \in RowOrNone(x) /\ (d.entry[x] # None => e.entry[x] # None)
    BY <1>1, <1>4, Zenon DEF Sane, RowOrNone
  <1>6. \A p \in Places : e.edge[p] # None => e.edge[p] \in Objects
    BY <1>3, Zenon DEF Tables
  <1>. QED
    BY <1>1, <1>2, <1>3, <1>4, <1>5, <1>6, Zenon DEF Sane

\* An edge is written for an object that has a row.
LEMMA EdgeWritten ==
  ASSUME NEW d, Sane(d), NEW o \in Objects, NEW p \in Places, d.entry[o] # None
  PROVE  Sane(upsert_scoped_namespace_edge(d, p, o))
  <1>1. d \in Tables
    BY Zenon DEF Sane
  <1>2. PICK e : e = upsert_scoped_namespace_edge(d, p, o)
    BY Zenon
  <1>3. /\ e \in Tables /\ e.entry = d.entry /\ e.stripe = d.stripe /\ e.removed = d.removed
        /\ e.edge[p] = o /\ \A q \in Places : q # p => e.edge[q] = d.edge[q]
    BY <1>1, <1>2, Zenon DEF upsert_scoped_namespace_edge, Tables
  <1>. QED
    BY <1>2, <1>3, Zenon DEF Sane

\* An edge is removed.
LEMMA EdgeRemoved ==
  ASSUME NEW d, Sane(d), NEW p \in Places
  PROVE  Sane(remove_scoped_namespace_edge(d, p))
  <1>1. d \in Tables
    BY Zenon DEF Sane
  <1>2. PICK e : e = remove_scoped_namespace_edge(d, p)
    BY Zenon
  <1>3. /\ e \in Tables /\ e.entry = d.entry /\ e.stripe = d.stripe /\ e.removed = d.removed
        /\ e.edge[p] = None /\ \A q \in Places : q # p => e.edge[q] = d.edge[q]
    BY <1>1, <1>2, Zenon DEF remove_scoped_namespace_edge, Tables
  <1>. QED
    BY <1>2, <1>3, Zenon DEF Sane

\* All edges of an object are removed.
LEMMA EdgesDropped ==
  ASSUME NEW d, Sane(d), NEW o \in Objects
  PROVE  /\ Sane(DropEdges(d, o)) /\ DropEdges(d, o).entry = d.entry
         /\ \A p \in Places : DropEdges(d, o).edge[p] # o
  <1>1. d \in Tables
    BY Zenon DEF Sane
  <1>2. PICK e : e = DropEdges(d, o)
    BY Zenon
  <1>3. /\ e \in Tables /\ e.entry = d.entry /\ e.stripe = d.stripe /\ e.removed = d.removed
        /\ \A q \in Places : e.edge[q] = IF d.edge[q] = o THEN None ELSE d.edge[q]
    BY <1>1, <1>2, Zenon DEF DropEdges, Tables
  <1>. QED
    BY <1>2, <1>3, Constants, Zenon DEF Sane

\* A row is removed with its edges and stripes.
LEMMA RowRemoved ==
  ASSUME NEW d, Sane(d), NEW o \in Objects
  PROVE  /\ Sane(remove_lustre_entry(d, o))
         /\ \A x \in Objects : x # o => remove_lustre_entry(d, o).entry[x] = d.entry[x]
  <1>1. d \in Tables /\ None \in AnyRow /\ {} \in Stripes
    BY DEF Sane, AnyRow, RowOrNone, Stripes
  <1>2. CASE d.entry[o] = None
    BY <1>2, Zenon DEF remove_lustre_entry
  <1>3. CASE d.entry[o] # None
    <2>1. PICK b : b = Bury(d, o)
      BY Zenon
    <2>2. /\ b \in Tables /\ b.edge = d.edge /\ b.stripe = d.stripe
          /\ b.entry[o] = None /\ b.removed[o] = d.entry[o]
          /\ \A x \in Objects : x # o => b.entry[x] = d.entry[x] /\ b.removed[x] = d.removed[x]
      BY <1>1, <2>1, Zenon DEF Bury, Tables
    <2>3. PICK e : e = remove_lustre_entry(d, o)
      BY Zenon
    <2>4. e = [DropEdges(b, o) EXCEPT !.stripe[o] = {}]
      BY <1>3, <2>1, <2>3, Zenon DEF remove_lustre_entry
    <2>5. /\ e \in Tables /\ e.entry = b.entry /\ e.removed = b.removed
          /\ e.stripe[o] = {} /\ \A x \in Objects : x # o => e.stripe[x] = b.stripe[x]
          /\ \A q \in Places : e.edge[q] = IF b.edge[q] = o THEN None ELSE b.edge[q]
      BY <1>1, <2>2, <2>4, Zenon DEF DropEdges, Tables
    <2>6. Sane(e)
      <3>1. \A x \in Objects : /\ e.entry[x] \in RowOrNone(x) /\ e.removed[x] \in RowOrNone(x)
                               /\ e.stripe[x] \in {{}, Osts(x)}
        BY <2>2, <2>5 DEF Sane, RowOrNone
      <3>2. \A p \in Places : e.edge[p] # None => e.edge[p] \in Objects /\ e.edge[p] # o /\ e.edge[p] = d.edge[p]
        BY <1>1, <2>2, <2>5 DEF Tables
      <3>3. \A p \in Places : e.edge[p] # None => e.entry[e.edge[p]] # None
        BY <2>2, <2>5, <3>2 DEF Sane
      <3>4. \A x \in Objects : e.stripe[x] # {} => e.entry[x] # None
        BY <2>2, <2>5 DEF Sane
      <3>. QED
        BY <2>5, <3>1, <3>3, <3>4, Zenon DEF Sane
    <2>. QED
      BY <2>2, <2>3, <2>5, <2>6, Zenon
  <1>. QED
    BY <1>2, <1>3, Zenon

\* A batch of one observation is that observation.
LEMMA EntryIsObserved ==
  ASSUME NEW d, NEW o, NEW row
  PROVE  upsert_lustre_entry(d, o, row) = Observed(d, o, row)
  <1> DEFINE seen1 == <<[obj |-> o, row |-> row]>>
             Step(f) == [i \in 0..Len(seen1) |-> IF i = 0 THEN d ELSE Observed(f[i - 1], seen1[i].obj, seen1[i].row)]
             after == CHOOSE f : f = Step(f)
             g == [i \in 0..1 |-> IF i = 0 THEN d ELSE Observed(d, o, row)]
  <1>1. Len(seen1) = 1 /\ seen1[1].obj = o /\ seen1[1].row = row
    BY Zenon
  <1>2. upsert_lustre_entry(d, o, row) = after[Len(seen1)]
    BY Zenon DEF upsert_lustre_entry, upsert_lustre_scan_batch
  <1>3. g = Step(g)
    <2>1. \A i \in 0..1 : i = 0 \/ i = 1
      OBVIOUS
    <2>2. \A i \in 0..1 : g[i] = IF i = 0 THEN d ELSE Observed(g[i - 1], seen1[i].obj, seen1[i].row)
      BY <1>1, <2>1
    <2>. QED
      BY <1>1, <2>2, Zenon
  <1>4. after = Step(after)
    <2> HIDE DEF g, Step
    <2>. QED
      BY <1>3, Zenon
  <1> HIDE DEF after
  <1>5. after[0] = d /\ after[1] = Observed(after[0], o, row)
    BY <1>1, <1>4
  <1>. QED
    BY <1>1, <1>2, <1>5, Zenon

\* The transaction of a Lustre observation: row, stripes and edge.
LEMMA Upserted ==
  ASSUME NEW d, Sane(d), NEW o \in Objects, NEW row \in LustreRows(o)
  PROVE  Sane(upsert_lustre_entry(d, o, row))
  <1>1. PICK e : e = upsert_scoped_entry(d, o, row)
    BY Zenon
  <1>2. Sane(e) /\ e.entry[o] # None /\ e \in Tables
    BY <1>1, RowWritten DEF Sane
  <1>3. Osts(o) \in Stripes /\ row.osts = Osts(o) /\ row.parent \in Dirs \cup {Root} /\ row.name \in Names
    BY DEF Stripes, LustreRows
  <1>4. PICK s : s = [e EXCEPT !.stripe[o] = row.osts]
    BY Zenon
  <1>5. /\ s \in Tables /\ s.entry = e.entry /\ s.edge = e.edge /\ s.removed = e.removed
        /\ s.stripe[o] = Osts(o) /\ \A x \in Objects : x # o => s.stripe[x] = e.stripe[x]
    BY <1>2, <1>3, <1>4, Zenon DEF Tables
  <1>6. Sane(s) /\ s.entry[o] # None
    BY <1>2, <1>5, Zenon DEF Sane
  <1>7. At(row) \in Places
    BY <1>3, Constants, Zenon DEF At
  <1>8. Observed(d, o, row) = s \/ Observed(d, o, row) = upsert_scoped_namespace_edge(s, At(row), o)
    BY <1>1, <1>4, Zenon DEF Observed, upsert_scoped_entry
  <1>. QED
    BY <1>6, <1>7, <1>8, EntryIsObserved, EdgeWritten, Zenon

-----------------------------------------------------------------------------
(* The rows.                                                               *)

\* A patch of sm_status keeps it well formed.
LEMMA Merged ==
  ASSUME NEW sm \in Statuses, NEW patch \in Statuses
  PROVE  Merge(sm, patch) \in Statuses
  <1> DEFINE V == HsmLabels \cup {Rules[n] : n \in Names}
  <1>1. PICK K \in SUBSET Keys : sm \in [K -> V]
    BY Zenon DEF Statuses
  <1>2. PICK J \in SUBSET Keys : patch \in [J -> V]
    BY Zenon DEF Statuses
  <1>3. CASE sm = None
    BY <1>3, Zenon DEF Merge
  <1>4. CASE sm # None
    <2>1. PICK m : m = Merge(sm, patch)
      BY Zenon
    <2>2. m = [k \in K \cup J |-> IF k \in J THEN patch[k] ELSE sm[k]]
      BY <1>1, <1>2, <1>4, <2>1, Zenon DEF Merge
    <2> HIDE DEF V
    <2>3. m \in [K \cup J -> V] /\ K \cup J \in SUBSET Keys
      BY <1>1, <1>2, <2>2, Zenon
    <2>4. "hsm_state" \in K \cup J => m["hsm_state"] = IF "hsm_state" \in J THEN patch["hsm_state"] ELSE sm["hsm_state"]
      BY <2>2, Zenon
    <2>5. /\ ("hsm_state" \in K => sm["hsm_state"] \in HsmLabels)
          /\ ("hsm_state" \in J => patch["hsm_state"] \in HsmLabels)
      BY <1>1, <1>2, LustreAssumption, Zenon DEF Statuses, StatusOK
    <2>6. StatusOK(m)
      <3>1. "hsm_state" \in K \cup J => m["hsm_state"] \in HsmLabels
        BY <2>4, <2>5, Zenon
      <3>. QED
        BY <2>3, <3>1, Zenon DEF StatusOK, Keys
    <2>. QED
      BY <2>1, <2>3, <2>6, Zenon DEF Statuses, V
  <1>. QED
    BY <1>3, <1>4, Zenon

\* A status of one key.
LEMMA Patches ==
  /\ <<>> \in Statuses
  /\ \A label \in HsmLabels : [hsm_state |-> label] \in Statuses
  /\ \A n \in Names : [xattr |-> Rules[n]] \in Statuses
  <1> DEFINE V == HsmLabels \cup {Rules[n] : n \in Names}
             E == {}
             H == {"hsm_state"}
             X == {"xattr"}
  <1>1. E \in SUBSET Keys /\ H \in SUBSET Keys /\ X \in SUBSET Keys
    BY Zenon DEF Keys
  <1>2. <<>> \in [E -> V] /\ StatusOK(<<>>)
    BY DEF StatusOK
  <1>3. \A label \in HsmLabels : [hsm_state |-> label] \in [H -> V] /\ StatusOK([hsm_state |-> label])
    BY DEF StatusOK
  <1>4. \A n \in Names : [xattr |-> Rules[n]] \in [X -> V] /\ StatusOK([xattr |-> Rules[n]])
    BY DEF StatusOK
  <1> HIDE DEF V, E, H, X
  <1>5. \A K \in SUBSET Keys : \A sm \in [K -> V] : StatusOK(sm) => sm \in Statuses
    BY Zenon DEF Statuses, V
  <1>. QED
    BY <1>1, <1>2, <1>3, <1>4, <1>5, ZenonT(30)

\* A row that is stated anew, moved, patched or tagged is still a row of its object.
LEMMA RowChanges ==
  ASSUME NEW o \in Objects, NEW row \in LustreRows(o)
  PROVE  /\ \A d \in Dirs \cup {Root}, n \in Names, c \in 0..MaxLinks :
              /\ [row EXCEPT !.parent = d, !.name = n, !.nlink = c] \in LustreRows(o)
              /\ [row EXCEPT !.parent = d, !.name = n] \in LustreRows(o)
              /\ [row EXCEPT !.nlink = c] \in LustreRows(o)
         /\ \A patch \in Statuses : patch_scoped_sm_status(row, patch) \in LustreRows(o)
         /\ \A n \in Names : update_scoped_xattr(row, Rules[n]) \in LustreRows(o)
         /\ MoreLinks(row.nlink) \in 0..MaxLinks /\ FewerLinks(row.nlink) \in 0..MaxLinks
         /\ row.parent \in Dirs \cup {Root} /\ row.name \in Names /\ row.sm \in Statuses
         /\ Label(row) \in HsmLabels /\ At(row) \in Places
  <1>1. /\ row.parent \in Dirs \cup {Root} /\ row.name \in Names /\ row.sm \in Statuses
        /\ row.nlink \in 0..MaxLinks
    BY Zenon DEF LustreRows
  <1>2. \A d \in Dirs \cup {Root}, n \in Names, c \in 0..MaxLinks :
          /\ [row EXCEPT !.parent = d, !.name = n, !.nlink = c] \in LustreRows(o)
          /\ [row EXCEPT !.parent = d, !.name = n] \in LustreRows(o)
          /\ [row EXCEPT !.nlink = c] \in LustreRows(o)
    BY Zenon DEF LustreRows
  <1>3. ASSUME NEW sm \in Statuses
        PROVE  [row EXCEPT !.sm = sm] \in LustreRows(o)
    BY Zenon DEF LustreRows
  <1>4. ASSUME NEW patch \in Statuses
        PROVE  patch_scoped_sm_status(row, patch) \in LustreRows(o)
    <2>1. PICK m \in Statuses : m = Merge(row.sm, patch)
      BY <1>1, Merged, Zenon
    <2>. QED
      BY <1>3, <2>1, Zenon DEF patch_scoped_sm_status
  <1>5. ASSUME NEW n \in Names
        PROVE  update_scoped_xattr(row, Rules[n]) \in LustreRows(o)
    <2>1. PICK m \in Statuses : m = Merge(row.sm, [xattr |-> Rules[n]])
      BY <1>1, Merged, Patches, Zenon
    <2>. QED
      BY <1>3, <2>1, Zenon DEF update_scoped_xattr
  <1>6. MoreLinks(row.nlink) \in 0..MaxLinks /\ FewerLinks(row.nlink) \in 0..MaxLinks
    BY <1>1, CatalogAssumption DEF MoreLinks, FewerLinks
  <1>7. Label(row) \in HsmLabels
    BY <1>1, LustreAssumption, Zenon DEF Label, Statuses, StatusOK, HsmLabels
  <1>8. At(row) \in Places
    BY <1>1, Constants, Zenon DEF At
  <1>. QED
    BY <1>1, <1>2, <1>4, <1>5, <1>6, <1>7, <1>8, Zenon

\* The row of a stat, of a new object or over a row.
LEMMA StatRows ==
  ASSUME NEW o \in Objects, NEW p
  PROVE  /\ p \in Places => StatRow(o, p) \in LustreRows(o)
         /\ \A row \in LustreRows(o) :
              p[1] = None /\ p[2] \in Names \cup {None} => RestatRow(row, o, p) \in LustreRows(o)
  <1>1. LinkCount(LinksOf(o)) \in 0..MaxLinks
    BY LinkCountFits, Zenon
  <1>2. ASSUME p \in Places PROVE StatRow(o, p) \in LustreRows(o)
    <2>1. metadata_to_kind(o) \in {"file", "dir"}
      BY Zenon DEF metadata_to_kind
    <2>2. p[1] \in Dirs \cup {Root} /\ p[2] \in Names
      BY <1>2, Constants, Zenon
    <2>. QED
      BY <1>1, <2>1, <2>2, Patches, Zenon DEF StatRow, LustreRows
  <1>3. ASSUME NEW row \in LustreRows(o), p[1] = None, p[2] \in Names \cup {None}
        PROVE  RestatRow(row, o, p) \in LustreRows(o)
    <2>1. PICK c \in 0..MaxLinks : c = LinkCount(LinksOf(o))
      BY <1>1, Zenon
    <2>2. PICK n \in Names : n = IF p[2] = None THEN row.name ELSE p[2]
      BY <1>3, RowChanges, Zenon
    <2>3. row.parent \in Dirs \cup {Root}
      BY <1>3, RowChanges, Zenon
    <2>4. RestatRow(row, o, p) = [row EXCEPT !.nlink = c, !.parent = row.parent, !.name = n]
      BY <1>3, <2>1, <2>2, Zenon DEF RestatRow, LustreRows
    <2>. QED
      BY <1>3, <2>3, <2>4, ZenonT(30) DEF LustreRows
  <1>. QED
    BY <1>2, <1>3, Zenon

-----------------------------------------------------------------------------
(* The page of the poller.                                                 *)

\* Object ids have ranks: ORDER BY finds an object for every position.
LEMMA Ranked ==
  ASSUME NEW S \in SUBSET Objects, NEW i \in 1..Cardinality(S)
  PROVE  \E o \in S : Cardinality({q \in S : q <= o}) = i
  <1>1. IsFiniteSet(S) /\ Cardinality(S) \in Nat /\ S \subseteq Nat
    BY CatalogAssumption, FS_Subset, FS_CardinalityType, Zenon
  <1> DEFINE Upto(o) == {q \in S : q <= o}
             T == 1..Cardinality(S)
             f == [o \in S |-> Cardinality(Upto(o))]
  <1>2. IsFiniteSet(T) /\ Cardinality(T) = Cardinality(S)
    BY <1>1, FS_Interval
  <1>3. ASSUME NEW o \in S
        PROVE  Cardinality(Upto(o)) \in T /\ IsFiniteSet(Upto(o))
    <2>1. Upto(o) \subseteq S /\ o \in Upto(o)
      BY <1>1
    <2>2. IsFiniteSet(Upto(o)) /\ Cardinality(Upto(o)) <= Cardinality(S) /\ Cardinality(Upto(o)) \in Nat
      BY <1>1, <2>1, FS_Subset, FS_CardinalityType, Zenon
    <2>3. Cardinality(Upto(o)) # 0
      BY <2>1, <2>2, FS_EmptySet, Zenon
    <2>. QED
      BY <1>1, <2>2, <2>3
  <1>4. ASSUME NEW a \in S, NEW b \in S, Cardinality(Upto(a)) = Cardinality(Upto(b)), a < b
        PROVE  FALSE
    <2>0. a \in Nat /\ b \in Nat /\ (\A q \in S : q \in Nat /\ (q <= a => q <= b)) /\ b <= b /\ ~(b <= a)
      BY <1>1, <1>4
    <2>1. Upto(a) \subseteq Upto(b) /\ b \in Upto(b) /\ b \notin Upto(a)
      BY <2>0, Zenon
    <2>2. Upto(a) = Upto(b)
      BY <1>3, <1>4, <2>1, FS_Subset, Zenon
    <2>. QED
      BY <2>1, <2>2, Zenon
  <1>5. \A a, b \in S : Cardinality(Upto(a)) = Cardinality(Upto(b)) => a = b
    <2> HIDE DEF Upto
    <2>1. \A a, b \in S : a < b \/ b < a \/ a = b
      BY <1>1
    <2>. QED
      BY <1>4, <2>1, Zenon
  <1> HIDE DEF Upto, T
  <1>6. f \in Injection(S, T)
    BY <1>3, <1>5, Zenon DEF Injection, IsInjective
  <1>7. f \in Surjection(S, T)
    BY <1>2, <1>6, FS_Injection, Zenon
  <1>8. i \in T
    BY Zenon DEF T
  <1>. QED
    BY <1>7, <1>8, Zenon DEF Surjection, Upto

\* What the poller holds of a page: rows of their objects.
Seen == {s \in [obj : Objects, row : AnyRow] : s.row \in LustreRows(s.obj)}

\* A page has rows of files.
LEMMA PageRows ==
  ASSUME NEW d, Sane(d), NEW offset \in Nat
  PROVE  query_scoped_page(d, Batch, offset) \in Seq(Seen)
  <1> DEFINE S == {o \in Rows(d) : d.entry[o].kind = "file"}
             files == InOrder(S)
             last == IF offset + Batch < Len(files) THEN offset + Batch ELSE Len(files)
             page == query_scoped_page(d, Batch, offset)
  <1>1. S \in SUBSET Objects /\ Cardinality(S) \in Nat
    BY CatalogAssumption, FS_Subset, FS_CardinalityType, Zenon DEF Rows
  <1>2. /\ files \in [1..Cardinality(S) -> S] /\ Len(files) = Cardinality(S)
    <2> HIDE DEF S
    <2>1. \A i \in 1..Cardinality(S) : (CHOOSE o \in S : Cardinality({q \in S : q <= o}) = i) \in S
      BY <1>1, Ranked, Zenon
    <2>2. files = [i \in 1..Cardinality(S) |-> CHOOSE o \in S : Cardinality({q \in S : q <= o}) = i]
      BY Zenon DEF InOrder
    <2>3. files \in [1..Cardinality(S) -> S]
      BY <2>1, <2>2, ZenonT(30)
    <2>. QED
      BY <1>1, <2>3
  <1>3. page = [i \in 1..(last - offset) |-> [obj |-> files[offset + i], row |-> d.entry[files[offset + i]]]]
    BY Zenon DEF query_scoped_page
  <1>4. last \in Nat /\ last <= Cardinality(S)
    BY <1>1, <1>2, LustreAssumption
  <1>5. \A o \in S : o \in Objects /\ d.entry[o] \in LustreRows(o) /\ d.entry[o] \in AnyRow
    BY DEF Rows, Sane, RowOrNone, AnyRow
  <1> HIDE DEF S, files, last, page
  <1>6. \A i \in 1..(last - offset) : offset + i \in 1..Cardinality(S)
    BY <1>1, <1>4
  <1>7. \A i \in 1..(last - offset) : page[i] \in Seen
    BY <1>2, <1>3, <1>5, <1>6, Zenon DEF Seen
  <1>8. ASSUME last >= offset PROVE page \in Seq(Seen)
    <2>1. last - offset \in Nat
      BY <1>4, <1>8
    <2>. QED
      BY <1>3, <1>7, <2>1
  <1>9. ASSUME last < offset PROVE page \in Seq(Seen)
    <2>1. 1..(last - offset) = 1..0 /\ 1..0 = {}
      BY <1>4, <1>9
    <2>2. page \in [1..0 -> Seen] /\ 0 \in Nat
      BY <1>3, <2>1, Zenon
    <2>. QED
      BY <2>2
  <1>. QED
    BY <1>4, <1>8, <1>9 DEF page

-----------------------------------------------------------------------------
(* The invariant.                                                          *)

Ops == {"CREAT", "MKDIR", "HLINK", "UNLNK", "RMDIR", "RENME", "CLOSE", "TRUNC", "archive", "remove"}
Placed == {"CREAT", "MKDIR", "HLINK", "UNLNK", "RMDIR", "RENME"}

\* A record names an object; its place is that of the operation, or unknown.
Shaped(r) ==
  /\ r.op \in Ops /\ r.obj \in Objects
  /\ r.op \in Placed => r.at \in Places
  /\ r.op \notin Placed => r.at[1] = None /\ r.at[2] \in Names \cup {None}

Entries == [op : Ops, obj : Objects, at : Places \cup ({None} \X (Names \cup {None})), last : BOOLEAN,
            mdt : {0, 1}]

\* The steps that write the row ingest holds, and all its steps.
Writing == {"write", "displace", "edges", "row", "edge", "patch", "tagged"}
Pcs == Writing \cup {"stat", "check", "remove", "unedge", "reread", "refresh", "tag", "done"}

\* Ingest is at step pc of record r with a row in hand.
Holding(pc, row, r, d) ==
  /\ pc \in Pcs
  /\ row \in RowOrNone(r.obj)
  /\ pc \in Writing => row # None
  /\ pc = "stat" => (row = None => r.op \in Placed) /\ (row # None => r.op \notin Placed)
  /\ pc = "edge" => d.entry[r.obj] # None
  /\ pc = "unedge" => r.op = "UNLNK"

Logged ==
  /\ \A i \in DOMAIN log : Shaped(log[i])
  /\ log \in Seq(Entries)
  /\ link \in [Places -> Objects \cup {None}]
  /\ pos \in Nat /\ pos <= batch.end /\ cursor \in Nat /\ cursor <= pos
  /\ batch.end \in Nat /\ batch.end <= Len(log)
Ingesting ==
  /\ ing = [pc |-> ing.pc, row |-> ing.row]
  /\ ing.pc = "idle" => ing.row = None
  /\ ing.pc # "idle" => pos < batch.end /\ Holding(ing.pc, ing.row, Rec, db)
Polling ==
  /\ poll = [pc |-> poll.pc, offset |-> poll.offset, todo |-> poll.todo, row |-> poll.row]
  /\ poll.offset \in Nat /\ poll.todo \in Seq(Seen)
  /\ poll.pc \in {"entry", "merge", "write"} => poll.todo # <<>>
  /\ poll.pc = "merge" => poll.row \in [hsm_state : HsmLabels]
  /\ poll.pc = "write" => poll.row \in LustreRows(poll.todo[1].obj)

(* The inductive invariant behind NoOrphans: what each writer holds between *)
(* two statements is a row of its object, and only ingest takes rows away,  *)
(* so a row it is about to give an edge is still there.                     *)
CatalogInv == Logged /\ Sane(db) /\ Ingesting /\ Polling

\* The record that ingest is at.
LEMMA RecShaped ==
  ASSUME Logged, pos < batch.end
  PROVE  Shaped(Rec) /\ Obj \in Objects /\ Rec.op \in Ops
  <1>1. pos + 1 \in DOMAIN log
    BY DEF Logged
  <1>. QED
    BY <1>1, Zenon DEF Logged, Rec, Obj, Shaped

\* At the start.
LEMMA CatalogStarts == Init => CatalogInv
  <1> SUFFICES ASSUME Init PROVE CatalogInv
    BY Zenon
  <1>1. /\ log = <<>> /\ db = Empty /\ cursor = 0 /\ pos = 0 /\ ing = Idle /\ poll = PollIdle
        /\ link = [p \in Places |-> None] /\ batch.end = 0
    BY Zenon DEF Init, NoBatch
  <1>2. Logged
    BY <1>1 DEF Logged
  <1>3. Sane(db)
    <2>1. \A o \in Objects : None \in AnyRow /\ {} \in Stripes /\ None \in RowOrNone(o)
      BY DEF AnyRow, RowOrNone, Stripes
    <2>2. Empty \in Tables
      BY <2>1, Zenon DEF Empty, Tables
    <2>. QED
      BY <1>1, <2>1, <2>2, Zenon DEF Empty, Sane
  <1>4. Ingesting /\ Polling
    BY <1>1 DEF Ingesting, Polling, Idle, PollIdle
  <1>. QED
    BY <1>2, <1>3, <1>4, Zenon DEF CatalogInv

\* The filesystem writes one or two records.
Appends(rs) ==
  /\ rs \in Seq(Entries) /\ (\A i \in DOMAIN rs : Shaped(rs[i]))
  /\ log' = log \o rs
  /\ link' \in [Places -> Objects \cup {None}]
  /\ UNCHANGED <<db, cursor, batch, pos, ing, poll>>

\* A record of the filesystem is well shaped.
LEMMA RecordShaped ==
  ASSUME NEW op \in Ops, NEW o \in Objects, NEW p, NEW last \in BOOLEAN,
         op \in Placed => p \in Places,
         op \notin Placed => p \in {None} \X (Names \cup {None})
  PROVE  Record(op, o, p, last) \in Entries /\ Shaped(Record(op, o, p, last))
  BY Zenon DEF Record, Entries, Shaped, Placed

\* One record.
LEMMA OneAppended ==
  ASSUME NEW op \in Ops, NEW o \in Objects, NEW p, NEW last \in BOOLEAN,
         op \in Placed => p \in Places,
         op \notin Placed => p \in {None} \X (Names \cup {None}),
         Writes(op, o, p, last), link' \in [Places -> Objects \cup {None}]
  PROVE  \E rs : Appends(rs)
  <1>1. PICK r \in Entries : r = Record(op, o, p, last) /\ Shaped(r)
    BY RecordShaped, Zenon
  <1>2. log' = log \o <<r>> /\ UNCHANGED <<db, cursor, batch, pos, ing, poll>>
    BY <1>1, Zenon DEF Writes, Logs
  <1>3. Appends(<<r>>)
    BY <1>1, <1>2 DEF Appends
  <1>. QED
    BY <1>3, Zenon

\* Every operation appends well-shaped records.
LEMMA OperationAppends ==
  ASSUME Logged, Operation
  PROVE  \E rs : Appends(rs)
  <1>0. link \in [Places -> Objects \cup {None}]
    BY Zenon DEF Logged
  <1>1. CASE \E o \in Objects, p \in Places : Create(o, p) \/ Link(o, p)
    <2>1. PICK o \in Objects, p \in Places : Create(o, p) \/ Link(o, p)
      BY <1>1, Zenon
    <2>2. PICK op \in {"CREAT", "MKDIR", "HLINK"} : Writes(op, o, p, FALSE) /\ link' = [link EXCEPT ![p] = o]
      BY <2>1, Zenon DEF Create, Link
    <2>. QED
      BY <1>0, <2>2, OneAppended, Zenon DEF Ops, Placed
  <1>2. CASE \E o \in Objects, p \in Places : Touch(o, p)
    <2>1. PICK o \in Objects, p \in Places : Touch(o, p)
      BY <1>2, Zenon
    <2>2. Writes("CLOSE", o, <<None, p[2]>>, FALSE) /\ link' = link
      BY <2>1, Zenon DEF Touch
    <2>3. <<None, p[2]>> \in {None} \X (Names \cup {None})
      BY Constants, Zenon
    <2>. QED
      BY <1>0, <2>2, <2>3, OneAppended, ZenonT(30) DEF Ops, Placed
  <1>3. CASE \E p \in Places : Unlink(p)
    <2>1. PICK p \in Places : Unlink(p)
      BY <1>3, Zenon
    <2>2. PICK o \in Objects : o = link[p]
      BY <1>0, <2>1, Zenon DEF Unlink
    <2>3. PICK op \in {"RMDIR", "UNLNK"}, last \in BOOLEAN : Writes(op, o, p, last) /\ link' = [link EXCEPT ![p] = None]
      BY <2>1, <2>2, Zenon DEF Unlink
    <2>. QED
      BY <1>0, <2>3, OneAppended, Zenon DEF Ops, Placed
  <1>4. CASE \E p, q \in Places : Rename(p, q)
    <2>1. PICK p \in Places, q \in Places : Rename(p, q)
      BY <1>4, Zenon
    <2>2. PICK o \in Objects : o = link[p]
      BY <1>0, <2>1, Zenon DEF Rename
    <2>3. Writes("RENME", o, q, FALSE) /\ link' = [link EXCEPT ![p] = None, ![q] = o]
      BY <2>1, <2>2, ZenonT(30) DEF Rename
    <2>. QED
      BY <1>0, <2>3, OneAppended, Zenon DEF Ops, Placed
  <1>5. CASE \E p, q \in Places : MoveAcross(p, q)
    <2>1. PICK p \in Places, q \in Places : MoveAcross(p, q)
      BY <1>5, Zenon
    <2>2. PICK o \in Objects : o = link[p]
      BY <1>0, <2>1, Zenon DEF MoveAcross
    <2>3. PICK away \in Entries, here \in Entries :
            /\ away = Record("UNLNK", o, p, TRUE)
            /\ here = [Record("RENME", o, q, FALSE) EXCEPT !.mdt = 1]
            /\ Shaped(away) /\ Shaped(here)
      <3>1. PICK r \in Entries : r = Record("RENME", o, q, FALSE) /\ Shaped(r)
        BY RecordShaped, Zenon DEF Ops, Placed
      <3>2. [r EXCEPT !.mdt = 1] \in Entries /\ Shaped([r EXCEPT !.mdt = 1])
        BY <3>1, Zenon DEF Entries, Shaped
      <3>3. Record("UNLNK", o, p, TRUE) \in Entries /\ Shaped(Record("UNLNK", o, p, TRUE))
        BY RecordShaped, Zenon DEF Ops, Placed
      <3>. QED
        BY <3>1, <3>2, <3>3, Zenon
    <2>4. /\ Logs(<<away, here>>) \/ Logs(<<here, away>>)
          /\ link' = [link EXCEPT ![p] = None, ![q] = o]
      BY <2>1, <2>2, <2>3, Zenon DEF MoveAcross
    <2>5. PICK a \in Entries, b \in Entries : Logs(<<a, b>>) /\ Shaped(a) /\ Shaped(b)
      BY <2>3, <2>4, ZenonT(30)
    <2>6. <<a, b>> \in Seq(Entries) /\ \A i \in DOMAIN <<a, b>> : i = 1 \/ i = 2
      OBVIOUS
    <2>7. Appends(<<a, b>>)
      BY <1>0, <2>4, <2>5, <2>6 DEF Appends, Logs
    <2>. QED
      BY <2>7, Zenon
  <1>6. CASE \E o \in Objects : \/ HsmRequest(o, "archive", {"EXISTS", "ARCHIVED"})
                                \/ HsmRequest(o, "remove", {})
                                \/ HsmRequest(o, "TRUNC", {"EXISTS", "ARCHIVED", "RELEASED"})
    <2>1. PICK o \in Objects, op \in {"archive", "remove", "TRUNC"} :
            Writes(op, o, NoPlace, FALSE) /\ link' = link
      BY <1>6, Zenon DEF HsmRequest
    <2>2. NoPlace \in {None} \X (Names \cup {None})
      BY Zenon DEF NoPlace
    <2>. QED
      BY <1>0, <2>1, <2>2, OneAppended, Zenon DEF Ops, Placed
  <1>. QED
    BY <1>1, <1>2, <1>3, <1>4, <1>5, <1>6, Zenon DEF Operation

\* More records change nothing of the catalog.
LEMMA OperationKeeps ==
  ASSUME CatalogInv, Operation
  PROVE  CatalogInv'
  <1>0. PICK rs : Appends(rs)
    BY OperationAppends, Zenon DEF CatalogInv
  <1>1. /\ log \in Seq(Entries) /\ rs \in Seq(Entries) /\ log' = log \o rs
        /\ UNCHANGED <<db, cursor, batch, pos, ing, poll>> /\ link' \in [Places -> Objects \cup {None}]
        /\ pos \in Nat /\ pos <= batch.end /\ cursor \in Nat /\ cursor <= pos
        /\ batch.end \in Nat /\ batch.end <= Len(log)
        /\ \A i \in DOMAIN log : Shaped(log[i])
        /\ \A i \in DOMAIN rs : Shaped(rs[i])
    BY <1>0, ZenonT(30) DEF CatalogInv, Logged, Appends
  <1>2. /\ log' \in Seq(Entries) /\ Len(log') = Len(log) + Len(rs) /\ Len(rs) \in Nat /\ Len(log) \in Nat
        /\ \A i \in 1..Len(log) : log'[i] = log[i]
    BY <1>1
  <1>3. ASSUME NEW i \in DOMAIN log'
        PROVE  Shaped(log'[i])
    <2>1. CASE i \in 1..Len(log)
      BY <1>1, <1>2, <2>1
    <2>2. CASE i \notin 1..Len(log)
      <3>1. i - Len(log) \in 1..Len(rs) /\ log'[i] = rs[i - Len(log)]
        BY <1>1, <1>2, <2>2
      <3>. QED
        BY <1>1, <3>1
    <2>. QED
      BY <2>1, <2>2, Zenon
  <1>4. Logged'
    BY <1>1, <1>2, <1>3 DEF Logged
  <1>5. pos < batch.end => Rec' = Rec
    BY <1>1, <1>2 DEF Rec
  <1>6. Ingesting'
    BY <1>1, <1>2, <1>5 DEF CatalogInv, Ingesting
  <1>7. Polling' /\ Sane(db)'
    BY <1>1, ZenonT(30) DEF CatalogInv, Polling
  <1>. QED
    BY <1>4, <1>6, <1>7, Zenon DEF CatalogInv

\* A step of ingest that leaves the catalog as it is.
LEMMA GoesKeeps ==
  ASSUME CatalogInv, pos < batch.end, NEW pc, NEW row, Goes(pc, row), Holding(pc, row, Rec, db), pc # "idle"
  PROVE  CatalogInv'
  <1>1. ing' = [pc |-> pc, row |-> row] /\ UNCHANGED <<link, log, db, cursor, batch, pos, poll>>
    BY Zenon DEF Goes, Keeps, ByIngest, fs
  <1>2. ing'.pc = pc /\ ing'.row = row /\ Rec' = Rec /\ ing' = [pc |-> ing'.pc, row |-> ing'.row]
    BY <1>1, Zenon DEF Rec
  <1>3. Ingesting'
    BY <1>1, <1>2, Zenon DEF Ingesting
  <1>. QED
    BY <1>1, <1>3, Zenon DEF CatalogInv, Logged, Polling

\* The record is done.
LEMMA FinishKeeps ==
  ASSUME CatalogInv, pos < batch.end, Finish
  PROVE  CatalogInv'
  <1>1. ing' = Idle /\ UNCHANGED <<link, log, db, batch, poll>> /\ pos' = pos + 1 /\ cursor' \in {cursor, pos + 1}
    BY Zenon DEF Finish, ByIngest, fs
  <1>2. Logged'
    BY <1>1 DEF CatalogInv, Logged
  <1>3. Ingesting'
    BY <1>1, Zenon DEF Ingesting, Idle
  <1>. QED
    BY <1>1, <1>2, <1>3, Zenon DEF CatalogInv, Polling

\* A statement of ingest.
LEMMA StoresKeeps ==
  ASSUME CatalogInv, pos < batch.end, NEW new, NEW pc, Stores(new, pc), Sane(new),
         Holding(pc, ing.row, Rec, new), pc # "idle"
  PROVE  CatalogInv'
  <1>1. ing' = [pc |-> pc, row |-> ing.row] /\ db' = new /\ UNCHANGED <<link, log, cursor, batch, pos, poll>>
    BY Zenon DEF Stores, Keeps, ByIngest, fs
  <1>2. ing'.pc = pc /\ ing'.row = ing.row /\ Rec' = Rec /\ ing' = [pc |-> ing'.pc, row |-> ing'.row]
    BY <1>1, Zenon DEF Rec
  <1>3. Ingesting'
    BY <1>1, <1>2, ZenonT(30) DEF Ingesting
  <1>. QED
    BY <1>1, <1>3, ZenonT(30) DEF CatalogInv, Logged, Polling

\* A batch is cut, and the records that the deduplicator dropped are passed over.
LEMMA BatchKeeps ==
  ASSUME CatalogInv, Flush \/ Skip
  PROVE  CatalogInv'
  <1>1. CASE Flush
    <2>1. PICK end \in (pos + 1)..Len(log) : batch' = [end |-> end, queue |-> Pushed(pos, end)]
      BY <1>1, Zenon DEF Flush
    <2>2. UNCHANGED <<link, log, db, cursor, pos, ing, poll>> /\ ing.pc = "idle" /\ batch'.end = end
      BY <1>1, <2>1, Zenon DEF Flush, fs
    <2>3. Logged'
      BY <2>1, <2>2 DEF CatalogInv, Logged
    <2>4. Ingesting' /\ Polling' /\ Sane(db)'
      BY <2>2, Zenon DEF CatalogInv, Ingesting, Polling
    <2>. QED
      BY <2>3, <2>4, Zenon DEF CatalogInv
  <1>2. CASE Skip
    BY <1>2, FinishKeeps, Zenon DEF Skip
  <1>. QED
    BY <1>1, <1>2, Zenon

\* A record is taken up.
LEMMA ApplyKeeps ==
  ASSUME CatalogInv, Apply
  PROVE  CatalogInv'
  <1>0. pos < batch.end
    BY Zenon DEF Apply
  <1>1. /\ Shaped(Rec) /\ Obj \in Objects /\ Rec.op \in Ops /\ Rec.obj = Obj
        /\ Sane(db) /\ db.entry[Obj] \in RowOrNone(Obj) /\ None \in RowOrNone(Obj)
    BY <1>0, RecShaped, ZenonT(30) DEF CatalogInv, Sane, RowOrNone, Obj
  <1>2. CASE Finish
    BY <1>0, <1>2, FinishKeeps, Zenon
  <1>3. CASE \E pc \in {"stat", "check", "unedge", "remove"} :
               /\ Goes(pc, None)
               /\ pc = "stat" => Rec.op \in Placed
               /\ pc = "unedge" => Rec.op = "UNLNK"
    <2>1. PICK pc \in {"stat", "check", "unedge", "remove"} :
               /\ Goes(pc, None)
               /\ pc = "stat" => Rec.op \in Placed
               /\ pc = "unedge" => Rec.op = "UNLNK"
      BY <1>3, Zenon
    <2>2. Holding(pc, None, Rec, db)
      BY <1>1, <2>1, Zenon DEF Holding, Pcs, Writing
    <2>. QED
      BY <1>0, <2>1, <2>2, GoesKeeps, Zenon
  <1>4. CASE db.entry[Obj] # None /\ Rec.op \in Restats /\ Goes("stat", db.entry[Obj])
    <2>1. Holding("stat", db.entry[Obj], Rec, db)
      BY <1>1, <1>4, ZenonT(30) DEF Holding, Pcs, Writing, Placed, Restats
    <2>. QED
      BY <1>0, <1>4, <2>1, GoesKeeps, Zenon
  <1>5. CASE /\ db.entry[Obj] # None
             /\ \/ Rec.op = "HLINK" /\ Goes("write", [db.entry[Obj] EXCEPT !.parent = Rec.at[1], !.name = Rec.at[2], !.nlink = MoreLinks(@)])
                \/ Rec.op = "RENME" /\ Goes("displace", [db.entry[Obj] EXCEPT !.parent = Rec.at[1], !.name = Rec.at[2]])
                \/ Rec.op \in HsmOps /\ Goes("patch", patch_scoped_sm_status(db.entry[Obj], HsmPatch(Rec.op)))
    <2>0. PICK o \in Objects : o = Obj
      BY <1>1, Zenon
    <2>1. PICK row \in LustreRows(o) : row = db.entry[o]
      BY <1>1, <1>5, <2>0, Zenon DEF RowOrNone
    <2>2. Rec.op \notin HsmOps => Rec.at[1] \in Dirs \cup {Root} /\ Rec.at[2] \in Names
      BY <1>1, <1>5, Constants, Zenon DEF Shaped, Placed
    <2>3. PICK c \in 0..MaxLinks : c = MoreLinks(row.nlink)
      BY RowChanges, Zenon
    <2>4. Rec.op \in HsmOps => HsmPatch(Rec.op) \in Statuses
      BY Patches, Zenon DEF HsmOps, HsmPatch, HsmLabels
    <2>5. CASE Rec.op = "HLINK"
      <3>1. PICK new \in LustreRows(o) : new = [row EXCEPT !.parent = Rec.at[1], !.name = Rec.at[2], !.nlink = c]
        BY <2>2, <2>5, RowChanges, Zenon DEF HsmOps
      <3>2. Goes("write", new)
        BY <1>5, <2>0, <2>1, <2>3, <2>5, <3>1, Zenon DEF HsmOps
      <3>3. Holding("write", new, Rec, db)
        BY <1>1, <2>0, Constants, Zenon DEF Holding, Pcs, Writing, RowOrNone
      <3>. QED
        BY <1>0, <3>2, <3>3, GoesKeeps, Zenon
    <2>6. CASE Rec.op = "RENME"
      <3>1. PICK new \in LustreRows(o) : new = [row EXCEPT !.parent = Rec.at[1], !.name = Rec.at[2]]
        BY <2>2, <2>6, RowChanges, CatalogAssumption, Zenon DEF HsmOps
      <3>2. Goes("displace", new)
        BY <1>5, <2>0, <2>1, <2>6, <3>1, Zenon DEF HsmOps
      <3>3. Holding("displace", new, Rec, db)
        BY <1>1, <2>0, Constants, Zenon DEF Holding, Pcs, Writing, RowOrNone
      <3>. QED
        BY <1>0, <3>2, <3>3, GoesKeeps, Zenon
    <2>7. CASE Rec.op \in HsmOps
      <3>1. PICK new \in LustreRows(o) : new = patch_scoped_sm_status(row, HsmPatch(Rec.op))
        BY <2>4, <2>7, RowChanges, Zenon
      <3>2. Goes("patch", new)
        BY <1>5, <2>0, <2>1, <2>7, <3>1, Zenon DEF HsmOps
      <3>3. Holding("patch", new, Rec, db)
        BY <1>1, <2>0, Constants, Zenon DEF Holding, Pcs, Writing, RowOrNone
      <3>. QED
        BY <1>0, <3>2, <3>3, GoesKeeps, Zenon
    <2>. QED
      BY <1>5, <2>5, <2>6, <2>7, Zenon
  <1>. QED
    BY <1>2, <1>3, <1>4, <1>5, Zenon DEF Apply, get_lustre_entry, Placed

\* What ingest has at a step other than idle.
LEMMA AtStep ==
  ASSUME CatalogInv, ing.pc # "idle"
  PROVE  /\ pos < batch.end /\ Holding(ing.pc, ing.row, Rec, db) /\ Shaped(Rec)
         /\ Obj \in Objects /\ Rec.obj = Obj /\ Rec.op \in Ops /\ Sane(db)
         /\ db.entry[Obj] \in RowOrNone(Obj) /\ None \in RowOrNone(Obj) /\ ing.row \in RowOrNone(Obj)
         /\ ing.pc \in Writing => ing.row \in LustreRows(Obj)
  <1>1. pos < batch.end /\ Holding(ing.pc, ing.row, Rec, db)
    BY Zenon DEF CatalogInv, Ingesting
  <1>2. Shaped(Rec) /\ Obj \in Objects /\ Rec.op \in Ops
    BY <1>1, RecShaped, Zenon DEF CatalogInv
  <1>. QED
    BY <1>1, <1>2, Zenon DEF CatalogInv, Sane, RowOrNone, Obj, Holding

\* The stat that a record calls for.
LEMMA StatKeeps ==
  ASSUME CatalogInv, Stat
  PROVE  CatalogInv'
  <1>0. ing.pc = "stat"
    BY Zenon DEF Stat
  <1>1. /\ pos < batch.end /\ Holding("stat", ing.row, Rec, db) /\ Shaped(Rec)
        /\ Obj \in Objects /\ Rec.obj = Obj /\ Rec.op \in Ops /\ ing.row \in RowOrNone(Obj)
    BY <1>0, AtStep, Zenon
  <1>2. CASE Finish
    BY <1>1, <1>2, FinishKeeps, Zenon
  <1>3. CASE ~Finish
    <2>1. PICK o \in Objects : o = Obj
      BY <1>1, Zenon
    <2>2. PICK p : p = Rec.at
      BY Zenon
    <2>3. (IF ing.row = None THEN StatRow(o, p) ELSE RestatRow(ing.row, o, p)) \in LustreRows(o)
      <3>1. CASE ing.row = None
        BY <1>1, <2>2, <3>1, StatRows, Zenon DEF Holding, Shaped
      <3>2. CASE ing.row # None
        <4>1. ing.row \in LustreRows(o) /\ p[1] = None /\ p[2] \in Names \cup {None}
          BY <1>1, <2>1, <2>2, <3>2, Zenon DEF Holding, Shaped, RowOrNone
        <4>. QED
          BY <3>2, <4>1, StatRows, Zenon
      <3>. QED
        BY <3>1, <3>2, Zenon
    <2>4. PICK new \in LustreRows(o) : new = IF ing.row = None THEN StatRow(o, p) ELSE RestatRow(ing.row, o, p)
      BY <2>3, Zenon
    <2>5. PICK pc \in {"displace", "write"} : Goes(pc, new)
      BY <1>3, <2>1, <2>2, <2>4, Zenon DEF Stat
    <2>6. Holding(pc, new, Rec, db)
      BY <1>1, <2>1, Constants, Zenon DEF Holding, Pcs, Writing, RowOrNone
    <2>. QED
      BY <1>1, <2>5, <2>6, GoesKeeps, Zenon
  <1>. QED
    BY <1>2, <1>3, Zenon

\* The statements of ingest.
LEMMA StatementKeeps ==
  ASSUME CatalogInv,
         \/ Write \/ RemoveEntry \/ UnlinkEdge \/ Displace \/ RenameEdges \/ RenameRow
         \/ RenameEdge \/ StatePatch \/ WriteTags
  PROVE  CatalogInv'
  <1>0. ing.pc \in {"write", "remove", "unedge", "displace", "edges", "row", "edge", "patch", "tagged"}
    BY ZenonT(30) DEF Write, RemoveEntry, UnlinkEdge, Displace, RenameEdges, RenameRow, RenameEdge, StatePatch, WriteTags
  <1>1. /\ pos < batch.end /\ Holding(ing.pc, ing.row, Rec, db) /\ Shaped(Rec)
        /\ Obj \in Objects /\ Rec.obj = Obj /\ Rec.op \in Ops /\ Sane(db) /\ ing.row \in RowOrNone(Obj)
        /\ ing.pc \in Writing => ing.row \in LustreRows(Obj)
    BY <1>0, AtStep, ZenonT(30)
  <1>2. PICK o \in Objects : o = Obj
    BY <1>1, Zenon
  <1>3. ASSUME NEW pc \in {"refresh", "tag", "reread", "done"}, NEW new, Sane(new), Stores(new, pc)
        PROVE  CatalogInv'
    <2>1. Holding(pc, ing.row, Rec, new)
      BY <1>1, ZenonT(30) DEF Holding, Pcs, Writing
    <2>. QED
      BY <1>1, <1>3, <2>1, StoresKeeps, Zenon
  <1>4. CASE Write
    <2>1. PICK row \in LustreRows(o) : row = ing.row
      BY <1>1, <1>2, <1>4, Zenon DEF Write, Writing
    <2>2. PICK pc \in {"refresh", "tag"} : Stores(upsert_lustre_entry(db, o, row), pc)
      BY <1>2, <1>4, <2>1, Zenon DEF Write
    <2>. QED
      BY <1>1, <1>3, <2>2, Upserted, Zenon
  <1>5. CASE RemoveEntry
    BY <1>1, <1>3, <1>5, RowRemoved, Zenon DEF RemoveEntry
  <1>6. CASE UnlinkEdge
    <2>1. Rec.at \in Places
      BY <1>1, <1>6, Zenon DEF UnlinkEdge, Holding, Shaped, Placed
    <2>. QED
      BY <1>1, <1>3, <1>6, <2>1, EdgeRemoved, Zenon DEF UnlinkEdge
  <1>7. CASE Displace
    <2>1. PICK new : new = IF Displaced(db, Obj, ing.row) = None THEN db ELSE remove_lustre_entry(db, Displaced(db, Obj, ing.row))
      BY Zenon
    <2>2. Stores(new, "edges") /\ ing.row \in LustreRows(o)
      BY <1>1, <1>2, <1>7, <2>1, Zenon DEF Displace, Writing
    <2>3. Displaced(db, Obj, ing.row) # None => Displaced(db, Obj, ing.row) \in Objects
      <3>1. At(ing.row) \in Places
        BY <2>2, RowChanges, ZenonT(30)
      <3>. QED
        BY <1>1, <3>1, Zenon DEF Displaced, Sane, Tables
    <2>4. Sane(new)
      BY <1>1, <2>1, <2>3, RowRemoved, Zenon
    <2>5. Holding("edges", ing.row, Rec, new)
      BY <1>1, <1>2, <2>2, Constants, Zenon DEF Holding, Pcs, Writing
    <2>. QED
      BY <1>1, <2>2, <2>4, <2>5, StoresKeeps, Zenon
  <1>8. CASE RenameEdges
    <2>1. Stores(DropEdges(db, o), "row") /\ Sane(DropEdges(db, o)) /\ ing.row \in LustreRows(o)
      BY <1>1, <1>2, <1>8, EdgesDropped, Zenon DEF RenameEdges, Writing
    <2>2. Holding("row", ing.row, Rec, DropEdges(db, o))
      BY <1>1, <1>2, <2>1, Constants, Zenon DEF Holding, Pcs, Writing
    <2>. QED
      BY <1>1, <2>1, <2>2, StoresKeeps, Zenon
  <1>9. CASE RenameRow
    <2>1. PICK row \in LustreRows(o) : row = ing.row
      BY <1>1, <1>2, <1>9, Zenon DEF RenameRow, Writing
    <2>2. PICK new : new = upsert_scoped_entry(db, o, row)
      BY Zenon
    <2>3. Stores(new, "edge") /\ Sane(new) /\ new.entry[o] # None
      BY <1>1, <1>2, <1>9, <2>1, <2>2, RowWritten, ZenonT(30) DEF RenameRow
    <2>4. Holding("edge", ing.row, Rec, new)
      BY <1>1, <1>2, <2>1, <2>3, Constants, Zenon DEF Holding, Pcs, Writing
    <2>. QED
      BY <1>1, <2>3, <2>4, StoresKeeps, Zenon
  <1>10. CASE RenameEdge
    <2>1. ing.row \in LustreRows(o) /\ db.entry[o] # None
      BY <1>1, <1>2, <1>10, Zenon DEF RenameEdge, Writing, Holding
    <2>2. At(ing.row) \in Places
      BY <2>1, RowChanges, Zenon
    <2>3. Sane(upsert_scoped_namespace_edge(db, At(ing.row), o))
      BY <1>1, <2>1, <2>2, EdgeWritten, ZenonT(30)
    <2>. QED
      BY <1>2, <1>3, <1>10, <2>3, Zenon DEF RenameEdge
  <1>11. CASE StatePatch \/ WriteTags
    <2>1. PICK row \in LustreRows(o) : row = ing.row
      BY <1>1, <1>2, <1>11, Zenon DEF StatePatch, WriteTags, Writing
    <2>2. PICK pc \in {"tag", "done"} : Stores(upsert_scoped_entry(db, o, row), pc)
      BY <1>2, <1>11, <2>1, Zenon DEF StatePatch, WriteTags
    <2>. QED
      BY <1>1, <1>3, <2>2, RowWritten, ZenonT(30)
  <1>. QED
    BY <1>4, <1>5, <1>6, <1>7, <1>8, <1>9, <1>10, <1>11, Zenon

\* The other steps of ingest, which read and go on.
LEMMA ReadKeeps ==
  ASSUME CatalogInv, FidStillLive \/ UnlinkReread \/ RefreshHsm \/ Classify \/ Done
  PROVE  CatalogInv'
  <1>0. ing.pc \in {"check", "reread", "refresh", "tag", "done"}
    BY Zenon DEF FidStillLive, UnlinkReread, RefreshHsm, Classify, Done
  <1>1. /\ pos < batch.end /\ Shaped(Rec) /\ Obj \in Objects /\ Rec.obj = Obj /\ Sane(db)
        /\ db.entry[Obj] \in RowOrNone(Obj) /\ None \in RowOrNone(Obj)
    BY <1>0, AtStep, ZenonT(30)
  <1>2. PICK o \in Objects : o = Obj
    BY <1>1, Zenon
  <1>3. CASE Finish
    BY <1>1, <1>3, FinishKeeps, Zenon
  <1>4. CASE \E pc \in {"remove", "tag"} : Goes(pc, None)
    <2>1. PICK pc \in {"remove", "tag"} : Goes(pc, None)
      BY <1>4, Zenon
    <2>2. Holding(pc, None, Rec, db)
      BY <1>1, <2>1, Zenon DEF Holding, Pcs, Writing
    <2>. QED
      BY <1>1, <2>1, <2>2, GoesKeeps, Zenon
  <1>5. ASSUME NEW new \in LustreRows(o), NEW pc \in {"write", "patch", "tagged"}, Goes(pc, new)
        PROVE  CatalogInv'
    <2>1. Holding(pc, new, Rec, db)
      BY <1>1, <1>2, Constants, Zenon DEF Holding, Pcs, Writing, RowOrNone
    <2>. QED
      BY <1>1, <1>5, <2>1, GoesKeeps, Zenon
  <1>6. CASE UnlinkReread /\ ~Finish
    <2>1. PICK row \in LustreRows(o) : row = db.entry[o]
      BY <1>1, <1>2, <1>6, Zenon DEF UnlinkReread, get_lustre_entry, RowOrNone
    <2>2. PICK c \in 0..MaxLinks : c = FewerLinks(row.nlink)
      BY RowChanges, ZenonT(30)
    <2>3. row.parent \in Dirs \cup {Root} /\ row.name \in Names
      BY RowChanges, ZenonT(30)
    <2>4. [row EXCEPT !.nlink = c] \in LustreRows(o)
      BY <2>3, RowChanges, Zenon
    <2>5. Goes("write", [row EXCEPT !.nlink = c])
      BY <1>2, <1>6, <2>1, <2>2, Constants, Zenon DEF UnlinkReread, get_lustre_entry
    <2>. QED
      BY <1>5, <2>4, <2>5, Zenon
  <1>7. CASE RefreshHsm
    <2>1. CASE Goes("tag", None)
      BY <1>4, <2>1, Zenon
    <2>2. CASE ~Goes("tag", None)
      <3>1. PICK row \in LustreRows(o) : row = db.entry[o]
        BY <1>1, <1>2, <1>7, <2>2, Zenon DEF RefreshHsm, get_lustre_entry, RowOrNone
      <3>2. PICK label \in HsmLabels : label = Refreshed(hsm[o], Label(row))
        BY RowChanges, Zenon DEF Refreshed, HsmLabels
      <3>3. Goes("patch", patch_scoped_sm_status(row, [hsm_state |-> label]))
        BY <1>2, <1>7, <2>2, <3>1, <3>2, Zenon DEF RefreshHsm, get_lustre_entry
      <3>4. patch_scoped_sm_status(row, [hsm_state |-> label]) \in LustreRows(o)
        BY RowChanges, Patches, Zenon
      <3>. QED
        BY <1>5, <3>3, <3>4, Zenon
    <2>. QED
      BY <2>1, <2>2, Zenon
  <1>8. CASE Classify /\ ~Finish
    <2>1. PICK row \in LustreRows(o) : row = db.entry[o]
      BY <1>1, <1>2, <1>8, Zenon DEF Classify, get_lustre_entry, RowOrNone
    <2>2. row.name \in Names /\ Goes("tagged", update_scoped_xattr(row, Rules[row.name]))
      BY <1>2, <1>8, <2>1, RowChanges, ZenonT(30) DEF Classify, get_lustre_entry
    <2>3. update_scoped_xattr(row, Rules[row.name]) \in LustreRows(o)
      BY <2>2, RowChanges, Zenon
    <2>. QED
      BY <1>5, <2>2, <2>3, Zenon
  <1>. QED
    BY <1>3, <1>4, <1>6, <1>7, <1>8, Zenon DEF FidStillLive, Done

\* After a crash ingest is idle at the durable checkpoint, and the poller starts again.
LEMMA CrashKeeps ==
  ASSUME CatalogInv, Crash
  PROVE  CatalogInv'
  <1>1. /\ pos' = cursor /\ batch'.end = cursor /\ ing' = Idle /\ poll' = PollIdle
        /\ UNCHANGED <<link, log, db, cursor>>
    BY Zenon DEF Crash, NoBatch, fs
  <1>2. Logged'
    BY <1>1 DEF CatalogInv, Logged
  <1>3. Ingesting' /\ Polling'
    BY <1>1 DEF Ingesting, Polling, Idle, PollIdle
  <1>. QED
    BY <1>1, <1>2, <1>3, Zenon DEF CatalogInv

\* A poller that leaves the tables, or writes a row to them, leaves the rest alone.
LEMMA PollsKeeps ==
  ASSUME CatalogInv, NEW new, Polls(new), Sane(db)', Polling',
         \A x \in Objects : db.entry[x] # None => db'.entry[x] # None
  PROVE  CatalogInv'
  <1>1. UNCHANGED <<link, log, cursor, batch, pos, ing>> /\ Rec' = Rec
    BY Zenon DEF Polls, fs, Rec
  <1>2. Logged'
    BY <1>1, Zenon DEF CatalogInv, Logged
  <1>3. Ingesting'
    <2>1. CASE ing.pc = "idle"
      BY <1>1, <2>1, Zenon DEF CatalogInv, Ingesting
    <2>2. CASE ing.pc # "idle"
      <3>1. pos < batch.end /\ Holding(ing.pc, ing.row, Rec, db) /\ Rec.obj \in Objects
        BY <2>2, AtStep, Zenon
      <3>2. Holding(ing.pc, ing.row, Rec, db')
        BY <3>1, Zenon DEF Holding
      <3>. QED
        BY <1>1, <2>2, <3>1, <3>2, Zenon DEF CatalogInv, Ingesting
    <2>. QED
      BY <2>1, <2>2, Zenon
  <1>. QED
    BY <1>2, <1>3, Zenon DEF CatalogInv

\* The poller at a row of its page, and after it.
LEMMA AtRow ==
  ASSUME Polling, poll.pc \in {"entry", "merge", "write"}
  PROVE  /\ poll.todo[1] \in Seen /\ Head(poll.todo) = poll.todo[1]
         /\ \A new : new = NextRow(poll) =>
              /\ new = [pc |-> new.pc, offset |-> new.offset, todo |-> new.todo, row |-> new.row]
              /\ new.offset \in Nat /\ new.todo \in Seq(Seen)
              /\ new.pc \in {"entry", "page"} /\ (new.pc = "entry" => new.todo # <<>>)
  <1>1. poll.todo \in Seq(Seen) /\ poll.todo # <<>> /\ poll.offset \in Nat
        /\ poll = [pc |-> poll.pc, offset |-> poll.offset, todo |-> poll.todo, row |-> poll.row]
    BY Zenon DEF Polling
  <1>2. /\ poll.todo[1] \in Seen /\ Head(poll.todo) = poll.todo[1] /\ Tail(poll.todo) \in Seq(Seen)
        /\ Len(Tail(poll.todo)) = Len(poll.todo) - 1
    BY <1>1
  <1>3. ASSUME NEW new, new = NextRow(poll)
        PROVE  /\ new = [pc |-> new.pc, offset |-> new.offset, todo |-> new.todo, row |-> new.row]
               /\ new.offset \in Nat /\ new.todo \in Seq(Seen)
               /\ new.pc \in {"entry", "page"} /\ (new.pc = "entry" => new.todo # <<>>)
    <2>1. new = [pc |-> IF Len(poll.todo) > 1 THEN "entry" ELSE "page",
                 offset |-> IF Len(poll.todo) = 1 /\ poll.offset % Batch # 0 THEN 0 ELSE poll.offset,
                 todo |-> Tail(poll.todo), row |-> None]
      BY <1>1, <1>3, Zenon DEF NextRow
    <2>2. new.pc = "entry" => Len(new.todo) > 0
      BY <1>1, <1>2, <2>1
    <2>3. new = [pc |-> new.pc, offset |-> new.offset, todo |-> new.todo, row |-> new.row]
      BY <2>1, Zenon
    <2>4. new.todo \in Seq(Seen) /\ new.pc \in {"entry", "page"}
      BY <1>2, <2>1, Zenon
    <2>5. new.offset \in {0, poll.offset}
      BY <2>1, Zenon
    <2>6. new.offset \in Nat
      BY <1>1, <2>5
    <2>7. new.pc = "entry" => new.todo # <<>>
      BY <2>2, <2>4
    <2>. QED
      BY <2>3, <2>4, <2>6, <2>7, Zenon
  <1>. QED
    BY <1>2, <1>3, Zenon

\* A poller between two rows holds none.
LEMMA NextRowKeeps ==
  ASSUME Polling, poll.pc \in {"entry", "merge", "write"}, poll' = NextRow(poll)
  PROVE  Polling'
  <1>1. PICK new : new = NextRow(poll)
    BY Zenon
  <1>. QED
    BY <1>1, AtRow, Zenon DEF Polling

\* The steps of the HSM poller.
LEMMA PollerKeeps ==
  ASSUME CatalogInv, Poller
  PROVE  CatalogInv'
  <1>0. Polling /\ Sane(db)
    BY Zenon DEF CatalogInv
  <1>1. CASE Page
    <2>1. PICK rows \in Seq(Seen) : rows = query_scoped_page(db, Batch, poll.offset)
      BY <1>0, PageRows, Zenon DEF Polling
    <2>2. Polling'
      <3>1. CASE poll' = PollIdle
        BY <3>1 DEF Polling, PollIdle
      <3>2. CASE poll' # PollIdle
        <4>1. /\ poll' = [poll EXCEPT !.pc = "entry", !.todo = rows, !.offset = poll.offset + Len(rows)]
              /\ rows # <<>>
          BY <1>1, <2>1, <3>2, Zenon DEF Page, Polls
        <4>2. poll' = [pc |-> "entry", offset |-> poll.offset + Len(rows), todo |-> rows, row |-> poll.row]
          BY <1>0, <4>1, Zenon DEF Polling
        <4>3. poll.offset + Len(rows) \in Nat
          BY <1>0 DEF Polling
        <4>. QED
          BY <4>1, <4>2, <4>3, Zenon DEF Polling
      <3>. QED
        BY <3>1, <3>2, Zenon
    <2>3. db' = db /\ \E new : Polls(new)
      BY <1>1, Zenon DEF Page
    <2>. QED
      BY <1>0, <2>2, <2>3, PollsKeeps, Zenon
  <1>2. CASE Observe
    <2>0. poll.pc = "entry" /\ db' = db /\ \E new : Polls(new)
      BY <1>2, Zenon DEF Observe
    <2>1. PICK live \in HsmLabels : live = label_of_state(hsm[Head(poll.todo).obj])
      BY DEF label_of_state, HsmLabels
    <2>2. Polling'
      <3>1. CASE poll' = NextRow(poll)
        BY <1>0, <2>0, <3>1, NextRowKeeps, Zenon
      <3>2. CASE poll' # NextRow(poll)
        <4>1. poll' = [poll EXCEPT !.pc = "merge", !.row = [hsm_state |-> live]]
          BY <1>2, <2>1, <3>2, Zenon DEF Observe, Polls
        <4>2. poll' = [pc |-> "merge", offset |-> poll.offset, todo |-> poll.todo, row |-> [hsm_state |-> live]]
          BY <1>0, <4>1, Zenon DEF Polling
        <4>. QED
          BY <1>0, <2>0, <4>2, Zenon DEF Polling
      <3>. QED
        BY <3>1, <3>2, Zenon
    <2>. QED
      BY <1>0, <2>0, <2>2, PollsKeeps, Zenon
  <1>3. CASE PollMerge
    <2>0. poll.pc = "merge" /\ db' = db /\ \E new : Polls(new)
      BY <1>3, Zenon DEF PollMerge
    <2>1. PICK o \in Objects : o = Head(poll.todo).obj
      BY <1>0, <2>0, AtRow, Zenon DEF Seen
    <2>2. Polling'
      <3>1. CASE poll' = NextRow(poll)
        BY <1>0, <2>0, <3>1, NextRowKeeps, Zenon
      <3>2. CASE poll' # NextRow(poll)
        <4>1. PICK row \in LustreRows(o) : row = db.entry[o]
          BY <1>0, <1>3, <2>1, <3>2, Zenon DEF PollMerge, Polls, Sane, RowOrNone
        <4>2. poll' = [poll EXCEPT !.pc = "write", !.row = patch_scoped_sm_status(row, poll.row)]
          BY <1>3, <2>1, <3>2, <4>1, Zenon DEF PollMerge, Polls
        <4>3. poll.row \in Statuses
          <5>1. PICK label \in HsmLabels : poll.row = [hsm_state |-> label]
            BY <1>0, <2>0, Zenon DEF Polling
          <5>. QED
            BY <5>1, Patches, Zenon
        <4>4. PICK merged \in LustreRows(o) : merged = patch_scoped_sm_status(row, poll.row)
          BY <4>3, RowChanges, Zenon
        <4>5. poll' = [pc |-> "write", offset |-> poll.offset, todo |-> poll.todo, row |-> merged]
          BY <1>0, <4>2, <4>4, Zenon DEF Polling
        <4>6. o = poll.todo[1].obj
          BY <1>0, <2>0, <2>1, AtRow, Zenon
        <4>. QED
          BY <1>0, <2>0, <4>5, <4>6, Zenon DEF Polling
      <3>. QED
        BY <3>1, <3>2, Zenon
    <2>. QED
      BY <1>0, <2>0, <2>2, PollsKeeps, Zenon
  <1>4. CASE PollWrite
    <2>0. poll.pc = "write" /\ Polls(NextRow(poll)) /\ db' = upsert_scoped_entry(db, Head(poll.todo).obj, poll.row)
      BY <1>4, Zenon DEF PollWrite
    <2>1. PICK o \in Objects : o = Head(poll.todo).obj
      BY <1>0, <2>0, AtRow, Zenon DEF Seen
    <2>2. PICK row \in LustreRows(o) : row = poll.row
      BY <1>0, <2>0, <2>1, AtRow, Zenon DEF Polling
    <2>3. PICK new : new = upsert_scoped_entry(db, o, row)
      BY Zenon
    <2>4. Sane(new) /\ \A x \in Objects : db.entry[x] # None => new.entry[x] # None
      BY <1>0, <2>3, RowWritten, Zenon
    <2>5. db' = new /\ Sane(db)'
      BY <2>0, <2>1, <2>2, <2>3, <2>4, Zenon
    <2>6. Polling'
      BY <1>0, <2>0, NextRowKeeps, Zenon DEF Polls
    <2>. QED
      BY <2>0, <2>4, <2>5, <2>6, PollsKeeps, Zenon
  <1>. QED
    BY <1>1, <1>2, <1>3, <1>4, Zenon DEF Poller

\* A stuttering step changes nothing the invariant speaks of.
LEMMA NothingKeeps ==
  ASSUME CatalogInv, UNCHANGED vars
  PROVE  CatalogInv'
  BY Zenon DEF CatalogInv, Logged, Ingesting, Polling, Rec, vars

\* The invariant gives the types and the absence of orphans.
LEMMA InvNoOrphans == CatalogInv => NoOrphans
  <1> SUFFICES ASSUME CatalogInv PROVE NoOrphans
    BY Zenon
  <1>0. Sane(db)
    BY Zenon DEF CatalogInv
  <1>1. ASSUME NEW o \in Objects, NEW row \in LustreRows(o)
        PROVE  RowOK(row) /\ row.osts = Osts(o)
    BY <1>1, Zenon DEF LustreRows, Statuses, RowOK
  <1>2. CatalogOK(db)
    BY <1>0, <1>1, Zenon DEF CatalogOK, Sane, Tables, RowOrNone
  <1>3. batch.end \in 0..Len(log) /\ pos \in 0..batch.end /\ cursor \in 0..pos
    BY DEF CatalogInv, Logged
  <1>4. ing.row # None => RowOK(ing.row)
    <2>1. CASE ing.pc = "idle"
      BY <2>1, Zenon DEF CatalogInv, Ingesting
    <2>2. CASE ing.pc # "idle"
      BY <1>1, <2>2, AtStep, Zenon DEF RowOrNone
    <2>. QED
      BY <2>1, <2>2, Zenon
  <1>5. \A i \in DOMAIN poll.todo : RowOK(poll.todo[i].row)
    BY <1>1 DEF CatalogInv, Polling, Seen
  <1>6. \A o \in Objects : db.stripe[o] # {} => db.entry[o] # None /\ db.stripe[o] = db.entry[o].osts
    BY <1>0, <1>1, Zenon DEF Sane, RowOrNone
  <1>. QED
    BY <1>0, <1>2, <1>3, <1>4, <1>5, <1>6, Zenon DEF NoOrphans, TypeOK, Sane

(* Whatever the filesystem does, however its log is cut into batches and      *)
(* deduplicated, and replayed, wherever ingest crashes in a record and        *)
(* whatever row the HSM poller read before and writes after (changelog.rs,    *)
(* hsm poller and the sqlx catalog): no edge leads to an object without a     *)
(* row, and stripes are those of the row of their object.                     *)
THEOREM CatalogHasNoOrphans == Spec => []NoOrphans
  <1>1. Init => CatalogInv
    BY CatalogStarts, Zenon
  <1>2. CatalogInv /\ [Next]_vars => CatalogInv'
    <2> SUFFICES ASSUME CatalogInv, [Next]_vars PROVE CatalogInv'
      BY Zenon
    <2>1. CASE Operation
      BY <2>1, OperationKeeps, Zenon
    <2>2. CASE Ingest
      BY <2>2, BatchKeeps, ApplyKeeps, StatKeeps, StatementKeeps, ReadKeeps, Zenon DEF Ingest
    <2>3. CASE Crash
      BY <2>3, CrashKeeps, Zenon
    <2>4. CASE Poller
      BY <2>4, PollerKeeps, Zenon
    <2>5. CASE UNCHANGED vars
      BY <2>5, NothingKeeps, Zenon
    <2>. QED
      BY <2>1, <2>2, <2>3, <2>4, <2>5, Zenon DEF Next
  <1>. QED
    BY <1>1, <1>2, InvNoOrphans, PTL DEF Spec
=============================================================================
