------------------------------ MODULE Catalog ------------------------------
(***************************************************************************)
(* The filesystem-scoped catalog of rbh-entry-store/src/store.rs for one   *)
(* filesystem, as operators on its tables:                                 *)
(*   entry    scoped_entries, one row per object                           *)
(*   edge     scoped_namespace_edges, by parent and name                   *)
(*   stripe   scoped_stripe_items, the OSTs of an object                   *)
(*   removed  scoped_removed_entries                                       *)
(* An operator is one statement or one transaction.  The methods that read *)
(* a row, change it and write it back in two statements are given as the   *)
(* row they write; the modules that call them take the two steps apart.    *)
(***************************************************************************)
EXTENDS Integers, Sequences, FiniteSets, FiniteSetsExt, TLC

CONSTANTS
  Objects,  \* object ids, in the order in which the database sorts them
  Dirs,     \* the objects that are directories
  Root,     \* the id of the root directory, which only a scan gives a row
  Names,
  None,     \* no row, no object, NULL
  Osts(_),  \* the stripes of an object
  MaxLinks  \* u32::MAX

ASSUME CatalogAssumption ==
  /\ Objects \subseteq Nat /\ Dirs \subseteq Objects /\ MaxLinks \in Nat \ {0}
  /\ IsFiniteSet(Objects) /\ IsFiniteSet(Names)
  /\ None \notin Nat /\ None \notin Names

Places  == (Dirs \cup {Root}) \X Names
NoPlace == <<None, None>>

Empty == [entry   |-> [o \in Objects |-> None],
          edge    |-> [p \in Places |-> None],
          stripe  |-> [o \in Objects |-> {}],
          removed |-> [o \in Objects |-> None]]

At(row) == <<row.parent, row.name>>

\* Rows of entry: sm is sm_status, a JSON object or None for null.
HsmLabels == {"none", "exists", "archived", "released"}
StatusOK(sm) ==
  sm # None => /\ DOMAIN sm \subseteq {"hsm_state", "xattr", "last_action"}
               /\ "hsm_state" \in DOMAIN sm => sm.hsm_state \in HsmLabels
RowOK(row) ==
  /\ row.parent \in Dirs \cup {Root, None}
  /\ row.name \in Names
  /\ row.kind \in {"file", "dir"}
  /\ row.nlink \in 0..MaxLinks
  /\ StatusOK(row.sm)
CatalogOK(db) ==
  /\ \A o \in Objects : db.entry[o] # None => RowOK(db.entry[o])
  /\ \A p \in Places : db.edge[p] \in Objects \cup {None}
  /\ \A o \in Objects : db.removed[o] # None => RowOK(db.removed[o])

-----------------------------------------------------------------------------
(* Rows and edges.                                                         *)

upsert_scoped_entry_tx(db, o, row) == [db EXCEPT !.entry[o] = row]

upsert_scoped_entry(db, o, row) == upsert_scoped_entry_tx(db, o, row)

upsert_scoped_namespace_edge(db, p, o) == [db EXCEPT !.edge[p] = o]

remove_scoped_namespace_edge(db, p) == [db EXCEPT !.edge[p] = None]

list_scoped_object_edges(db, o) == {p \in Places : db.edge[p] = o}

DropEdges(db, o) ==
  [db EXCEPT !.edge = [p \in Places |-> IF @[p] = o THEN None ELSE @[p]]]

\* nlink() as u32
LinkCount(places) == Cardinality(places) % (MaxLinks + 1)
MoreLinks(n)  == IF n = MaxLinks THEN n ELSE n + 1
FewerLinks(n) == IF n = 0 THEN n ELSE n - 1

(* The two transactions of the JuiceFS ingest and of purges.  A transaction *)
(* that fails leaves the tables as they were.                               *)
HardlinkFails(db, p, o) == db.edge[p] # o /\ (db.edge[p] # None \/ db.entry[o] = None)
apply_scoped_hardlink(db, p, o) ==
  IF db.edge[p] = o
  THEN db
  ELSE [db EXCEPT !.edge[p] = o, !.entry[o].nlink = MoreLinks(@)]

Bury(db, o) == [db EXCEPT !.removed[o] = db.entry[o], !.entry[o] = None]
\* Fault: the name is removed whichever object it leads to by now.
UnlinkWhatever(db, p, o, directory) ==
  IF db.entry[o] = None THEN remove_scoped_namespace_edge(db, p)
  ELSE Bury(remove_scoped_namespace_edge(db, p), o)
apply_scoped_unlink(db, p, o, directory) ==
  IF db.edge[p] # o
  THEN db
  ELSE LET cut == remove_scoped_namespace_edge(db, p)
       IN CASE db.entry[o] = None -> cut
            [] db.entry[o] # None /\ ~directory /\ db.entry[o].nlink > 1 ->
                 [cut EXCEPT !.entry[o].nlink = @ - 1]
            [] OTHER -> Bury(cut, o)

clear_scoped_catalog(db) == [Empty EXCEPT !.removed = db.removed]

(* The Lustre side: a transaction writes the row, the stripes and the edge  *)
(* of each observation of a batch.                                          *)
Observed(db, o, row) ==
  LET rows == [upsert_scoped_entry_tx(db, o, row) EXCEPT !.stripe[o] = row.osts]
  IN IF row.parent = None THEN rows ELSE upsert_scoped_namespace_edge(rows, At(row), o)

upsert_lustre_scan_batch(db, batch) ==
  LET after[i \in 0..Len(batch)] ==
        IF i = 0 THEN db ELSE Observed(after[i - 1], batch[i].obj, batch[i].row)
  IN after[Len(batch)]

upsert_lustre_entry(db, o, row) == upsert_lustre_scan_batch(db, <<[obj |-> o, row |-> row]>>)

get_lustre_entry(db, o) == db.entry[o]

\* Fault: the edges of a removed object stay.
RemoveKeepsEdges(db, o) ==
  IF db.entry[o] = None THEN db ELSE [Bury(db, o) EXCEPT !.stripe[o] = {}]
remove_lustre_entry(db, o) ==
  IF db.entry[o] = None THEN db ELSE [DropEdges(Bury(db, o), o) EXCEPT !.stripe[o] = {}]

(* rename_lustre_entry first looks for another object at the new place.    *)
Displaced(db, o, row) ==
  IF row.parent = None \/ db.edge[At(row)] = o THEN None ELSE db.edge[At(row)]

-----------------------------------------------------------------------------
(* Read, change, write back: the rows these methods write.                  *)

Merge(sm, patch) ==
  IF sm = None THEN patch
  ELSE [k \in DOMAIN sm \cup DOMAIN patch |-> IF k \in DOMAIN patch THEN patch[k] ELSE sm[k]]
patch_scoped_sm_status(row, patch) == [row EXCEPT !.sm = Merge(@, patch)]
update_scoped_xattr(row, tag) == [row EXCEPT !.sm = Merge(@, [xattr |-> tag])]

-----------------------------------------------------------------------------
(* Queries.                                                                 *)

Rows(db) == {o \in Objects : db.entry[o] # None}
scoped_entry_count(db) == Cardinality(Rows(db))

\* WHERE kind = file ORDER BY object id LIMIT limit OFFSET offset
InOrder(S) == LET nth[i \in 1..Cardinality(S)] ==
                    CHOOSE o \in S : Cardinality({q \in S : q <= o}) = i
              IN [i \in 1..Cardinality(S) |-> nth[i]]
query_scoped_page(db, limit, offset) ==
  LET files == InOrder({o \in Rows(db) : db.entry[o].kind = "file"})
      last  == IF offset + limit < Len(files) THEN offset + limit ELSE Len(files)
  IN [i \in 1..(last - offset) |-> [obj |-> files[offset + i], row |-> db.entry[files[offset + i]]]]

\* The recursive query follows the parent of each row, not the edges.
ChildRows(db, S) == {o \in Rows(db) : db.entry[o].parent \in S}
Descendants(db, o) ==
  LET down[n \in 0..Cardinality(Objects)] ==
        IF n = 0 THEN {o} \cap Rows(db) ELSE down[n - 1] \cup ChildRows(db, down[n - 1])
  IN down[Cardinality(Objects)]
\* Fault: the object itself is not counted.
TotalsBelow(db, o) == Cardinality(Descendants(db, o) \ {o})
scoped_subtree_totals(db, o) == Cardinality(Descendants(db, o))

aggregate_scoped_by(db, parent) == Cardinality({o \in Rows(db) : db.entry[o].parent = parent})

\* The stripes are joined with the rows, so stripes without a row count for nothing.
scoped_stripe_distribution(db, ost) == Cardinality({o \in Rows(db) : ost \in db.stripe[o]})
=============================================================================
