--------------------------- MODULE LustreCatalog ---------------------------
(***************************************************************************)
(* A Lustre filesystem, the ingest of its changelog into the catalog       *)
(* (apply_event and what it calls in rbh-daemon/src/changelog.rs, with the *)
(* classification that follows), and the HSM poller (hsm_poller.rs), which *)
(* writes to the same rows.                                                *)
(*                                                                         *)
(* The listener cuts the log into batches, the deduplicator drops records  *)
(* of a batch, and the rest is applied in order; when a batch is cut and   *)
(* how it reaches ingest is in ChangelogPipeline.  Each database statement *)
(* or transaction and each look at the filesystem is a step, so that       *)
(* operations, the other writer and crashes can fall between them.  The    *)
(* checkpoint of a batch becomes durable or not before the next one; after *)
(* a crash ingest starts again from the last durable one, with batches     *)
(* that may be cut elsewhere.                                              *)
(***************************************************************************)
EXTENDS Catalog, Dedup

CONSTANTS
  Batch,    \* rows per page of the poller
  Rules,    \* the classifier: the tag its first matching rule gives to a name
  Worlds    \* scenarios: the kinds of operation, their number, the names they
            \* use, the number of crashes and whether the HSM poller runs

\* The rows of an object.
Keys == {"hsm_state", "xattr", "last_action"}
Statuses ==
  {sm \in UNION {[K -> HsmLabels \cup {Rules[n] : n \in Names}] : K \in SUBSET Keys} : StatusOK(sm)}
LustreRows(o) == [parent : Dirs \cup {Root}, name : Names, kind : {"file", "dir"}, nlink : 0..MaxLinks,
                  osts : {Osts(o)}, sm : Statuses]

ASSUME LustreAssumption ==
  /\ Batch \in Nat \ {0}
  /\ None \notin Statuses /\ \A o \in Objects : None \notin LustreRows(o)

VARIABLES
  world,
  link,     \* the namespace of the filesystem: the object at each place
  hsm,      \* the live HSM flags of each object
  log,      \* the changelog
  db,       \* the catalog
  cursor,   \* the durable checkpoint
  batch,    \* the batch: its last record and the records that are left of it
  pos,      \* records applied or dropped
  ing,      \* the step ingest is at, and the row it holds
  poll,     \* the step the poller is at, its page and the row it holds
  unseen,   \* history: objects that had a row when the deduplicator cancelled
            \* their creation and their removal
  crashes

fs   == <<link, hsm, log>>
vars == <<world, link, hsm, log, db, cursor, batch, pos, ing, poll, unseen, crashes>>

LinksOf(o) == {p \in Places : link[p] = o}
Live(o)    == LinksOf(o) # {}
Idle       == [pc |-> "idle", row |-> None]
PollIdle   == [pc |-> "page", offset |-> 0, todo |-> <<>>, row |-> None]
NoBatch(n) == [end |-> n, queue |-> {}]

Init ==
  /\ world \in Worlds
  /\ link = [p \in Places |-> None]
  /\ hsm = [o \in Objects |-> {}]
  /\ log = <<>>
  /\ db = Empty
  /\ cursor = 0 /\ pos = 0 /\ batch = NoBatch(0)
  /\ ing = Idle /\ poll = PollIdle
  /\ unseen = {} /\ crashes = 0

-----------------------------------------------------------------------------
(* The filesystem.  Every operation but one writes one record.             *)

Known(o) == \E i \in DOMAIN log : log[i].obj = o

\* All records are of one MDT, but for the target of a move across MDTs.
Record(op, o, p, last) == [op |-> op, obj |-> o, at |-> p, last |-> last, mdt |-> 0]
Logs(records) ==
  /\ Len(log \o records) <= world.max /\ log' = log \o records
  /\ UNCHANGED <<world, db, cursor, batch, pos, ing, poll, unseen, crashes>>
Writes(op, o, p, last) == op \in world.ops /\ Logs(<<Record(op, o, p, last)>>)

Usable(p) == p[2] \in world.names /\ (p[1] # Root => Live(p[1]))
Free(p)   == Usable(p) /\ link[p] = None

\* New objects get increasing ids.
Create(o, p) ==
  /\ ~Known(o) /\ Free(p)
  /\ \A q \in Objects : q < o /\ (q \in Dirs <=> o \in Dirs) => Known(q)
  /\ link' = [link EXCEPT ![p] = o] /\ hsm' = hsm
  /\ Writes(IF o \in Dirs THEN "MKDIR" ELSE "CREAT", o, p, FALSE)

Link(o, p) ==
  /\ o \notin Dirs /\ Live(o) /\ Free(p)
  /\ link' = [link EXCEPT ![p] = o] /\ hsm' = hsm
  /\ Writes("HLINK", o, p, FALSE)

Unlink(p) ==
  /\ link[p] # None
  /\ link[p] \in Dirs => \A n \in Names : link[<<link[p], n>>] = None
  /\ link' = [link EXCEPT ![p] = None] /\ hsm' = hsm
  /\ Writes(IF link[p] \in Dirs THEN "RMDIR" ELSE "UNLNK", link[p], p, LinksOf(link[p]) = {p})

\* A directory is not moved below itself; only files are renamed over.
Above(d) == LET up[n \in 0..Cardinality(Objects)] ==
                  IF n = 0 THEN {d} ELSE up[n - 1] \cup {p[1] : p \in UNION {LinksOf(o) : o \in up[n - 1] \cap Objects}}
            IN up[Cardinality(Objects)]
Rename(p, q) ==
  /\ link[p] # None /\ link[q] # link[p]
  /\ link[q] = None \/ (link[q] \notin Dirs /\ link[p] \notin Dirs)
  /\ Usable(q)
  /\ link[p] \notin Above(q[1])
  /\ link' = [link EXCEPT ![p] = None, ![q] = link[p]] /\ hsm' = hsm
  /\ Writes("RENME", link[p], q, FALSE)

\* A rename to another MDT also shows as the removal of the last link at its
\* source; the records of the two MDTs are read in either order.
MoveAcross(p, q) ==
  /\ "MOVE" \in world.ops
  /\ link[p] # None /\ link[p] \notin Dirs /\ Free(q) /\ LinksOf(link[p]) = {p}
  /\ link' = [link EXCEPT ![p] = None, ![q] = link[p]] /\ hsm' = hsm
  /\ LET away == Record("UNLNK", link[p], p, TRUE)
         here == [Record("RENME", link[p], q, FALSE) EXCEPT !.mdt = 1]
     IN Logs(<<away, here>>) \/ Logs(<<here, away>>)

\* A CLOSE record names the file but seldom its parent.
Touch(o, p) ==
  /\ p \in LinksOf(o) /\ o \notin Dirs
  /\ link' = link
  /\ hsm' = [hsm EXCEPT ![o] = IF "ARCHIVED" \in @ THEN @ \cup {"DIRTY"} ELSE @]
  /\ Writes("CLOSE", o, <<None, p[2]>>, FALSE)

\* A release shows as TRUNC, the other HSM requests as HSM records.
HsmRequest(o, op, flags) ==
  /\ Live(o) /\ o \notin Dirs /\ hsm[o] # flags
  /\ op = "TRUNC" => hsm[o] = {"EXISTS", "ARCHIVED"}
  /\ link' = link /\ hsm' = [hsm EXCEPT ![o] = flags]
  /\ Writes(op, o, NoPlace, FALSE)

Operation ==
  /\ Len(log) < world.max
  /\ \/ \E o \in Objects, p \in Places : Create(o, p) \/ Link(o, p) \/ Touch(o, p)
     \/ \E p \in Places : Unlink(p)
     \/ \E p, q \in Places : Rename(p, q) \/ MoveAcross(p, q)
     \/ \E o \in Objects :
          \/ HsmRequest(o, "archive", {"EXISTS", "ARCHIVED"})
          \/ HsmRequest(o, "remove", {})
          \/ HsmRequest(o, "TRUNC", {"EXISTS", "ARCHIVED", "RELEASED"})
-----------------------------------------------------------------------------
(* Ingest.                                                                 *)

Rec == log[pos + 1]
Obj == Rec.obj

Keeps(pc, row) == ing' = [pc |-> pc, row |-> row]
ByIngest == UNCHANGED <<world, fs, batch, poll, unseen, crashes>>
Goes(pc, row) == Keeps(pc, row) /\ UNCHANGED <<db, cursor, pos>> /\ ByIngest
Stores(new, pc) == db' = new /\ Keeps(pc, ing.row) /\ UNCHANGED <<cursor, pos>> /\ ByIngest

\* The record is done; the checkpoint of the batch is the last record that is
\* left of it, and durable after that or only with a later one.
LastOfBatch == pos + 1 \in batch.queue /\ \A i \in batch.queue : i <= pos + 1
Finish ==
  /\ pos' = pos + 1 /\ cursor' \in {cursor, IF LastOfBatch THEN pos + 1 ELSE cursor}
  /\ ing' = Idle /\ UNCHANGED db /\ ByIngest

\* The records as the deduplicators see them, of which each MDT has one.
kind_name(r) ==
  CASE r.op \in {"archive", "remove"} -> "HSM"
    [] r.op = "UNLNK" /\ r.last -> "UNLNK_LAST"
    [] OTHER -> r.op
Events == [i \in DOMAIN log |-> [fid |-> <<log[i].obj, log[i].mdt>>, kind |-> kind_name(log[i])]]
Pushed(first, last) ==
  LET queue[i \in first..last] == IF i = first THEN {} ELSE push(Events, queue[i - 1], i)
  IN queue[last]

\* A batch ends after any record that has been written.
Flush ==
  /\ ing.pc = "idle" /\ pos = batch.end
  /\ \E end \in (pos + 1)..Len(log) :
       /\ batch' = [end |-> end, queue |-> Pushed(pos, end)]
       /\ unseen' = unseen \cup {o \in Rows(db) : \E i \in (pos + 1)..end \ Pushed(pos, end) :
                                  log[i].obj = o /\ log[i].op \in {"CREAT", "MKDIR"}}
  /\ UNCHANGED <<world, fs, db, cursor, pos, ing, poll, crashes>>

\* The deduplicator has dropped the record.
Skip == ing.pc = "idle" /\ pos < batch.end /\ pos + 1 \notin batch.queue /\ Finish

metadata_to_kind(o) == IF o \in Dirs THEN "dir" ELSE "file"
\* The name and parent of a new row are those of the record.
StatRow(o, p) ==
  [parent |-> p[1], name |-> p[2], kind |-> metadata_to_kind(o),
   nlink |-> LinkCount(LinksOf(o)), osts |-> Osts(o), sm |-> <<>>]

\* Fault: a record without a parent clears the parent of the row.
RestatZeroParent(row, o, p) ==
  [row EXCEPT !.nlink = LinkCount(LinksOf(o)), !.parent = p[1],
              !.name = IF p[2] = None THEN @ ELSE p[2]]
RestatRow(row, o, p) ==
  [row EXCEPT !.nlink = LinkCount(LinksOf(o)),
              !.parent = IF p[1] = None THEN @ ELSE p[1],
              !.name = IF p[2] = None THEN @ ELSE p[2]]

HsmPatch(op) == CASE op = "archive" -> [hsm_state |-> "archived"]
                  [] op = "remove"  -> [hsm_state |-> "none"]

Restats == {"CLOSE", "TRUNC"}
HsmOps  == {"archive", "remove"}

Apply ==
  /\ ing.pc = "idle" /\ pos < batch.end /\ pos + 1 \in batch.queue
  /\ LET row == get_lustre_entry(db, Obj) IN
     \/ Rec.op \in {"CREAT", "MKDIR"} /\ Goes("stat", None)
     \/ Rec.op = "HLINK" /\ row = None /\ Goes("stat", None)
     \/ Rec.op = "HLINK" /\ row # None
        /\ Goes("write", [row EXCEPT !.parent = Rec.at[1], !.name = Rec.at[2], !.nlink = MoreLinks(@)])
     \/ Rec.op = "UNLNK" /\ Goes(IF Rec.last THEN "check" ELSE "unedge", None)
     \/ Rec.op = "RMDIR" /\ Goes("remove", None)
     \/ Rec.op = "RENME" /\ row = None /\ Goes("stat", None)
     \/ Rec.op = "RENME" /\ row # None
        /\ Goes("displace", [row EXCEPT !.parent = Rec.at[1], !.name = Rec.at[2]])
     \/ Rec.op \in Restats /\ row # None /\ Goes("stat", row)
     \/ Rec.op \in HsmOps /\ row # None
        /\ Goes("patch", patch_scoped_sm_status(row, HsmPatch(Rec.op)))
     \/ Rec.op \in Restats \cup HsmOps /\ row = None /\ Finish

Stat ==
  /\ ing.pc = "stat"
  /\ \/ ~Live(Obj) /\ Finish
     \/ /\ Live(Obj)
        /\ Goes(IF Rec.op = "RENME" THEN "displace" ELSE "write",
                IF ing.row = None THEN StatRow(Obj, Rec.at) ELSE RestatRow(ing.row, Obj, Rec.at))

Write ==
  /\ ing.pc = "write"
  /\ Stores(upsert_lustre_entry(db, Obj, ing.row), IF Rec.op = "TRUNC" THEN "refresh" ELSE "tag")

\* Fault: the last link decides.
FidNotChecked == ing.pc = "check" /\ Goes("remove", None)
\* The last link of a file whose FID still resolves was renamed away by
\* another MDT; the file stays.
FidStillLive ==
  /\ ing.pc = "check"
  /\ IF Live(Obj) THEN Finish ELSE Goes("remove", None)

RemoveEntry == ing.pc = "remove" /\ Stores(remove_lustre_entry(db, Obj), "tag")

UnlinkEdge == ing.pc = "unedge" /\ Stores(remove_scoped_namespace_edge(db, Rec.at), "reread")
UnlinkReread ==
  /\ ing.pc = "reread"
  /\ LET row == get_lustre_entry(db, Obj) IN
     IF row = None THEN Finish ELSE Goes("write", [row EXCEPT !.nlink = FewerLinks(@)])

\* rename_lustre_entry; only ingest writes edges, so finding the displaced
\* object and removing it is one step.
Displace ==
  /\ ing.pc = "displace"
  /\ LET gone == Displaced(db, Obj, ing.row)
     IN Stores(IF gone = None THEN db ELSE remove_lustre_entry(db, gone), "edges")
RenameEdges == ing.pc = "edges" /\ Stores(DropEdges(db, Obj), "row")
RenameRow   == ing.pc = "row" /\ Stores(upsert_scoped_entry(db, Obj, ing.row), "edge")
RenameEdge  ==
  /\ ing.pc = "edge"
  /\ Stores(upsert_scoped_namespace_edge(db, At(ing.row), Obj), "tag")

StatePatch == ing.pc = "patch" /\ Stores(upsert_scoped_entry(db, Obj, ing.row), "tag")

Label(row) == IF row.sm # None /\ "hsm_state" \in DOMAIN row.sm THEN row.sm.hsm_state ELSE "none"

\* What a TRUNC makes of the label: dirty files keep theirs.
Refreshed(flags, label) ==
  CASE "RELEASED" \in flags -> "released"
    [] "RELEASED" \notin flags /\ "ARCHIVED" \in flags /\ "DIRTY" \notin flags -> "archived"
    [] flags = {} -> "none"
    [] OTHER -> label

RefreshHsm ==
  /\ ing.pc = "refresh"
  /\ LET row == get_lustre_entry(db, Obj)
         new == Refreshed(hsm[Obj], Label(row))
     IN IF row = None \/ ~Live(Obj) THEN Goes("tag", None)
        ELSE IF Label(row) = "none" \/ new = Label(row) THEN Goes("tag", None)
        ELSE Goes("patch", patch_scoped_sm_status(row, [hsm_state |-> new]))

\* apply_classifiers on the row read again; without a matching rule the tags stay.
Classify ==
  /\ ing.pc = "tag"
  /\ LET row == get_lustre_entry(db, Obj) IN
     \/ row = None /\ Finish
     \/ row # None /\ Rules[row.name] = None /\ Finish
     \/ row # None /\ Rules[row.name] # None
        /\ Goes("tagged", update_scoped_xattr(row, Rules[row.name]))
WriteTags == ing.pc = "tagged" /\ Stores(upsert_scoped_entry(db, Obj, ing.row), "done")
Done      == ing.pc = "done" /\ Finish

Ingest ==
  \/ Flush \/ Skip \/ Apply \/ Stat \/ Write \/ FidStillLive \/ RemoveEntry \/ UnlinkEdge \/ UnlinkReread
  \/ Displace \/ RenameEdges \/ RenameRow \/ RenameEdge \/ StatePatch \/ RefreshHsm
  \/ Classify \/ WriteTags \/ Done

Crash ==
  /\ crashes < world.crashes
  /\ crashes' = crashes + 1
  /\ pos' = cursor /\ batch' = NoBatch(cursor) /\ ing' = Idle /\ poll' = PollIdle
  /\ UNCHANGED <<world, fs, db, cursor, unseen>>

-----------------------------------------------------------------------------
(* The HSM poller: pages of rows by offset, the live state of each file, and *)
(* a patch of the row where they differ.                                     *)

Polls(new) == poll' = new /\ UNCHANGED <<world, fs, cursor, batch, pos, ing, unseen, crashes>>

\* Fault: a new cycle goes on where the last one ended.
PageGoesOn ==
  /\ world.poll /\ poll.pc = "page"
  /\ LET rows == query_scoped_page(db, Batch, poll.offset)
     IN rows # <<>> /\ Polls([poll EXCEPT !.pc = "entry", !.todo = rows, !.offset = @ + Len(rows)])
  /\ UNCHANGED db
Page ==
  /\ world.poll /\ poll.pc = "page"
  /\ LET rows == query_scoped_page(db, Batch, poll.offset)
     IN IF rows = <<>> THEN Polls(PollIdle)
        ELSE Polls([poll EXCEPT !.pc = "entry", !.todo = rows, !.offset = @ + Len(rows)])
  /\ UNCHANGED db

label_of_state(flags) ==
  CASE "RELEASED" \in flags -> "released"
    [] "RELEASED" \notin flags /\ "ARCHIVED" \in flags -> "archived"
    [] flags = {"EXISTS"} -> "exists"
    [] OTHER -> "none"

NextRow(p) ==
  [p EXCEPT !.todo = Tail(@), !.row = None,
            !.pc = IF Len(p.todo) > 1 THEN "entry" ELSE "page",
            !.offset = IF Len(p.todo) = 1 /\ @ % Batch # 0 THEN 0 ELSE @]

Observe ==
  /\ poll.pc = "entry"
  /\ LET seen == Head(poll.todo)
         live == label_of_state(hsm[seen.obj])
     IN IF ~Live(seen.obj) \/ live = Label(seen.row) THEN Polls(NextRow(poll))
        ELSE Polls([poll EXCEPT !.pc = "merge", !.row = [hsm_state |-> live]])
  /\ UNCHANGED db

PollMerge ==
  /\ poll.pc = "merge"
  /\ LET row == db.entry[Head(poll.todo).obj]
     IN IF row = None THEN Polls(NextRow(poll))
        ELSE Polls([poll EXCEPT !.pc = "write", !.row = patch_scoped_sm_status(row, @)])
  /\ UNCHANGED db

PollWrite ==
  /\ poll.pc = "write"
  /\ db' = upsert_scoped_entry(db, Head(poll.todo).obj, poll.row)
  /\ Polls(NextRow(poll))

Poller == Page \/ Observe \/ PollMerge \/ PollWrite

Next == Operation \/ Ingest \/ Crash \/ Poller

Spec == Init /\ [][Next]_vars

\* Ingest and the poller are loops of their own tasks; the filesystem need
\* not do anything.
Fairness == WF_vars(Ingest) /\ WF_vars(Poller)
LiveSpec == Spec /\ Fairness

-----------------------------------------------------------------------------
\* Types; the durable checkpoint is not ahead of what ingest has applied, and the
\* rows that ingest and the poller hold between two statements are complete.
TypeOK ==
  /\ CatalogOK(db)
  /\ batch.end \in 0..Len(log) /\ pos \in 0..batch.end /\ cursor \in 0..pos
  /\ ing.row # None => RowOK(ing.row)
  /\ \A i \in DOMAIN poll.todo : RowOK(poll.todo[i].row)

\* Ingest has applied the whole log, and nobody else writes rows.
Quiet == pos = Len(log) /\ ing.pc = "idle" /\ ~world.poll

(* Edges and stripes belong to rows: whatever statement of a rename, an       *)
(* unlink or a patch a crash or another writer comes after, no edge leads to  *)
(* an object without a row, and the stripes of an object are those of its row.*)
(* The types hold in every state.                                             *)
NoOrphans ==
  /\ TypeOK
  /\ \A p \in Places : db.edge[p] # None => db.entry[db.edge[p]] # None
  /\ \A o \in Objects : db.stripe[o] # {} => db.entry[o] # None /\ db.stripe[o] = db.entry[o].osts

(* After ingest has applied the log, also when it replayed a part of it and    *)
(* whatever the deduplicator dropped, every name of the filesystem leads       *)
(* through its edge to the row of its file.  Three things that the code does   *)
(* limit the worlds this is for: a rename drops all edges of its object, so    *)
(* there are no hard links or no renames; the unlink of one of several names   *)
(* writes the edge of the name in the row again, so a file has one hard link   *)
(* at a time; and a replayed CLOSE gives a row its old name in the directory   *)
(* it was moved to since, so files are closed in one directory only.           *)
EveryLinkFound ==
  Quiet => \A p \in Places : link[p] # None => db.edge[p] = link[p] /\ db.entry[link[p]] # None

Removed(o) == \E i \in DOMAIN log : log[i].obj = o /\ log[i].op \in {"UNLNK", "RMDIR"} /\ log[i].last
Moved(o)   == \E i \in DOMAIN log : log[i].obj = o /\ log[i].mdt = 1
Linked(o)  == \E i \in DOMAIN log : log[i].obj = o /\ log[i].op = "HLINK"

(* After ingest has applied the log, a row is that of a live file under the    *)
(* name the file has, with the tag the classifier gives to that name.  A row   *)
(* outlives its file in one case only: when the removal is read again together *)
(* with the creation, which a crash makes possible, the deduplicator cancels   *)
(* both and the row that the first reading has left stays for ever.  Left out: *)
(* files that had hard links, of which the row keeps one name, rows of files   *)
(* that were renamed over, and worlds in which files are moved both across     *)
(* MDTs and within one.                                                        *)
RowsAreLive ==
  Quiet => \A o \in Rows(db) :
    /\ Removed(o) => Live(o) \/ o \in unseen
    /\ Live(o) /\ ~Linked(o) =>
         /\ At(db.entry[o]) \in LinksOf(o)
         /\ Rules[db.entry[o].name] # None => db.entry[o].sm.xattr = Rules[db.entry[o].name]

LiveIn(S)  == Cardinality({o \in S : Live(o)})

(* The recursive query of the du report ends, because without replay no row   *)
(* is its own ancestor.  Once the log is applied, and if every row is that of  *)
(* a live file with one link, the reports (du, entries by parent, files by     *)
(* OST, entry count) give the numbers of the real filesystem.  Files by OST is *)
(* left out where a file was moved across MDTs: the deduplicator may cancel    *)
(* its creation with the removal at the source, and the rename, which then is  *)
(* all that ingest sees of it, writes no stripes.                              *)
ReportsMatch ==
  crashes = 0 /\ ~world.poll =>
    /\ \A d \in Rows(db) \cap Dirs : d \notin UNION {Descendants(db, q) : q \in ChildRows(db, {d})}
    /\ Quiet /\ (\A o \in Rows(db) : Live(o) /\ ~Linked(o)) =>
         /\ scoped_entry_count(db) = LiveIn(Objects)
         /\ \A d \in Dirs : Live(d) =>
              scoped_subtree_totals(db, d) = LiveIn({o \in Objects : d \in Above(o)})
         /\ \A d \in Dirs \cup {Root} :
              aggregate_scoped_by(db, d) = Cardinality({n \in Names : link[<<d, n>>] # None})
         /\ (\A o \in Rows(db) : ~Moved(o)) =>
              \A ost \in UNION {Osts(o) : o \in Objects} :
                scoped_stripe_distribution(db, ost) = LiveIn({o \in Objects : ost \in Osts(o)})

HsmAgrees ==
  \A o \in Objects \ Dirs :
    Live(o) /\ db.entry[o] # None => Label(db.entry[o]) = label_of_state(hsm[o])

(* Whatever records and patches overwrite each other, the poller makes the    *)
(* hsm_state of every file agree with its live state in the end.              *)
HsmConverges == world.poll => <>[]HsmAgrees
=============================================================================
