-------------------------------- MODULE Scan --------------------------------
(***************************************************************************)
(* A scan of a Lustre filesystem: the parallel directory walk              *)
(* (rbh-fs-scan/src/posix.rs), the workers that look up the identity of    *)
(* each entry (walker.rs, entry.rs), and the task that stores the rows in  *)
(* batches: the daemon's initial scan, repeated until it has no errors     *)
(* (rbh-daemon/src/lib.rs), or a scan started over the API                 *)
(* (rbh-api/src/handlers.rs).                                              *)
(*                                                                         *)
(* The walk goes by paths, which are resolved again at every look, while   *)
(* users change the namespace.  A path is a sequence of names and its      *)
(* length is its depth.  A task that waits for room in a channel has not   *)
(* looked yet: what it would hold meanwhile is as old as what is queued.   *)
(***************************************************************************)
EXTENDS Catalog

CONSTANTS
  Walkers, Enrichers, \* worker tasks
  Channel,            \* channel_size
  BatchMax,           \* rows per transaction
  RootName,           \* the name of the mount directory
  Listing,            \* the order in which a directory is read
  Worlds              \* scenarios: the namespace, api or initial scan, its
                      \* max_depth, the names to ignore, the files older than
                      \* since_mtime; operations, faults and crashes

\* The rows a scan writes.
ScanRows == [parent : Dirs \cup {Root, None}, name : Names, kind : {"file", "dir"}, nlink : 0..MaxLinks,
             osts : {Osts(o) : o \in Objects} \cup {{}}, sm : {<<>>}]

\* Both kinds of worker are concurrency.max(1); a directory is listed completely.
ASSUME ScanAssumption ==
  /\ IsFiniteSet(Walkers) /\ Walkers # {} /\ IsFiniteSet(Enrichers) /\ Enrichers # {}
  /\ Channel \in Nat \ {0} /\ BatchMax \in Nat \ {0}
  /\ Root \in Dirs /\ RootName \in Names /\ None \notin ScanRows
  /\ Listing \in Seq(Names) /\ \A n \in Names : \E i \in DOMAIN Listing : Listing[i] = n
  /\ \A w \in Worlds :
       w \in [link : [Places -> Objects \cup {None}], api : BOOLEAN, max_depth : Nat \cup {None},
              ignore : SUBSET Names, old : SUBSET Objects, ops : Nat, faults : Nat, crashes : Nat]

VARIABLES
  world,
  link,     \* the namespace
  db,       \* the catalog
  task,     \* what the supervisor or the handler is doing
  work, open, pending,      \* the queue of directories and its counter
  walker, posix,            \* the walk and its event channel
  enricher, events,         \* the lookups and their event channel
  batch,
  progress, \* scanned and errors of ScanProgress
  failures, \* errors the handler counts itself
  got,      \* history: rows received
  moved,    \* history: places changed since the scan began
  partly,   \* history: the daemon died with a part of a scan stored
  left      \* what world still allows: ops, faults, crashes

walk   == <<work, open, pending, walker>>
lookup == <<enricher, events>>
store  == <<db, batch, got, failures>>
vars   == <<world, link, task, walk, posix, lookup, store, progress, moved, partly, left>>

Directories == Dirs \cup {Root}
Step(path, n) == Append(path, n)
Front(path) == SubSeq(path, 1, Len(path) - 1)
Last(path)  == path[Len(path)]

\* The object a path leads to.
LookupIn(tree, path) ==
  LET at[i \in 0..Len(path)] ==
        IF i = 0 THEN Root
        ELSE IF at[i - 1] \in Directories THEN tree[<<at[i - 1], path[i]>>] ELSE None
  IN at[Len(path)]
Lookup(path) == LookupIn(link, path)

WalkerIdle == [pc |-> "idle", path |-> <<>>, dir |-> None, todo |-> <<>>]
EnricherIdle == [pc |-> "idle", event |-> None]
Initial == ~world.api
Spend(what) == left[what] > 0 /\ left' = [left EXCEPT ![what] = @ - 1]

\* ScanProgress::new; the count of directories is only shown.
NoProgress == [scanned |-> 0, errors |-> 0]

\* Channels, workers and counters as PosixWalker::run and FsScanner::run set them up.
Fresh ==
  [work |-> <<<<>>>>, open |-> TRUE, pending |-> 1,
   walker |-> [w \in Walkers |-> WalkerIdle], enricher |-> [e \in Enrichers |-> EnricherIdle]]

Init ==
  /\ world \in Worlds
  /\ link = world.link
  /\ db = Empty
  /\ task = IF Initial THEN "count" ELSE "start"
  /\ work = Fresh.work /\ open = Fresh.open /\ pending = Fresh.pending
  /\ walker = Fresh.walker /\ posix = <<>>
  /\ enricher = Fresh.enricher /\ events = <<>>
  /\ batch = <<>> /\ got = 0 /\ failures = 0
  /\ progress = NoProgress
  /\ moved = {} /\ partly = FALSE
  /\ left = [ops |-> world.ops, faults |-> world.faults, crashes |-> world.crashes]

-----------------------------------------------------------------------------
(* Users.                                                                   *)

Changes(places) ==
  /\ Spend("ops") /\ moved' = moved \cup places
  /\ UNCHANGED <<world, task, walk, posix, lookup, store, progress, partly>>

IsDir(o) == o \in Directories
Rename(p, q) ==
  /\ link[p] # None /\ link[q] # link[p] /\ q[1] # link[p]
  /\ link[q] = None \/ (~IsDir(link[q]) /\ ~IsDir(link[p]))
  /\ link' = [link EXCEPT ![p] = None, ![q] = link[p]]
  /\ Changes({p, q})
Unlink(p) ==
  /\ link[p] # None /\ (IsDir(link[p]) => \A n \in Names : link[<<link[p], n>>] = None)
  /\ link' = [link EXCEPT ![p] = None]
  /\ Changes({p})

-----------------------------------------------------------------------------
(* The walk.                                                                *)

\* load_rbh_ignore_file, glob_matches
Ignored(n) == n \in world.ignore
Old(o) == o \in world.old

Becomes(w, rec) == walker' = [walker EXCEPT ![w] = rec]
To(w, pc) == Becomes(w, [walker[w] EXCEPT !.pc = pc])
ByWalker == UNCHANGED <<world, link, task, lookup, store, moved, partly>>
Depth(w) == Len(walker[w].path)

emit_error ==
  /\ Len(posix) < Channel
  /\ posix' = Append(posix, [error |-> TRUE])
  /\ progress' = [progress EXCEPT !.errors = @ + 1]

stat_entry(path) ==
  LET o == Lookup(path)
  IN [error |-> FALSE, path |-> path, kind |-> IF IsDir(o) THEN "dir" ELSE "file",
      nlink |-> LinkCount({p \in Places : link[p] = o})]

emit_path(path, directory) ==
  LET o == Lookup(path)
  IN \/ o = None /\ emit_error /\ UNCHANGED left
     \/ o # None /\ ~directory /\ Old(o) /\ UNCHANGED <<posix, progress, left>>
     \/ /\ o # None /\ (directory \/ ~Old(o))
        /\ Len(posix) < Channel
        /\ posix' = Append(posix, stat_entry(path))
        /\ progress' = [progress EXCEPT !.scanned = @ + 1]
        /\ UNCHANGED left
     \/ emit_error /\ Spend("faults")

\* recv of the work queue: a closed queue still hands out what it holds.
Take(w) ==
  /\ walker[w].pc = "idle" /\ work # <<>>
  /\ Becomes(w, [WalkerIdle EXCEPT !.pc = "self", !.path = Head(work)])
  /\ work' = Tail(work)
  /\ ByWalker /\ UNCHANGED <<open, pending, posix, progress, left>>
Quit(w) ==
  /\ walker[w].pc = "idle" /\ work = <<>> /\ ~open
  /\ To(w, "done")
  /\ ByWalker /\ UNCHANGED <<work, open, pending, posix, progress, left>>

\* process_directory
EmitSelf(w) ==
  /\ walker[w].pc = "self"
  /\ emit_path(walker[w].path, TRUE) /\ To(w, "open")
  /\ ByWalker /\ UNCHANGED <<work, open, pending>>
ReadDir(w) ==
  /\ walker[w].pc = "open"
  /\ LET d == Lookup(walker[w].path)
     IN \/ IsDir(d) /\ Becomes(w, [walker[w] EXCEPT !.pc = "read", !.dir = d, !.todo = Listing])
           /\ UNCHANGED <<posix, progress, left>>
        \/ ~IsDir(d) /\ emit_error /\ To(w, "finish") /\ UNCHANGED left
  /\ ByWalker /\ UNCHANGED <<work, open, pending>>

\* Fault: a directory is queued without being counted.
QueuesUncounted(path) == pending' = pending /\ work' = IF open THEN Append(work, path) ELSE work
Queues(path) ==
  IF open THEN pending' = pending + 1 /\ work' = Append(work, path)
          ELSE UNCHANGED <<pending, work>>
Descends(w) == world.max_depth = None \/ Depth(w) < world.max_depth

\* Each name is looked at once, at some moment during the reading.
NextEntry(w) ==
  /\ walker[w].pc = "read" /\ walker[w].todo # <<>>
  /\ LET n    == Head(walker[w].todo)
         o    == link[<<walker[w].dir, n>>]
         rest == [walker[w] EXCEPT !.todo = Tail(@)]
     IN \/ (o = None \/ Ignored(n)) /\ Becomes(w, rest) /\ UNCHANGED <<pending, work>>
        \/ /\ o # None /\ ~Ignored(n) /\ IsDir(o) /\ Becomes(w, rest)
           /\ IF Descends(w) THEN Queues(Step(walker[w].path, n)) ELSE UNCHANGED <<pending, work>>
        \/ /\ o # None /\ ~Ignored(n) /\ ~IsDir(o)
           /\ Becomes(w, [walker[w] EXCEPT !.pc = "stat"]) /\ UNCHANGED <<pending, work>>
  /\ ByWalker /\ UNCHANGED <<open, posix, progress, left>>
\* read_dir or next_entry fails and ends the directory; file_type fails for one name.
ReadFails(w) ==
  /\ Spend("faults") /\ emit_error
  /\ \/ walker[w].pc \in {"open", "read"} /\ To(w, "finish")
     \/ walker[w].pc = "read" /\ walker[w].todo # <<>> /\ Becomes(w, [walker[w] EXCEPT !.todo = Tail(@)])
  /\ ByWalker /\ UNCHANGED <<work, open, pending>>
EmitEntry(w) ==
  /\ walker[w].pc = "stat"
  /\ emit_path(Step(walker[w].path, Head(walker[w].todo)), FALSE)
  /\ Becomes(w, [walker[w] EXCEPT !.pc = "read", !.todo = Tail(@)])
  /\ ByWalker /\ UNCHANGED <<work, open, pending>>

\* Fault: the counter is compared after the decrement.
FinishNeverLast(w) ==
  /\ walker[w].pc = "finish" \/ (walker[w].pc = "read" /\ walker[w].todo = <<>>)
  /\ pending' = pending - 1 /\ open' = (open /\ pending # 0)
  /\ Becomes(w, WalkerIdle)
  /\ ByWalker /\ UNCHANGED <<work, posix, progress, left>>
\* The last directory closes the queue.
Finish(w) ==
  /\ walker[w].pc = "finish" \/ (walker[w].pc = "read" /\ walker[w].todo = <<>>)
  /\ pending' = pending - 1 /\ open' = (open /\ pending # 1)
  /\ Becomes(w, WalkerIdle)
  /\ ByWalker /\ UNCHANGED <<work, posix, progress, left>>

-----------------------------------------------------------------------------
(* The lookups.                                                             *)

ByEnricher == UNCHANGED <<world, link, task, walk, store, moved, partly>>

TakeEvent(e) ==
  /\ enricher[e].pc = "idle" /\ posix # <<>>
  /\ enricher' = [enricher EXCEPT ![e] = [pc |-> "hold", event |-> Head(posix)]]
  /\ posix' = Tail(posix)
  /\ ByEnricher /\ UNCHANGED <<events, progress, left>>
EnricherQuits(e) ==
  /\ enricher[e].pc = "idle" /\ posix = <<>> /\ \A w \in Walkers : walker[w].pc = "done"
  /\ enricher' = [enricher EXCEPT ![e].pc = "done"]
  /\ ByEnricher /\ UNCHANGED <<events, posix, progress, left>>

\* The identity is that of the object at the path by now, the rest is older.
enrich_lustre(ev) ==
  LET o == Lookup(ev.path)
  IN [error |-> FALSE, obj |-> o,
      row |-> [parent |-> IF ev.path = <<>> THEN None ELSE Lookup(Front(ev.path)),
               name |-> IF ev.path = <<>> THEN RootName ELSE Last(ev.path),
               kind |-> ev.kind, nlink |-> ev.nlink,
               osts |-> IF ev.kind = "file" THEN Osts(o) ELSE {}, sm |-> <<>>]]

Sends(e, event) ==
  /\ Len(events) < Channel
  /\ events' = Append(events, event)
  /\ enricher' = [enricher EXCEPT ![e] = EnricherIdle]
Uncounts == progress' = [scanned |-> progress.scanned - 1, errors |-> progress.errors + 1]
\* Fault: a failed lookup stays counted as scanned.
EnrichCountsBoth(e) ==
  /\ enricher[e].pc = "hold"
  /\ LET ev == enricher[e].event
     IN IF ev.error THEN Sends(e, ev) /\ UNCHANGED progress
        ELSE IF Lookup(ev.path) = None
        THEN Sends(e, [error |-> TRUE]) /\ progress' = [progress EXCEPT !.errors = @ + 1]
        ELSE Sends(e, enrich_lustre(ev)) /\ UNCHANGED progress
  /\ ByEnricher /\ UNCHANGED <<posix, left>>
Enrich(e) ==
  /\ enricher[e].pc = "hold"
  /\ LET ev == enricher[e].event
     IN \/ ev.error /\ Sends(e, ev) /\ UNCHANGED <<progress, left>>
        \/ ~ev.error /\ Lookup(ev.path) = None /\ Sends(e, [error |-> TRUE]) /\ Uncounts /\ UNCHANGED left
        \/ ~ev.error /\ Lookup(ev.path) # None /\ Sends(e, enrich_lustre(ev)) /\ UNCHANGED <<progress, left>>
        \/ ~ev.error /\ Sends(e, [error |-> TRUE]) /\ Uncounts /\ Spend("faults")
  /\ ByEnricher /\ UNCHANGED posix

-----------------------------------------------------------------------------
(* The task that stores the rows.                                           *)

\* A new walk, with new channels and counters; workers of a scan that was
\* given up find their channel closed and store nothing.
Begins ==
  /\ work' = Fresh.work /\ open' = Fresh.open /\ pending' = Fresh.pending
  /\ walker' = Fresh.walker /\ posix' = <<>>
  /\ enricher' = Fresh.enricher /\ events' = <<>>
  /\ batch' = <<>> /\ got' = 0 /\ failures' = 0
  /\ progress' = NoProgress

\* The catalog is scanned if it is empty, or if it cannot be counted.
Count ==
  /\ task = "count"
  /\ \/ task' = (IF scoped_entry_count(db) = 0 THEN "start" ELSE "ingest") /\ UNCHANGED left
     \/ task' = "start" /\ Spend("faults")
  /\ UNCHANGED <<world, link, walk, posix, lookup, store, progress, moved, partly>>

Start ==
  /\ task = "start" /\ task' = "drain"
  /\ Begins /\ moved' = {}
  /\ UNCHANGED <<world, link, db, partly, left>>

ByTask == UNCHANGED <<world, link, walk, posix, enricher, progress, moved, partly>>
Receive ==
  /\ task = "drain" /\ events # <<>> /\ Len(batch) < BatchMax
  /\ IF Head(events).error
     THEN failures' = failures + 1 /\ UNCHANGED <<batch, got>>
     ELSE batch' = Append(batch, Head(events)) /\ got' = got + 1 /\ UNCHANGED failures
  /\ events' = Tail(events)
  /\ ByTask /\ UNCHANGED <<task, db, left>>

Drained == events = <<>> /\ \A e \in Enrichers : enricher[e].pc = "done"
Due == task = "drain" /\ batch # <<>> /\ (Len(batch) = BatchMax \/ Drained)
Persist ==
  /\ Due
  /\ db' = upsert_lustre_scan_batch(db, batch) /\ batch' = <<>>
  /\ ByTask /\ UNCHANGED <<task, events, got, failures, left>>
\* The initial scan gives up, a scan of the API goes on without the batch.
PersistFails ==
  /\ Due /\ Spend("faults")
  /\ IF Initial THEN task' = "start" /\ UNCHANGED <<batch, failures>>
                ELSE task' = task /\ batch' = <<>> /\ failures' = failures + 1
  /\ ByTask /\ UNCHANGED <<db, events, got>>

Outcome ==
  IF Initial THEN IF progress.errors > 0 THEN "start" ELSE "ingest"
  ELSE IF failures + progress.errors > 0 /\ progress.scanned = 0 THEN "Failed" ELSE "Completed"
\* Fault: the rows of the last batch are not stored.
EndUnflushed ==
  /\ task = "drain" /\ Drained
  /\ task' = Outcome
  /\ ByTask /\ UNCHANGED <<events, store, left>>
End ==
  /\ task = "drain" /\ Drained /\ batch = <<>>
  /\ task' = Outcome
  /\ ByTask /\ UNCHANGED <<events, store, left>>

\* The daemon dies and starts again; the catalog stays.
Crash ==
  /\ Initial /\ Spend("crashes") /\ task # "ingest"
  /\ task' = "count" /\ Begins
  /\ partly' = (partly \/ Rows(db) # {})
  /\ UNCHANGED <<world, link, db, moved>>

-----------------------------------------------------------------------------
Walk(w) == Take(w) \/ Quit(w) \/ EmitSelf(w) \/ ReadDir(w) \/ NextEntry(w) \/ ReadFails(w)
           \/ EmitEntry(w) \/ Finish(w)
LookUp(e) == TakeEvent(e) \/ EnricherQuits(e) \/ Enrich(e)
Task == Count \/ Start \/ Receive \/ Persist \/ End

Next ==
  \/ \E p, q \in Places : Rename(p, q)
  \/ \E p \in Places : Unlink(p)
  \/ task = "drain" /\ \E w \in Walkers : Walk(w)
  \/ task = "drain" /\ \E e \in Enrichers : LookUp(e)
  \/ Task \/ PersistFails \/ Crash

Spec == Init /\ [][Next]_vars

\* Every worker and the storing task are tasks of the runtime.
Fairness ==
  /\ \A w \in Walkers : WF_vars(task = "drain" /\ Walk(w))
  /\ \A e \in Enrichers : WF_vars(task = "drain" /\ LookUp(e))
  /\ WF_vars(Task)
LiveSpec == Spec /\ Fairness

-----------------------------------------------------------------------------
Busy == {w \in Walkers : walker[w].pc \notin {"idle", "done"}}

(* Every variable has its type; the counters, which are unsigned in the code,  *)
(* do not go below zero, and pending counts the directories queued or walked.  *)
TypeOK ==
  /\ CatalogOK(db)
  /\ task \in {"count", "start", "drain", "ingest", "Completed", "Failed"}
  /\ progress.scanned \in Nat /\ progress.errors \in Nat /\ got \in Nat
  /\ Len(posix) <= Channel /\ Len(events) <= Channel /\ Len(batch) <= BatchMax
  /\ pending = Len(work) + Cardinality(Busy)

Paths == UNION {[1..n -> Names] : n \in 1..(Cardinality(Dirs) + 1)}
Stays(path) ==
  /\ Lookup(path) # None
  /\ \A i \in 1..Len(path) : <<Lookup(SubSeq(path, 1, i - 1)), path[i]>> \notin moved
Wanted(path) ==
  /\ \A i \in 1..Len(path) : ~Ignored(path[i])
  /\ Lookup(path) \notin world.old
  /\ world.max_depth # None =>
       Len(path) <= world.max_depth + (IF IsDir(Lookup(path)) THEN 0 ELSE 1)
Finished == task = "ingest" \/ (task = "Completed" /\ failures + progress.errors = 0)

(* A scan that ends without errors has stored every entry whose path stayed   *)
(* as it was during the scan: no directory is lost between the workers, no     *)
(* event in a channel, no row in a last batch.  Left out: what the request     *)
(* filters, and an initial scan that is not repeated because the daemon died   *)
(* with a part of it stored.                                                   *)
ScanComplete ==
  Finished /\ ~partly =>
    \A path \in Paths : Stays(path) /\ Wanted(path) =>
      /\ db.entry[Lookup(path)] # None
      /\ db.edge[<<Lookup(Front(path)), Last(path)>>] = Lookup(path)

(* When the last event is out, scanned is the number of rows that were handed  *)
(* over: every entry was counted once, also if its lookup failed later.        *)
ScannedIsReceived == task = "drain" /\ Drained => progress.scanned = got

(* The workers do not wait for each other for ever, whatever changes and       *)
(* fails, and the daemon gets to its ingest loops.                             *)
ScanEnds == <>(task \in {"ingest", "Completed", "Failed"})
=============================================================================
