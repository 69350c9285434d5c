------------------------------ MODULE Actions ------------------------------
(***************************************************************************)
(* What a policy does to one entry: the backend actions purge, alert and   *)
(* backup (rbh-actions/src/backend.rs) on a name that the namespace        *)
(* adapter resolves (rbh-namespace/src/adapter.rs), and the HSM executors  *)
(* (rbh-actions/src/executor.rs).  Workers of policy runs act at the same  *)
(* time, users rename, replace and delete the files they act on, and       *)
(* changelog ingest brings the catalog up to date some time later.         *)
(*                                                                         *)
(* The namespace is one directory; every purge moves its file aside to a   *)
(* new name in the same directory, which users leave alone.  A worker      *)
(* holds the row that the query of its run returned, which may be old.     *)
(* Ingest is kept as what it achieves for one object (LustreCatalog and    *)
(* JuiceFs have its steps).                                                *)
(***************************************************************************)
EXTENDS Catalog

CONSTANTS
  Workers,
  Asides,    \* the quarantine names that purges draw
  Worlds     \* backend, kinds of action, purges and user operations allowed,
             \* kinds of user operation and transient errors

Results == {"success", "failed", "already_missing", "skipped", "error", "crash"}
\* The rows of files that purges, alerts and backups have left a status in.
FileRows == [parent : Dirs \cup {Root}, name : Names, kind : {"file"}, nlink : {1}, osts : {{}},
             sm : {None} \cup [last_action : Results]]

\* There is an object to begin with, and a name that users can give to it.
ASSUME ActionsAssumption ==
  /\ Asides \subseteq Names /\ Names \ Asides # {} /\ None \notin Asides
  /\ \E o \in Objects : \A x \in Objects : o <= x
  /\ None \notin Results /\ None \notin FileRows

VARIABLES
  world,
  link,      \* the namespace
  hsm,       \* HSM flags of each file
  queue,     \* requests the HSM coordinator has taken
  db,
  pend,      \* objects with changelog records that are not ingested yet
  work,      \* the workers
  made,      \* history: objects that were created
  targets,   \* history: objects some purge was started for
  gone,      \* history: objects that users have deleted or overwritten
  been,      \* history: the names that each object has had
  back,      \* history: objects that came back to a name they had left, or that a
             \* purge took for gone because looking them up failed
  cargo,     \* history: what each quarantine name was drawn for, None if it is new
  fate,      \* history: how the purge of each quarantine name ended
  left       \* what world still allows: runs, ops, errors

user == <<hsm, made, gone>>
past == <<been, back, cargo>>
vars == <<world, link, hsm, queue, db, pend, work, made, targets, gone, been, back, cargo, fate, left>>

Kept(q)    == <<Root, q>>
Quarantine == {Kept(q) : q \in Asides}
Visible    == Places \ Quarantine
Links(o)   == {p \in Places : link[p] = o}
Live       == {o \in Objects : Links(o) # {}}

Idle == [pc |-> "idle", kind |-> None, obj |-> None, at |-> NoPlace, path |-> NoPlace,
         row |-> None, aside |-> None, result |-> None]

FileRow(p) == [parent |-> p[1], name |-> p[2], kind |-> "file", nlink |-> 1, osts |-> {}, sm |-> None]

\* One file that is cataloged; further objects may be created.
First == CHOOSE o \in Objects : \A x \in Objects : o <= x
Home  == CHOOSE p \in Visible : TRUE

Init ==
  /\ world \in Worlds
  /\ link = [p \in Places |-> IF p = Home THEN First ELSE None]
  /\ db = upsert_scoped_namespace_edge(upsert_scoped_entry(Empty, First, FileRow(Home)), Home, First)
  /\ hsm = [o \in Objects |-> {}] /\ queue = {}
  /\ pend = {} /\ work = [w \in Workers |-> Idle]
  /\ made = {First} /\ targets = {} /\ gone = {}
  /\ been = {<<First, Home>>} /\ back = {}
  /\ cargo = [q \in Asides |-> None] /\ fate = [q \in Asides |-> None]
  /\ left = [runs |-> world.runs, ops |-> world.ops, errors |-> world.errors]

-----------------------------------------------------------------------------
(* Users.                                                                   *)

Uses(op) ==
  /\ op \in world.kinds /\ left.ops > 0
  /\ left' = [left EXCEPT !.ops = @ - 1]
  /\ UNCHANGED <<world, queue, db, work, targets, cargo, fate>>

Comes(o, p) ==
  /\ been' = been \cup {<<o, p>>}
  /\ back' = IF <<o, p>> \in been THEN back \cup {o} ELSE back

Create(o, p) ==
  /\ o \notin made /\ (\A x \in Objects : x < o => x \in made) /\ link[p] = None
  /\ link' = [link EXCEPT ![p] = o] /\ made' = made \cup {o} /\ pend' = pend \cup {o}
  /\ Comes(o, p)
  /\ UNCHANGED <<hsm, gone>> /\ Uses("create")
Rename(p, q) ==
  /\ link[p] # None /\ p # q
  /\ link' = [link EXCEPT ![p] = None, ![q] = link[p]]
  /\ pend' = pend \cup ({link[p], link[q]} \ {None})
  /\ gone' = gone \cup ({link[q]} \ {None})
  /\ Comes(link[p], q)
  /\ UNCHANGED <<hsm, made>> /\ Uses("rename")
Delete(p) ==
  /\ link[p] # None
  /\ link' = [link EXCEPT ![p] = None]
  /\ pend' = pend \cup {link[p]} /\ gone' = gone \cup {link[p]}
  /\ UNCHANGED <<hsm, made, been, back>> /\ Uses("delete")
\* A released file is brought back before it is written.
WriteFile(o) ==
  /\ o \in Live
  /\ hsm' = [hsm EXCEPT ![o] = (@ \ {"RELEASED"}) \cup (IF "ARCHIVED" \in @ THEN {"DIRTY"} ELSE {})]
  /\ UNCHANGED <<link, pend, made, gone, been, back>> /\ Uses("write")

\* What ingest achieves for one object: its edges are its names, it has a row
\* while it has a name.
Synced(o) ==
  LET edges == [p \in Places |-> IF link[p] = o THEN o ELSE IF db.edge[p] = o THEN None ELSE db.edge[p]]
      row   == IF o \notin Live THEN None
               ELSE LET p == CHOOSE p \in Links(o) : TRUE
                    IN IF db.entry[o] = None THEN FileRow(p)
                       ELSE [db.entry[o] EXCEPT !.parent = p[1], !.name = p[2]]
  IN [db EXCEPT !.edge = edges, !.entry[o] = row]
\* JuiceFS ingest cannot apply a move of an object whose row a purge removed.
Ingest(o) ==
  /\ o \in pend
  /\ world.backend = "JuiceFs" /\ o \in Live /\ db.entry[o] = None => db.removed[o] = None
  /\ db' = Synced(o) /\ pend' = pend \ {o}
  /\ UNCHANGED <<world, link, user, queue, work, targets, past, fate, left>>

-----------------------------------------------------------------------------
(* A worker.                                                                *)

At1(w)        == work[w].pc
\* The fate of a quarantine name is the result of the purge that drew it.
Goes(w, rec)  ==
  /\ work' = [work EXCEPT ![w] = rec]
  /\ fate' = [q \in Asides |-> IF q = work[w].aside THEN rec.result ELSE fate[q]]
To(w, pc)     == Goes(w, [work[w] EXCEPT !.pc = pc])
Ends(w, r)    == Goes(w, [Idle EXCEPT !.result = r])
OnlyWorker    == UNCHANGED <<world, user, queue, targets, past>>
OnlyWork      == OnlyWorker /\ UNCHANGED <<link, db, pend, left>>
HsmKinds      == {"archive", "release", "restore", "remove"}

\* HSM policies run again and again; the others as often as world allows.
Start(w, kind, o) ==
  /\ At1(w) = "idle"
  /\ kind \in world.actions /\ db.entry[o] # None
  /\ left' = IF kind \in HsmKinds THEN left ELSE [left EXCEPT !.runs = @ - 1]
  /\ left'.runs >= 0
  /\ targets' = IF kind = "purge" THEN targets \cup {o} ELSE targets
  /\ Goes(w, [Idle EXCEPT !.pc = IF kind \in HsmKinds THEN "check" ELSE "resolve",
                          !.kind = kind, !.obj = o, !.at = At(db.entry[o])])
  /\ UNCHANGED <<world, link, user, queue, db, pend, past>>

\* A failure that the backend records in the row before it returns.
Fail(w) == To(w, "failed")
\* Purge takes an unknown or stale object for one that is gone already.
TakenForGone(w, error) == work[w].kind = "purge" /\ error \in {"NotFound", "StalePath"}
Unresolved(w, error) == IF TakenForGone(w, error) THEN To(w, "missing") ELSE Fail(w)
\* A call on the mount that fails: most failures are reported as a stale path.
LookupErrs(w, error) ==
  /\ left.errors > 0 /\ left' = [left EXCEPT !.errors = @ - 1]
  /\ Unresolved(w, error)
  /\ back' = IF TakenForGone(w, error) THEN back \cup {work[w].obj} ELSE back

resolve_juice_object(w) ==
  LET o == work[w].obj
      edges == list_scoped_object_edges(db, o)
  IN \/ /\ UNCHANGED <<left, back>>
        /\ \/ db.entry[o] = None /\ Unresolved(w, "NotFound")
           \/ db.entry[o] # None /\ edges = {} /\ Unresolved(w, "MissingParent")
           \/ db.entry[o] # None /\ edges # {} /\ edges \cap Links(o) = {} /\ Unresolved(w, "StalePath")
           \/ \E p \in edges \cap Links(o) :
                db.entry[o] # None /\ Goes(w, [work[w] EXCEPT !.pc = "act", !.path = p])
     \/ db.entry[o] # None /\ edges # {} /\ LookupErrs(w, "StalePath")
     \/ LookupErrs(w, "Io")
\* fid_to_path; path_to_fid checks the answer in a step of its own.
resolve_lustre(w) ==
  LET names == Links(work[w].obj)
  IN \/ /\ UNCHANGED <<left, back>>
        /\ \/ names = {} /\ Unresolved(w, "StalePath")
           \/ \E p \in names : Goes(w, [work[w] EXCEPT !.pc = "verify", !.path = p])
     \/ \E error \in {"StalePath", "Io"} : LookupErrs(w, error)
OnlyLookup == UNCHANGED <<world, user, queue, targets, been, cargo, link, db, pend>>
Resolve(w) ==
  /\ At1(w) = "resolve"
  /\ \/ world.backend = "JuiceFs" /\ resolve_juice_object(w)
     \/ world.backend = "Lustre" /\ resolve_lustre(w)
  /\ OnlyLookup
\* path_to_fid and stat.
VerifyPath(w) ==
  /\ At1(w) = "verify"
  /\ \/ /\ IF link[work[w].path] = work[w].obj THEN To(w, "act") ELSE Unresolved(w, "StalePath")
        /\ UNCHANGED <<left, back>>
     \/ \E error \in {"StalePath", "Io"} : LookupErrs(w, error)
  /\ OnlyLookup

-----------------------------------------------------------------------------
(* execute_purge and capture_verify_and_remove.                             *)

Moves(p, q) ==
  /\ link' = [link EXCEPT ![p] = None, ![q] = link[p]]
  /\ pend' = pend \cup {link[p]}
  /\ Comes(link[p], q)

\* Under a new name (a UUID), so that nothing is there.
Capture(w) ==
  /\ At1(w) = "act" /\ work[w].kind = "purge"
  /\ LET path == work[w].path IN
     IF link[path] = None
     THEN Fail(w) /\ UNCHANGED <<link, pend, past>>
     ELSE \E q \in Asides :
            /\ cargo[q] = None /\ cargo' = [cargo EXCEPT ![q] = link[path]]
            /\ Moves(path, Kept(q))
            /\ Goes(w, [work[w] EXCEPT !.pc = "captured", !.aside = q])
  /\ UNCHANGED <<world, user, queue, targets, db, left>>

Captured(w) == link[Kept(work[w].aside)]
IsTarget(w) == Captured(w) = work[w].obj
\* Fault: another object is taken for a target that is gone.
CheckedAsGone(w) ==
  /\ At1(w) = "captured"
  /\ To(w, IF Captured(w) = None THEN "failed" ELSE IF IsTarget(w) THEN "remove" ELSE "removed")
  /\ OnlyWork
CheckCaptured(w) ==
  /\ At1(w) = "captured"
  /\ To(w, IF Captured(w) = None THEN "failed" ELSE IF IsTarget(w) THEN "remove" ELSE "restore")
  /\ OnlyWork
CheckErrs(w) ==
  /\ At1(w) = "captured" /\ left.errors > 0
  /\ left' = [left EXCEPT !.errors = @ - 1]
  /\ Fail(w)
  /\ OnlyWorker /\ UNCHANGED <<link, db, pend>>
\* Another purge of the same file may have taken it from its quarantine name.
RemoveFile(w) ==
  /\ At1(w) = "remove" /\ Captured(w) # None
  /\ link' = [link EXCEPT ![Kept(work[w].aside)] = None] /\ pend' = pend \cup {work[w].obj}
  /\ To(w, "removed")
  /\ OnlyWorker /\ UNCHANGED <<db, left>>
RemoveErrs(w) ==
  /\ At1(w) = "remove"
  /\ \/ Captured(w) = None /\ UNCHANGED left
     \/ left.errors > 0 /\ left' = [left EXCEPT !.errors = @ - 1]
  /\ To(w, "restore")
  /\ OnlyWorker /\ UNCHANGED <<link, db, pend>>
\* rename_noreplace: an object that has taken the name meanwhile stays, and
\* the captured one is preserved under its quarantine name, as it is when the
\* call fails for another reason.
\* Fault: a plain rename.
RestoreReplaces(w) ==
  /\ At1(w) = "restore" /\ Captured(w) # None
  /\ Moves(Kept(work[w].aside), work[w].path)
  /\ Fail(w)
  /\ UNCHANGED <<world, user, queue, targets, cargo, db, left>>
Restore(w) ==
  /\ At1(w) = "restore"
  /\ IF link[work[w].path] = None /\ Captured(w) # None
     THEN Moves(Kept(work[w].aside), work[w].path)
     ELSE UNCHANGED <<link, pend, been, back>>
  /\ Fail(w)
  /\ UNCHANGED <<world, user, queue, targets, cargo, db, left>>
RestoreErrs(w) ==
  /\ At1(w) = "restore" /\ left.errors > 0
  /\ left' = [left EXCEPT !.errors = @ - 1]
  /\ Fail(w)
  /\ OnlyWorker /\ UNCHANGED <<link, db, pend>>

-----------------------------------------------------------------------------
(* Alert and backup: the webhook or the tool, then the row.                  *)

Deliver(w) ==
  /\ At1(w) = "act" /\ work[w].kind \in {"alert", "backup"}
  /\ \/ work[w].kind = "backup" /\ link[work[w].path] = None /\ Fail(w) /\ UNCHANGED left
     \/ (work[w].kind = "backup" => link[work[w].path] # None) /\ To(w, "done") /\ UNCHANGED left
     \/ left.errors > 0 /\ left' = [left EXCEPT !.errors = @ - 1] /\ Fail(w)
  /\ OnlyWorker /\ UNCHANGED <<link, db, pend>>

-----------------------------------------------------------------------------
(* The row: patch_scoped_sm_status reads the row and writes all of it back,  *)
(* then a purge removes the name it has resolved, or, if it found nothing,   *)
(* the name of the row its run had queried.                                  *)

States(pc) == CASE pc = "missing" -> "already_missing" [] pc = "failed" -> "failed"
                [] pc \in {"removed", "done"} -> "success"
ReadStatus(w) ==
  /\ At1(w) \in {"missing", "failed", "removed", "done"}
  /\ LET row  == db.entry[work[w].obj]
         name == IF At1(w) = "missing" THEN work[w].at ELSE work[w].path
         next == [work[w] EXCEPT !.result = States(At1(w)), !.path = name, !.row = row,
                                 !.pc = IF At1(w) \in {"missing", "removed"} THEN "patch" ELSE "note"]
     IN Goes(w, next)
  /\ OnlyWork

Patched(w) ==
  IF work[w].row = None THEN db
  ELSE upsert_scoped_entry(db, work[w].obj,
         patch_scoped_sm_status(work[w].row, [last_action |-> work[w].result]))
WriteStatus(w) ==
  /\ At1(w) \in {"patch", "note"}
  /\ db' = Patched(w)
  /\ IF At1(w) = "patch" THEN To(w, "unlink") ELSE Ends(w, work[w].result)
  /\ OnlyWorker /\ UNCHANGED <<link, pend, left>>
UnlinkRow(w) ==
  /\ At1(w) = "unlink"
  /\ db' = apply_scoped_unlink(db, work[w].path, work[w].obj, FALSE)
  /\ Ends(w, work[w].result)
  /\ OnlyWorker /\ UNCHANGED <<link, pend, left>>

-----------------------------------------------------------------------------
(* The HSM executors: look at the flags, then skip or submit a request.      *)

HsmArchiveExecutor(f) == ~("ARCHIVED" \in f /\ "DIRTY" \notin f)
\* Fault: a file that is released already is released once more.
ReleaseAgain(f) == "ARCHIVED" \in f
HsmReleaseExecutor(f) == "ARCHIVED" \in f /\ "RELEASED" \notin f
HsmRestoreExecutor(f) == "RELEASED" \in f
HsmRemoveExecutor(f)  == "ARCHIVED" \in f /\ "DIRTY" \notin f
Submits(kind, f) ==
  CASE kind = "archive" -> HsmArchiveExecutor(f) [] kind = "release" -> HsmReleaseExecutor(f)
    [] kind = "restore" -> HsmRestoreExecutor(f) [] kind = "remove" -> HsmRemoveExecutor(f)

HsmCheck(w) ==
  /\ At1(w) = "check"
  /\ IF work[w].obj \notin Live THEN Ends(w, "error")
     ELSE IF Submits(work[w].kind, hsm[work[w].obj]) THEN To(w, "submit")
     ELSE Ends(w, "skipped")
  /\ OnlyWork
HsmSubmit(w) ==
  /\ At1(w) = "submit"
  /\ queue' = queue \cup {<<work[w].kind, work[w].obj>>}
  /\ Ends(w, "success")
  /\ UNCHANGED <<world, user, targets, link, db, pend, past, left>>

\* The coordinator carries a request out if the flags still allow it.
Allowed(kind, f) ==
  CASE kind = "archive" -> "RELEASED" \notin f
    [] kind = "release" -> "ARCHIVED" \in f /\ "DIRTY" \notin f
    [] kind = "restore" -> "RELEASED" \in f
    [] kind = "remove"  -> "RELEASED" \notin f
After(kind, f) ==
  CASE kind = "archive" -> {"ARCHIVED"}
    [] kind = "release" -> f \cup {"RELEASED"}
    [] kind = "restore" -> f \ {"RELEASED"}
    [] kind = "remove"  -> {}
Coordinate(kind, o) ==
  /\ <<kind, o>> \in queue /\ queue' = queue \ {<<kind, o>>}
  /\ hsm' = IF Allowed(kind, hsm[o]) THEN [hsm EXCEPT ![o] = After(kind, @)] ELSE hsm
  /\ UNCHANGED <<world, link, db, pend, work, made, targets, gone, past, fate, left>>

\* The daemon stops, and all workers with it.
Crash ==
  /\ left.errors > 0 /\ left' = [left EXCEPT !.errors = @ - 1]
  /\ work' = [w \in Workers |-> [Idle EXCEPT !.result = "crash"]]
  /\ fate' = [q \in Asides |-> IF \E w \in Workers : work[w].aside = q THEN "crash" ELSE fate[q]]
  /\ OnlyWorker /\ UNCHANGED <<link, db, pend>>

-----------------------------------------------------------------------------
Operation ==
  \/ \E o \in Objects, p \in Visible : Create(o, p)
  \/ \E p, q \in Visible : Rename(p, q)
  \/ \E p \in Visible : Delete(p)
  \/ \E o \in Objects : WriteFile(o)
Step(w) ==
  \/ Resolve(w) \/ VerifyPath(w) \/ Capture(w) \/ CheckCaptured(w) \/ CheckErrs(w)
  \/ RemoveFile(w) \/ RemoveErrs(w) \/ Restore(w) \/ RestoreErrs(w) \/ Deliver(w)
  \/ ReadStatus(w) \/ WriteStatus(w) \/ UnlinkRow(w) \/ HsmCheck(w) \/ HsmSubmit(w)
Starts(w) == \E kind \in world.actions, o \in Objects : Start(w, kind, o)

Next ==
  \/ Operation \/ Crash
  \/ \E o \in Objects : Ingest(o) \/ \E k \in HsmKinds : Coordinate(k, o)
  \/ \E w \in Workers : Starts(w) \/ Step(w)

Spec == Init /\ [][Next]_vars

\* Workers run to their end, each of the two HSM policies is run again by its
\* schedule whatever the other does, and the coordinator takes up every request.
Repeated == {"archive", "release"}
Fairness ==
  /\ \A k \in Repeated : WF_vars(Coordinate(k, First))
  /\ \A w \in Workers : WF_vars(Step(w))
  /\ \A k \in Repeated : SF_vars(\E w \in Workers : Start(w, k, First))
LiveSpec == Spec /\ Fairness

-----------------------------------------------------------------------------
\* Types, and that a worker that acts, removes or restores holds a path (backend.rs).
TypeOK ==
  /\ CatalogOK(db)
  /\ \A p \in Places : link[p] \in Objects \cup {None}
  /\ \A w \in Workers : At1(w) \in {"act", "remove", "restore"} => work[w].path \in Places

(* A purge destroys nothing but its target: every object that users have not  *)
(* deleted and no purge was started for still has a name, whatever users put  *)
(* in the place of the target while it was captured, and also after a crash.  *)
NothingElseLost == \A o \in made \ (gone \cup targets) : Links(o) # {}

(* No purge ends well and leaves a file under its quarantine name, nor does     *)
(* another purge bring one back there later: a file that could not be put back *)
(* is reported as a failure, unless the daemon died.                           *)
HiddenIsReported ==
  \A q \in Asides : link[Kept(q)] # None /\ (\A w \in Workers : work[w].aside # q)
    => fate[q] \in {"failed", "crash"}

Quiet == pend = {}

(* When ingest has no record left, the edges of the catalog are the names of   *)
(* the namespace and every live file has its row, although workers and ingest  *)
(* update the catalog in any order and workers may be half way.  Two kinds of  *)
(* file are the exception: those that came back to a name they had left, since *)
(* a purge that saw them gone removes the row they have got back, and those    *)
(* that a purge could not look up, since the adapter reports a failed call as  *)
(* a stale path and the purge removes the row and the edge of the live file.   *)
(* The types hold in every state.                                              *)
ConvergedWhenQuiet ==
  /\ TypeOK
  /\ Quiet => /\ \A p \in Places : db.edge[p] # link[p] => link[p] \in back
              /\ \A o \in Live \ back : db.entry[o] # None

(* Schedules run the archive and the release policy again and again; once the  *)
(* files are no longer written, and no other HSM policy undoes their work,     *)
(* they find nothing to do: no request is submitted for a file that is         *)
(* archived, clean and released.                                               *)
HsmSettles == <>[](world.actions \subseteq Repeated => \A w \in Workers : At1(w) # "submit")
=============================================================================
