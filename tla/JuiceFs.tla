------------------------------ MODULE JuiceFs ------------------------------
(***************************************************************************)
(* A JuiceFS volume and its way into the catalog: the changelog agent      *)
(* (agents/juicefs-changelog-agent), the change source that watches and    *)
(* acknowledges it (rbh-change-source/src/juicefs.rs), the supervisor with *)
(* its baseline scans (rbh-daemon/src/lib.rs), and the part of the ingest  *)
(* loop that applies JuiceFS changes and publishes the baseline            *)
(* (rbh-daemon/src/changelog.rs).                                          *)
(*                                                                         *)
(* The volume is one directory.  A scan visits its names one by one while  *)
(* the volume changes.  A look at the volume and the statement that stores *)
(* what was seen are one step, since no other task writes these rows; each *)
(* further statement is a step.  Records are their positions in the log.   *)
(***************************************************************************)
EXTENDS Catalog

CONSTANTS
  Visits,   \* the names in the order in which a scan visits them
  Worlds    \* scenarios: the kinds of operation, their number, the number of
            \* faults, and whether the agent starts without a cursor

FileRows == [parent : {Root}, name : Names, kind : {"file"}, nlink : 0..MaxLinks, osts : {{}},
             sm : {None}]

\* One directory, of which a scan visits every name.
ASSUME JuiceAssumption ==
  /\ Dirs = {}
  /\ Visits \in Seq(Names) /\ \A n \in Names : \E i \in DOMAIN Visits : Visits[i] = n
  /\ None \notin FileRows

VARIABLES
  world,
  link,      \* the volume: the inode at each name
  log,       \* its changelog
  db,        \* the catalog
  base,      \* filesystem_baselines.state
  cursor,    \* the agent's cursor file, None when absent
  delivered, \* what the agent remembers to have sent
  src,       \* the change source: stream, last_acknowledged, pending
  sup,       \* the step the supervisor and its ingest loop are at
  applied,   \* history: the records whose changes the catalog has taken, one by
             \* one or with a scan that began after Watch had passed them
  faults

volume == <<link, log>>
vars   == <<world, link, log, db, base, cursor, delivered, src, sup, applied, faults>>

At1(n)    == <<Root, n>>
Links(o)  == {p \in Places : link[p] = o}
Closed    == [open |-> FALSE, next |-> 0, last |-> 0, pending |-> 0]
Boot      == [pc |-> "boot", todo |-> <<>>, seen |-> {}, catching |-> FALSE, verified |-> FALSE]
Stored    == IF cursor = None THEN 0 ELSE cursor

Init ==
  /\ world \in Worlds
  /\ link = [p \in Places |-> None] /\ log = <<>>
  /\ db = Empty /\ base = None
  /\ cursor = (IF world.tail THEN None ELSE 0) /\ delivered = 0
  /\ src = Closed /\ sup = Boot
  /\ applied = {} /\ faults = 0

-----------------------------------------------------------------------------
(* The volume.                                                             *)

Logs(op, o, from, to) ==
  /\ op \in world.ops /\ Len(log) < world.max
  /\ log' = Append(log, [op |-> op, obj |-> o, from |-> from, to |-> to])
  /\ UNCHANGED <<world, db, base, cursor, delivered, src, sup, applied, faults>>

Known(o) == \E i \in DOMAIN log : log[i].obj = o

Create(o, p) ==
  /\ ~Known(o) /\ link[p] = None /\ \A q \in Objects : q < o => Known(q)
  /\ link' = [link EXCEPT ![p] = o]
  /\ Logs("CREATE", o, NoPlace, p)
Link(o, p) ==
  /\ Links(o) # {} /\ link[p] = None
  /\ link' = [link EXCEPT ![p] = o]
  /\ Logs("LINK", o, NoPlace, p)
Move(p, q) ==
  /\ link[p] # None /\ link[q] # link[p]
  /\ link' = [link EXCEPT ![p] = None, ![q] = link[p]]
  /\ Logs("MOVE", link[p], p, q)
Unlink(p) ==
  /\ link[p] # None
  /\ link' = [link EXCEPT ![p] = None]
  /\ Logs("UNLINK", link[p], p, NoPlace)
Touch(o) == Links(o) # {} /\ link' = link /\ Logs("WRITE", o, NoPlace, NoPlace)
Maintain == link' = link /\ Logs("SET", None, NoPlace, NoPlace)

Operation ==
  \/ \E o \in Objects, p \in Places : Create(o, p) \/ Link(o, p)
  \/ \E p, q \in Places : Move(p, q)
  \/ \E p \in Places : Unlink(p)
  \/ \E o \in Objects : Touch(o)
  \/ Maintain

-----------------------------------------------------------------------------
(* The supervisor: baseline, connection, second baseline, ingest.          *)

BySupervisor == UNCHANGED <<world, volume, delivered, faults>>
Steps(new) == sup' = new
To(pc) == Steps([sup EXCEPT !.pc = pc])

\* The source is dropped with the ingest loop; the supervisor starts again.
Restarts == src' = Closed /\ Steps(Boot)

BaselineStates == {"Scanning", "CatchingUp", "Ready", "Invalid"}
NeedsScan == base \in {None, "Scanning", "Invalid"}
ReadBaseline ==
  /\ sup.pc = "boot"
  /\ To(IF NeedsScan THEN "scan" ELSE "connect")
  /\ UNCHANGED <<db, base, cursor, src, applied>> /\ BySupervisor

\* run_juicefs_baseline, before or after the connection.
BeginScan ==
  /\ sup.pc = "scan"
  /\ base' = "Scanning" /\ To("clear")
  /\ UNCHANGED <<db, cursor, src, applied>> /\ BySupervisor
ClearCatalog ==
  /\ sup.pc = "clear"
  /\ db' = clear_scoped_catalog(db)
  /\ Steps([sup EXCEPT !.pc = "walk", !.todo = Visits])
  /\ UNCHANGED <<base, cursor, src, applied>> /\ BySupervisor

ScanRow(o, p) == [parent |-> p[1], name |-> p[2], kind |-> "file", nlink |-> LinkCount(Links(o)),
                  osts |-> {}, sm |-> None]
Scanned(tables, p) ==
  LET o == link[p]
  IN IF o = None THEN tables
     ELSE upsert_scoped_namespace_edge(upsert_scoped_entry(tables, o, ScanRow(o, p)), p, o)
Walk ==
  /\ sup.pc = "walk" /\ sup.todo # <<>>
  /\ db' = Scanned(db, At1(Head(sup.todo)))
  /\ Steps([sup EXCEPT !.todo = Tail(@)])
  /\ UNCHANGED <<base, cursor, src, applied>> /\ BySupervisor
EndWalk ==
  /\ sup.pc = "walk" /\ sup.todo = <<>>
  /\ base' = "CatchingUp"
  /\ Steps([sup EXCEPT !.pc = IF src.next > 0 THEN "ingest" ELSE "connect"])
  /\ applied' = applied \cup 1..(src.next - 1)
  /\ UNCHANGED <<db, cursor, src>> /\ BySupervisor

\* Watch starts after the cursor, or at the tail if there is none.
\* Fault: the record at the cursor is taken for acknowledged and skipped once more.
WatchSkipsOne == IF cursor = None THEN Len(log) + 1 ELSE cursor + 2
WatchFrom == IF cursor = None THEN Len(log) + 1 ELSE cursor + 1
\* The scan is repeated once Watch holds what changes meanwhile.
AfterConnect == IF base = "CatchingUp" THEN "scan" ELSE "ingest"
Connect ==
  /\ sup.pc = "connect"
  /\ src' = [Closed EXCEPT !.open = TRUE, !.next = WatchFrom]
  /\ To(AfterConnect)
  /\ UNCHANGED <<db, base, cursor, applied>> /\ BySupervisor

\* ingest_loop reads the baseline once, when it starts.
IngestBegins ==
  /\ sup.pc = "ingest"
  /\ Steps([sup EXCEPT !.pc = "wait", !.catching = base = "CatchingUp", !.verified = FALSE])
  /\ UNCHANGED <<db, base, cursor, src, applied>> /\ BySupervisor

-----------------------------------------------------------------------------
(* next_batch and the agent behind it.                                     *)

Larger(x, y) == IF x > y THEN x ELSE y

Reopen ==
  /\ sup.pc = "wait" /\ ~src.open
  /\ src' = [src EXCEPT !.open = TRUE, !.next = WatchFrom]
  /\ UNCHANGED <<db, base, cursor, sup, applied>> /\ BySupervisor
\* Watch answers AlreadyExists while the agent still serves the old stream.
ReopenRefused ==
  /\ sup.pc = "wait" /\ ~src.open
  /\ faults < world.faults /\ faults' = faults + 1
  /\ Restarts
  /\ UNCHANGED <<world, volume, delivered, db, base, cursor, applied>>

\* next_batch would skip a version that it has acknowledged: see TypeOK.
Receive ==
  /\ sup.pc = "wait" /\ src.open /\ src.next <= Len(log)
  /\ delivered' = Larger(delivered, src.next)
  /\ src' = [src EXCEPT !.next = @ + 1, !.pending = src.next]
  /\ Steps([sup EXCEPT !.pc = "apply", !.verified = FALSE])
  /\ UNCHANGED <<world, volume, db, base, cursor, applied, faults>>

-----------------------------------------------------------------------------
(* The quiet period while catching up: the timer may expire at any moment,  *)
(* also while records are on their way.                                     *)

\* Fault: the result of the comparison is not kept for the next quiet period.
QuiescentForgets ==
  /\ sup.pc = "wait" /\ sup.catching
  /\ Steps([sup EXCEPT !.pc = "verify", !.todo = Visits, !.seen = {}])
  /\ UNCHANGED <<db, base, cursor, src, applied>> /\ BySupervisor
Quiescent ==
  /\ sup.pc = "wait" /\ sup.catching
  /\ IF sup.verified
     THEN base' = "Ready" /\ Steps([sup EXCEPT !.catching = FALSE])
     ELSE base' = base /\ Steps([sup EXCEPT !.pc = "verify", !.todo = Visits, !.seen = {}])
  /\ UNCHANGED <<db, cursor, src, applied>> /\ BySupervisor

Mounted(p) == IF link[p] = None THEN {} ELSE {<<p, link[p]>>}
VerifyWalk ==
  /\ sup.pc = "verify" /\ sup.todo # <<>>
  /\ Steps([sup EXCEPT !.todo = Tail(@), !.seen = @ \cup Mounted(At1(Head(sup.todo)))])
  /\ UNCHANGED <<db, base, cursor, src, applied>> /\ BySupervisor

list_scoped_namespace_edges == {<<p, db.edge[p]>> : p \in {q \in Places : db.edge[q] # None}}
compare_namespace(mounted, catalog) == mounted = catalog
Compare ==
  /\ sup.pc = "verify" /\ sup.todo = <<>>
  /\ IF compare_namespace(sup.seen, list_scoped_namespace_edges)
     THEN Steps([sup EXCEPT !.pc = "wait", !.verified = TRUE]) /\ UNCHANGED <<base, src>>
     ELSE base' = "Invalid" /\ Restarts
  /\ UNCHANGED <<db, cursor, applied>> /\ BySupervisor

-----------------------------------------------------------------------------
(* apply_juicefs_change.                                                    *)

Rec == log[src.pending]

\* A CREATE whose name now has another inode, a change of an inode that no
\* cataloged name leads to, a change of an uncataloged inode.
ApplyErrs ==
  CASE Rec.op = "CREATE" -> link[Rec.to] \notin {None, Rec.obj}
    [] Rec.op = "MOVE"   -> db.entry[Rec.obj] = None
    [] Rec.op = "LINK"   -> HardlinkFails(db, Rec.to, Rec.obj)
    [] Rec.op = "WRITE"  -> \/ db.entry[Rec.obj] = None
                            \/ list_scoped_object_edges(db, Rec.obj) \cap Links(Rec.obj) = {}
    [] OTHER -> FALSE

\* Fault: the error is counted, and the batch is committed all the same.
ApplyErrorCommitted ==
  /\ sup.pc = "apply" /\ ApplyErrs
  /\ To("commit")
  /\ UNCHANGED <<db, base, cursor, src, applied>> /\ BySupervisor
ApplyFails ==
  /\ sup.pc = "apply" /\ ApplyErrs
  /\ Restarts
  /\ UNCHANGED <<db, base, cursor, applied>> /\ BySupervisor

CreatedRow(o, p) == [ScanRow(o, p) EXCEPT !.nlink = IF link[p] = None THEN 1 ELSE @]
MovedRow(row, p) == [row EXCEPT !.parent = p[1], !.name = p[2]]

Stores(new, pc) ==
  /\ db' = new /\ To(pc)
  /\ applied' = IF pc = "commit" THEN applied \cup {src.pending} ELSE applied
  /\ UNCHANGED <<base, cursor, src>> /\ BySupervisor

Apply ==
  /\ sup.pc = "apply" /\ ~ApplyErrs
  /\ LET o == Rec.obj IN
     \/ Rec.op = "CREATE" /\ Stores(upsert_scoped_entry(db, o, CreatedRow(o, Rec.to)), "edge")
     \/ Rec.op = "MOVE" /\ Stores(upsert_scoped_entry(db, o, MovedRow(db.entry[o], Rec.to)), "unedge")
     \/ Rec.op = "UNLINK" /\ Stores(apply_scoped_unlink(db, Rec.from, o, FALSE), "commit")
     \/ Rec.op = "LINK" /\ Stores(apply_scoped_hardlink(db, Rec.to, o), "commit")
     \/ Rec.op = "WRITE" /\ Stores([db EXCEPT !.entry[o].nlink = LinkCount(Links(o))], "commit")
     \/ Rec.op = "SET" /\ Stores(db, "commit")

\* Fault: a move leaves the old name in the catalog.
MoveKeepsName == sup.pc = "unedge" /\ Stores(db, "edge")
MoveUnlinks == sup.pc = "unedge" /\ Stores(remove_scoped_namespace_edge(db, Rec.from), "edge")
AddEdge     == sup.pc = "edge" /\ Stores(upsert_scoped_namespace_edge(db, Rec.to, Rec.obj), "commit")

-----------------------------------------------------------------------------
(* commit: Ack, and the cursor file.                                       *)

AckAccepted(v) == v <= delivered /\ v >= Stored

Ack ==
  /\ sup.pc = "commit"
  /\ IF AckAccepted(src.pending)
     THEN /\ cursor' = src.pending
          /\ src' = [src EXCEPT !.last = src.pending, !.pending = 0] /\ To("wait")
     ELSE cursor' = cursor /\ Restarts
  /\ UNCHANGED <<db, base, applied>> /\ BySupervisor

-----------------------------------------------------------------------------
(* Faults.                                                                  *)

Fails(quiet) == faults < world.faults /\ faults' = faults + 1 /\ UNCHANGED quiet

DaemonCrash == Fails(<<world, volume, delivered, db, base, cursor, applied>>) /\ Restarts
AgentRestart ==
  /\ src.open /\ sup.pc \notin {"boot", "connect"}
  /\ delivered' = 0 /\ src' = [src EXCEPT !.open = FALSE]
  /\ Fails(<<world, volume, db, base, cursor, sup, applied>>)
\* The answer to an Ack is lost after the cursor file was replaced.
AckLost ==
  /\ sup.pc = "commit" /\ AckAccepted(src.pending)
  /\ cursor' = src.pending /\ Restarts
  /\ Fails(<<world, volume, delivered, db, base, applied>>)
\* The scan errs, or the second walk, by which the baseline is verified.
ScanFails ==
  /\ sup.pc \in {"walk", "verify"} /\ base' = "Invalid" /\ Restarts
  /\ Fails(<<world, volume, delivered, db, cursor, applied>>)

Supervisor ==
  \/ ReadBaseline \/ BeginScan \/ ClearCatalog \/ Walk \/ EndWalk \/ Connect \/ IngestBegins
  \/ Reopen \/ Receive \/ VerifyWalk \/ Compare
  \/ ApplyFails \/ Apply \/ MoveUnlinks \/ AddEdge \/ Ack
Fault == DaemonCrash \/ AgentRestart \/ AckLost \/ ScanFails \/ ReopenRefused

Next == Operation \/ Supervisor \/ Quiescent \/ Fault

Spec == Init /\ [][Next]_vars

\* The supervisor is a loop that never waits for ever, and while it catches
\* up and receives nothing the quiet period ends.
Fairness == WF_vars(Supervisor) /\ WF_vars(Quiescent)
LiveSpec == Spec /\ Fairness

-----------------------------------------------------------------------------
\* Types; the cursor file and the acks name records that exist, the stream is past
\* what was acknowledged, and a record is pending exactly while it is applied or
\* committed (juicefs.rs).
TypeOK ==
  /\ CatalogOK(db)
  /\ base \in BaselineStates \cup {None}
  /\ Stored \in 0..Len(log) /\ delivered \in 0..Len(log)
  /\ src.pending \in 0..Len(log) /\ src.next \in 0..(Len(log) + 1)
  /\ sup.pc = "wait" /\ src.open => src.next > src.last
  /\ sup.pc \in {"apply", "unedge", "edge", "commit"} <=> src.pending # 0

CaughtUp == base = "Ready" /\ sup.pc = "wait" /\ src.open /\ src.next > Len(log)

Linked(o) == \E i \in DOMAIN log : log[i].op = "LINK" /\ log[i].obj = o

(* When the baseline is published as ready and no record is left to receive,  *)
(* the edges of the catalog are the names of the volume, whatever the two     *)
(* scans saw of a volume that changed under them and whatever was delivered   *)
(* twice; and each name leads to a row unless the file had other names (the   *)
(* replayed CREATE resets the link count, and a replayed UNLINK then removes  *)
(* the row of a file that has a name left).                                   *)
ReadyIsComplete ==
  CaughtUp => /\ list_scoped_namespace_edges = UNION {Mounted(p) : p \in Places}
              /\ \A p \in Places : LET o == db.edge[p]
                                  IN o # None => Linked(o) \/ db.entry[o] # None

S == INSTANCE ChangeStream WITH produced <- Len(log), reflected <- applied,
                                cursor <- Stored, cleared <- 0

(* The agent's cursor passes only records that the catalog has taken: JuiceFS  *)
(* ingest is an at-least-once stream like that of Lustre.                      *)
ImplementsStream == S!StreamSpec

Blocked == sup.pc = "apply" /\ ApplyErrs

(* Once nothing changes any more, ingest catches up with the volume and stays  *)
(* caught up, unless a record can no longer be applied: a change of an inode   *)
(* that is gone or moved on, or a name that has gone to another inode.         *)
CatchesUpOrBlocked == <>[]CaughtUp \/ []<>Blocked
=============================================================================
