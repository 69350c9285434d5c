---------------------------- MODULE JuiceProofs ----------------------------
(***************************************************************************)
(* JuiceFS ingest implements the abstract change stream for every volume,  *)
(* every number of records and faults, if the agent has a cursor when it   *)
(* is first watched (without one Watch starts at the tail of the log, and  *)
(* a reconnect before the first Ack starts at a later tail).               *)
(*                                                                         *)
(* The refinement needs to know where the stream stands: everything before *)
(* the next record is applied, except the one that is pending, and that    *)
(* one is applied when it is committed.                                    *)
(*                                                                         *)
(* Types (JuiceTypes).  Every row in the tables and in the hands of a scan *)
(* is that of a file, and a record is pending exactly between its delivery *)
(* and its commit.                                                         *)
(*                                                                         *)
(* Completeness (ReadyMeansComplete), under the same condition.  Each edge *)
(* of a scanned catalog is what the volume held at that place at some      *)
(* point of the log that is not before the records taken in order (Sound): *)
(* a scan sees the present, and a record that is applied, again or late,   *)
(* leaves what it left in the volume or what came there later.  At the end *)
(* of the log the only such point is the present.                          *)
(***************************************************************************)
EXTENDS JuiceFs, TLAPS

HasCursor == \A w \in Worlds : ~w.tail

Pcs == {"boot", "scan", "clear", "walk", "connect", "ingest", "wait", "verify",
        "apply", "unedge", "edge", "commit"}
Pending == {"apply", "unedge", "edge", "commit"}

Slots == Places \cup {NoPlace}
Ops == {"CREATE", "MOVE", "LINK", "UNLINK", "WRITE", "SET"}
Records == [op : Ops, obj : Objects \cup {None}, from : Slots, to : Slots]

VolumeTypes ==
  /\ world \in Worlds
  /\ link \in [Places -> Objects \cup {None}]
  /\ log \in Seq(Records)

StreamTypes ==
  /\ cursor \in Nat /\ cursor <= Len(log)
  /\ src \in [open : BOOLEAN, next : Nat, last : Nat, pending : Nat]
  /\ sup = [pc |-> sup.pc, todo |-> sup.todo, seen |-> sup.seen,
            catching |-> sup.catching, verified |-> sup.verified]
  /\ sup.pc \in Pcs
  /\ applied \subseteq 1..Len(log)

(* Where the stream stands. *)
Position ==
  /\ src.next <= Len(log) + 1
  /\ src.open => src.next > 0
  /\ sup.pc \in Pending <=> src.pending # 0
  /\ src.pending # 0 => src.next = src.pending + 1
  /\ \A i \in 1..(src.next - 1) : i \in applied \/ i = src.pending
  /\ sup.pc = "commit" => src.pending \in applied
  /\ \A i \in 1..cursor : i \in applied

(* The inductive invariant. *)
StreamInv == VolumeTypes /\ StreamTypes /\ Position

-----------------------------------------------------------------------------
(* The invariant at the start. *)
LEMMA StreamStarts ==
  ASSUME HasCursor, Init
  PROVE  StreamInv
  <1>1. cursor = 0 /\ log = <<>> /\ applied = {} /\ src = Closed /\ sup = Boot
    BY Zenon DEF Init, HasCursor
  <1>2. VolumeTypes
    BY DEF Init, VolumeTypes
  <1>3. StreamTypes
    BY <1>1 DEF StreamTypes, Closed, Boot, Pcs
  <1>4. Position
    BY <1>1 DEF Position, Closed, Boot, Pending
  <1>5. QED
    BY <1>2, <1>3, <1>4, Zenon DEF StreamInv

\* No object, no place and no row is None, and the names of the volume are its places.
LEMMA Constants ==
  /\ None \notin Objects /\ NoPlace \notin Places /\ None \notin FileRows
  /\ \A n \in Names : At1(n) \in Places
  /\ \A p \in Places : p[1] = Root /\ p[2] \in Names /\ p = At1(p[2])
  <1>1. Places = {Root} \X Names /\ None \notin Names
    BY CatalogAssumption, JuiceAssumption, Zenon DEF Places
  <1>2. None \notin Objects /\ None \notin FileRows
    BY CatalogAssumption, JuiceAssumption, Zenon
  <1>3. NoPlace \notin Places
    BY <1>1, Zenon DEF NoPlace
  <1>4. \A n \in Names : At1(n) \in Places
    BY <1>1, Zenon DEF At1
  <1>5. \A p \in Places : p[1] = Root /\ p[2] \in Names /\ p = At1(p[2])
    BY <1>1 DEF At1
  <1>. QED
    BY <1>2, <1>3, <1>4, <1>5, Zenon

\* The entries of the changelog as the volume writes them.
Shapes(r) ==
  /\ r.op \in {"CREATE", "LINK"} => r.obj \in Objects /\ r.from = NoPlace /\ r.to \in Places
  /\ r.op = "MOVE" => r.obj \in Objects /\ r.from \in Places /\ r.to \in Places /\ r.from # r.to
  /\ r.op = "UNLINK" => r.obj \in Objects /\ r.from \in Places /\ r.to = NoPlace
  /\ r.op = "WRITE" => r.obj \in Objects /\ r.from = NoPlace /\ r.to = NoPlace
  /\ r.op = "SET" => r.from = NoPlace /\ r.to = NoPlace

\* A record touches the names it gives or takes away, and leaves an object or nothing there.
Touches(r, p) == r.from = p \/ r.to = p
Leaves(r, p) == IF r.to = p THEN r.obj ELSE None

\* What an operation of the volume does: one record, and the names that it tells.
Logged(r) ==
  /\ r \in Records /\ Shapes(r)
  /\ log' = Append(log, r)
  /\ link' = [p \in Places |-> IF Touches(r, p) THEN Leaves(r, p) ELSE link[p]]
  /\ r.from \in Places => link[r.from] = r.obj
  /\ r.op = "CREATE" => ~Known(r.obj)
  /\ r.op = "LINK" => Links(r.obj) # {}
  /\ UNCHANGED <<world, db, base, cursor, delivered, src, sup, applied, faults>>

(* An operation of the volume appends one record. *)
LEMMA OperationLogs ==
  ASSUME VolumeTypes, Operation
  PROVE  \E r : Logged(r)
  <1>0. link \in [Places -> Objects \cup {None}]
    BY Zenon DEF VolumeTypes
  <1> DEFINE R(op, o, from, to) == [op |-> op, obj |-> o, from |-> from, to |-> to]
  <1>1. CASE \E o \in Objects, p \in Places : Create(o, p)
    <2>1. PICK o \in Objects, p \in Places : Create(o, p)
      BY <1>1, Zenon
    <2> DEFINE r == R("CREATE", o, NoPlace, p)
    <2>2. r \in Records /\ Shapes(r)
      BY Zenon DEF Records, Shapes, Ops, Slots
    <2>3. link' = [q \in Places |-> IF Touches(r, q) THEN Leaves(r, q) ELSE link[q]]
      BY <1>0, <2>1, Constants, Zenon DEF Create, Touches, Leaves
    <2>4. /\ log' = Append(log, r) /\ ~Known(o)
          /\ UNCHANGED <<world, db, base, cursor, delivered, src, sup, applied, faults>>
      BY <2>1, Zenon DEF Create, Logs
    <2>5. Logged(r)
      BY <2>2, <2>3, <2>4, Constants, Zenon DEF Logged
    <2>. QED
      BY <2>5, Zenon
  <1>2. CASE \E o \in Objects, p \in Places : Link(o, p)
    <2>1. PICK o \in Objects, p \in Places : Link(o, p)
      BY <1>2, Zenon
    <2> DEFINE r == R("LINK", o, NoPlace, p)
    <2>2. r \in Records /\ Shapes(r)
      BY Zenon DEF Records, Shapes, Ops, Slots
    <2>3. link' = [q \in Places |-> IF Touches(r, q) THEN Leaves(r, q) ELSE link[q]]
      BY <1>0, <2>1, Constants, Zenon DEF Link, Touches, Leaves
    <2>4. /\ log' = Append(log, r) /\ Links(o) # {}
          /\ UNCHANGED <<world, db, base, cursor, delivered, src, sup, applied, faults>>
      BY <2>1, Zenon DEF Link, Logs
    <2>5. Logged(r)
      BY <2>2, <2>3, <2>4, Constants, Zenon DEF Logged
    <2>. QED
      BY <2>5, Zenon
  <1>3. CASE \E p, q \in Places : Move(p, q)
    <2>1. PICK p \in Places, q \in Places : Move(p, q)
      BY <1>3, Zenon
    <2> DEFINE r == R("MOVE", link[p], p, q)
    <2>2. link[p] \in Objects /\ p # q
      BY <1>0, <2>1, Zenon DEF Move
    <2>3. r \in Records /\ Shapes(r)
      BY <2>2, Zenon DEF Records, Shapes, Ops, Slots
    <2>4. link' = [x \in Places |-> IF Touches(r, x) THEN Leaves(r, x) ELSE link[x]]
      BY <1>0, <2>1, <2>2, Zenon DEF Move, Touches, Leaves
    <2>5. /\ log' = Append(log, r)
          /\ UNCHANGED <<world, db, base, cursor, delivered, src, sup, applied, faults>>
      BY <2>1, Zenon DEF Move, Logs
    <2>6. Logged(r)
      BY <2>3, <2>4, <2>5, Zenon DEF Logged
    <2>. QED
      BY <2>6, Zenon
  <1>4. CASE \E p \in Places : Unlink(p)
    <2>1. PICK p \in Places : Unlink(p)
      BY <1>4, Zenon
    <2> DEFINE r == R("UNLINK", link[p], p, NoPlace)
    <2>2. link[p] \in Objects
      BY <1>0, <2>1, Zenon DEF Unlink
    <2>3. r \in Records /\ Shapes(r)
      BY <2>2, Zenon DEF Records, Shapes, Ops, Slots
    <2>4. link' = [x \in Places |-> IF Touches(r, x) THEN Leaves(r, x) ELSE link[x]]
      BY <1>0, <2>1, Constants, Zenon DEF Unlink, Touches, Leaves
    <2>5. /\ log' = Append(log, r)
          /\ UNCHANGED <<world, db, base, cursor, delivered, src, sup, applied, faults>>
      BY <2>1, Zenon DEF Unlink, Logs
    <2>6. Logged(r)
      BY <2>3, <2>4, <2>5, Zenon DEF Logged
    <2>. QED
      BY <2>6, Zenon
  <1>5. CASE (\E o \in Objects : Touch(o)) \/ Maintain
    <2>1. PICK op \in {"WRITE", "SET"}, o \in Objects \cup {None} :
            Logs(op, o, NoPlace, NoPlace) /\ (op = "WRITE" => o \in Objects)
      BY <1>5, Zenon DEF Touch, Maintain
    <2> DEFINE r == R(op, o, NoPlace, NoPlace)
    <2>2. r \in Records /\ Shapes(r)
      BY <2>1, Zenon DEF Records, Shapes, Ops, Slots
    <2>3. link' = [x \in Places |-> IF Touches(r, x) THEN Leaves(r, x) ELSE link[x]]
      BY <1>0, <1>5, Constants, Zenon DEF Touch, Maintain, Touches, Leaves
    <2>4. /\ log' = Append(log, r)
          /\ UNCHANGED <<world, db, base, cursor, delivered, src, sup, applied, faults>>
      BY <2>1, Zenon DEF Logs
    <2>5. Logged(r)
      BY <2>2, <2>3, <2>4, Constants, Zenon DEF Logged
    <2>. QED
      BY <2>5, Zenon
  <1>. QED
    BY <1>1, <1>2, <1>3, <1>4, <1>5, Zenon DEF Operation

(* The log grows by one record, and the types of the volume stay. *)
LEMMA OperationAppends ==
  ASSUME VolumeTypes, Operation
  PROVE  /\ VolumeTypes' /\ Len(log') = Len(log) + 1 /\ Len(log) \in Nat
         /\ UNCHANGED <<cursor, src, sup, applied>>
  <1>1. PICK r : Logged(r)
    BY OperationLogs, Zenon
  <1>2. log' \in Seq(Records) /\ Len(log') = Len(log) + 1 /\ Len(log) \in Nat
    BY <1>1 DEF Logged, VolumeTypes
  <1>3. \A p \in Places : Leaves(r, p) \in Objects \cup {None}
    BY <1>1, Zenon DEF Logged, Leaves, Records
  <1>4. link' \in [Places -> Objects \cup {None}]
    BY <1>1, <1>3, Zenon DEF Logged, VolumeTypes
  <1>. QED
    BY <1>1, <1>2, <1>4, Zenon DEF Logged, VolumeTypes

(* More records leave everything where it stands. *)
LEMMA OperationKeeps ==
  ASSUME StreamInv, Operation
  PROVE  StreamInv'
  <1>1. /\ VolumeTypes' /\ Len(log') = Len(log) + 1 /\ Len(log) \in Nat
        /\ UNCHANGED <<cursor, src, sup, applied>>
    BY OperationAppends, Zenon DEF StreamInv
  <1>2. StreamTypes'
    BY <1>1 DEF StreamInv, StreamTypes
  <1>3. Position'
    <2>1. src.next \in Nat
      BY Zenon DEF StreamInv, StreamTypes
    <2>2. QED
      BY <1>1, <2>1 DEF StreamInv, Position
  <1>4. QED
    BY <1>1, <1>2, <1>3, Zenon DEF StreamInv

(* The source is dropped: the stream stands nowhere. *)
LEMMA RestartKeeps ==
  ASSUME StreamInv, Restarts, UNCHANGED <<world, link, log, applied>>,
         cursor' \in Nat, cursor' <= Len(log), \A i \in 1..cursor' : i \in applied
  PROVE  StreamInv'
  <1>1. src' = Closed /\ sup' = Boot
    BY Zenon DEF Restarts, Steps
  <1>2. VolumeTypes'
    BY Zenon DEF StreamInv, VolumeTypes
  <1>3. Len(log) \in Nat
    BY DEF StreamInv, VolumeTypes
  <1>4. StreamTypes'
    BY <1>1, Zenon DEF StreamInv, StreamTypes, Closed, Boot, Pcs
  <1>5. Position'
    BY <1>1, <1>3 DEF Position, Closed, Boot, Pending
  <1>6. QED
    BY <1>2, <1>4, <1>5, Zenon DEF StreamInv

(* Steps of the supervisor that leave the stream and what was applied. *)
LEMMA IdleKeeps ==
  ASSUME StreamInv, UNCHANGED <<world, link, log, cursor, src, applied>>,
         sup' = [pc |-> sup'.pc, todo |-> sup'.todo, seen |-> sup'.seen,
                 catching |-> sup'.catching, verified |-> sup'.verified],
         sup'.pc \in Pcs, sup'.pc \in Pending <=> sup.pc \in Pending,
         sup'.pc = "commit" => sup.pc = "commit"
  PROVE  StreamInv'
  <1>1. VolumeTypes'
    BY Zenon DEF StreamInv, VolumeTypes
  <1>2. StreamTypes'
    BY Zenon DEF StreamInv, StreamTypes
  <1>3. Position'
    BY Zenon DEF StreamInv, Position
  <1>4. QED
    BY <1>1, <1>2, <1>3, Zenon DEF StreamInv

-----------------------------------------------------------------------------
(* What a step of the supervisor or a fault may do to what the stream      *)
(* specification sees: nothing, apply more, or move the cursor forward.    *)
Forward ==
  /\ UNCHANGED log
  /\ \/ applied \subseteq applied' /\ UNCHANGED cursor
     \/ UNCHANGED applied /\ cursor' >= cursor

(* Flat facts about the state. *)
LEMMA Facts ==
  ASSUME StreamInv
  PROVE  /\ Len(log) \in Nat /\ cursor \in Nat /\ cursor # None /\ cursor <= Len(log)
         /\ src \in [open : BOOLEAN, next : Nat, last : Nat, pending : Nat]
         /\ src.open \in BOOLEAN /\ src.next \in Nat /\ src.last \in Nat /\ src.pending \in Nat
         /\ src.pending # 0 => src.pending \in 1..Len(log)
         /\ sup = [pc |-> sup.pc, todo |-> sup.todo, seen |-> sup.seen,
                   catching |-> sup.catching, verified |-> sup.verified]
  <1>1. Len(log) \in Nat
    BY DEF StreamInv, VolumeTypes
  <1>2. cursor # None
    BY CatalogAssumption, Zenon DEF StreamInv, StreamTypes
  <1>3. src.next \in Nat /\ src.pending \in Nat /\ src.next <= Len(log) + 1
        /\ (src.pending # 0 => src.next = src.pending + 1)
    BY Zenon DEF StreamInv, StreamTypes, Position
  <1>4. src.pending # 0 => src.pending \in 1..Len(log)
    BY <1>1, <1>3
  <1>5. QED
    BY <1>1, <1>2, <1>4, Zenon DEF StreamInv, StreamTypes

(* Scans, comparisons, and statements in the middle of a change. *)
LEMMA IdleSteps ==
  ASSUME StreamInv,
         \/ ReadBaseline \/ BeginScan \/ ClearCatalog \/ Walk \/ IngestBegins
         \/ Quiescent \/ VerifyWalk
         \/ MoveUnlinks \/ (\E t \in {"edge", "unedge"} : sup.pc = "apply" /\ \E new : Stores(new, t))
  PROVE  StreamInv' /\ Forward
  <1>0. sup = [pc |-> sup.pc, todo |-> sup.todo, seen |-> sup.seen,
               catching |-> sup.catching, verified |-> sup.verified]
    BY Facts, Zenon
  <1>1. UNCHANGED <<world, link, log, cursor, src, applied>>
    BY Zenon DEF ReadBaseline, BeginScan, ClearCatalog, Walk, IngestBegins, Quiescent, VerifyWalk,
           MoveUnlinks, Stores, BySupervisor, volume
  <1>2. Forward
    BY <1>1, Zenon DEF Forward
  <1> DEFINE P == /\ sup' = [pc |-> sup'.pc, todo |-> sup'.todo, seen |-> sup'.seen,
                             catching |-> sup'.catching, verified |-> sup'.verified]
                  /\ sup'.pc \in Pcs /\ (sup'.pc \in Pending <=> sup.pc \in Pending)
                  /\ (sup'.pc = "commit" => sup.pc = "commit")
  <1>3. CASE ReadBaseline
    <2>1. P
      BY <1>0, <1>3, Zenon DEF ReadBaseline, To, Steps, Pcs, Pending
    <2>2. QED
      BY <1>1, <1>2, <2>1, IdleKeeps, Zenon
  <1>4. CASE BeginScan \/ ClearCatalog
    <2>1. P
      BY <1>0, <1>4, Zenon DEF BeginScan, ClearCatalog, To, Steps, Pcs, Pending
    <2>2. QED
      BY <1>1, <1>2, <2>1, IdleKeeps, Zenon
  <1>5. CASE Walk \/ VerifyWalk
    <2>1. P
      BY <1>0, <1>5, Zenon DEF Walk, VerifyWalk, Steps, Pcs, Pending
    <2>2. QED
      BY <1>1, <1>2, <2>1, IdleKeeps, Zenon
  <1>6. CASE IngestBegins
    <2>1. P
      BY <1>0, <1>6, Zenon DEF IngestBegins, Steps, Pcs, Pending
    <2>2. QED
      BY <1>1, <1>2, <2>1, IdleKeeps, Zenon
  <1>7. CASE Quiescent
    <2>1. P
      BY <1>0, <1>7, Zenon DEF Quiescent, Steps, Pcs, Pending
    <2>2. QED
      BY <1>1, <1>2, <2>1, IdleKeeps, Zenon
  <1>8. CASE MoveUnlinks
    <2>1. P
      BY <1>0, <1>8, Zenon DEF MoveUnlinks, Stores, To, Steps, Pcs, Pending
    <2>2. QED
      BY <1>1, <1>2, <2>1, IdleKeeps, Zenon
  <1>9. CASE \E t \in {"edge", "unedge"} : sup.pc = "apply" /\ \E new : Stores(new, t)
    <2>1. P
      BY <1>0, <1>9, Zenon DEF Stores, To, Steps, Pcs, Pending
    <2>2. QED
      BY <1>1, <1>2, <2>1, IdleKeeps, Zenon
  <1>10. QED
    BY <1>3, <1>4, <1>5, <1>6, <1>7, <1>8, <1>9, Zenon

(* Errors and crashes that drop the source and keep the cursor. *)
LEMMA RestartSteps ==
  ASSUME StreamInv, Restarts, UNCHANGED <<world, link, log, applied, cursor>>
  PROVE  StreamInv' /\ Forward
  <1>1. cursor \in Nat /\ cursor <= Len(log)
    BY Facts, Zenon
  <1>2. \A i \in 1..cursor : i \in applied
    BY Zenon DEF StreamInv, Position
  <1>3. QED
    BY <1>1, <1>2, RestartKeeps, Zenon DEF Forward

(* Comparing the second scan moves no position (ingest_loop, baseline verification). *)
LEMMA CompareKeeps ==
  ASSUME StreamInv, Compare
  PROVE  StreamInv' /\ Forward
  <1>0. UNCHANGED <<world, link, log, cursor, applied>> /\ sup.pc = "verify"
    BY Zenon DEF Compare, BySupervisor, volume
  <1>1. CASE Restarts
    BY <1>0, <1>1, RestartSteps, Zenon
  <1>2. CASE sup' = [sup EXCEPT !.pc = "wait", !.verified = TRUE] /\ UNCHANGED src
    <2>1. sup = [pc |-> sup.pc, todo |-> sup.todo, seen |-> sup.seen,
                 catching |-> sup.catching, verified |-> sup.verified]
      BY Facts, Zenon
    <2>2. /\ sup' = [pc |-> sup'.pc, todo |-> sup'.todo, seen |-> sup'.seen,
                     catching |-> sup'.catching, verified |-> sup'.verified]
          /\ sup'.pc = "wait"
      BY <1>2, <2>1, Zenon
    <2>3. QED
      BY <1>0, <1>2, <2>2, IdleKeeps, Zenon DEF Pcs, Pending, Forward
  <1>3. QED
    BY <1>1, <1>2, Zenon DEF Compare, Steps

(* The end of a scan: what Watch had passed is in the catalog now. *)
LEMMA EndWalkKeeps ==
  ASSUME StreamInv, EndWalk
  PROVE  StreamInv' /\ Forward
  <1>0. /\ Len(log) \in Nat /\ src.next \in Nat
        /\ sup = [pc |-> sup.pc, todo |-> sup.todo, seen |-> sup.seen,
                  catching |-> sup.catching, verified |-> sup.verified]
    BY Facts, Zenon
  <1>1. /\ sup.pc = "walk" /\ UNCHANGED <<world, link, log, cursor, src>>
        /\ sup' = [sup EXCEPT !.pc = IF src.next > 0 THEN "ingest" ELSE "connect"]
        /\ applied' = applied \cup 1..(src.next - 1)
    BY Zenon DEF EndWalk, BySupervisor, volume, Steps
  <1>2. /\ sup' = [pc |-> sup'.pc, todo |-> sup'.todo, seen |-> sup'.seen,
                   catching |-> sup'.catching, verified |-> sup'.verified]
        /\ sup'.pc \in {"ingest", "connect"}
    BY <1>0, <1>1, Zenon
  <1>3. src.next <= Len(log) + 1 /\ applied \subseteq 1..Len(log)
    BY Zenon DEF StreamInv, Position, StreamTypes
  <1>4. applied' \subseteq 1..Len(log)
    BY <1>0, <1>1, <1>3
  <1>5. VolumeTypes'
    BY <1>1, Zenon DEF StreamInv, VolumeTypes
  <1>6. StreamTypes'
    BY <1>1, <1>2, <1>4, Zenon DEF StreamInv, StreamTypes, Pcs
  <1>7. Position'
    BY <1>1, <1>2, Zenon DEF StreamInv, Position, Pending
  <1>8. QED
    BY <1>1, <1>5, <1>6, <1>7, Zenon DEF StreamInv, Forward

(* The stream is opened at the cursor. *)
LEMMA OpenKeeps ==
  ASSUME StreamInv, Connect \/ Reopen
  PROVE  StreamInv' /\ Forward
  <1>0. /\ Len(log) \in Nat /\ cursor \in Nat /\ cursor # None /\ cursor <= Len(log)
        /\ src \in [open : BOOLEAN, next : Nat, last : Nat, pending : Nat]
        /\ src.last \in Nat
        /\ sup = [pc |-> sup.pc, todo |-> sup.todo, seen |-> sup.seen,
                  catching |-> sup.catching, verified |-> sup.verified]
    BY Facts, Zenon
  <1>1. UNCHANGED <<world, link, log, cursor, applied>>
    BY Zenon DEF Connect, Reopen, BySupervisor, volume
  <1>2. sup.pc \notin Pending /\ src.pending = 0
    BY Zenon DEF Connect, Reopen, Pending, StreamInv, Position
  <1>3. /\ src' \in [open : BOOLEAN, next : Nat, last : Nat, pending : Nat]
        /\ src'.next = cursor + 1 /\ src'.pending = 0
    <2>1. WatchFrom = cursor + 1 /\ cursor + 1 \in Nat
      BY <1>0 DEF WatchFrom
    <2>2. CASE Connect
      BY <2>1, <2>2, Zenon DEF Connect, Closed
    <2>3. CASE Reopen
      BY <1>0, <1>2, <2>1, <2>3, Zenon DEF Reopen
    <2>4. QED
      BY <2>2, <2>3, Zenon
  <1>4. /\ sup' = [pc |-> sup'.pc, todo |-> sup'.todo, seen |-> sup'.seen,
                   catching |-> sup'.catching, verified |-> sup'.verified]
        /\ sup'.pc \in {"scan", "ingest", "wait"}
    BY <1>0, Zenon DEF Connect, AfterConnect, Reopen, To, Steps
  <1>5. VolumeTypes'
    BY <1>1, Zenon DEF StreamInv, VolumeTypes
  <1>6. StreamTypes'
    BY <1>1, <1>3, <1>4, Zenon DEF StreamInv, StreamTypes, Pcs
  <1>7. Position'
    <2>1. \A i \in 1..cursor : i \in applied
      BY Zenon DEF StreamInv, Position
    <2>2. src'.next - 1 = cursor /\ src'.next <= Len(log) + 1 /\ src'.next > 0
      BY <1>0, <1>3
    <2>3. QED
      BY <1>1, <1>3, <1>4, <2>1, <2>2, Zenon DEF Position, Pending
  <1>8. QED
    BY <1>1, <1>5, <1>6, <1>7, Zenon DEF StreamInv, Forward

(* Receiving a record makes it the pending one (JuiceFsChangeSource::next_batch). *)
LEMMA ReceiveKeeps ==
  ASSUME StreamInv, Receive
  PROVE  StreamInv' /\ Forward
  <1>0. /\ Len(log) \in Nat /\ src.next \in Nat /\ src.last \in Nat /\ src.open \in BOOLEAN
        /\ src \in [open : BOOLEAN, next : Nat, last : Nat, pending : Nat]
        /\ sup = [pc |-> sup.pc, todo |-> sup.todo, seen |-> sup.seen,
                  catching |-> sup.catching, verified |-> sup.verified]
    BY Facts, Zenon
  <1>1. /\ UNCHANGED <<world, link, log, cursor, applied>> /\ sup.pc = "wait" /\ src.next <= Len(log)
        /\ src' = [src EXCEPT !.next = src.next + 1, !.pending = src.next]
        /\ sup' = [sup EXCEPT !.pc = "apply", !.verified = FALSE]
    BY Zenon DEF Receive, volume, Steps
  <1>2. /\ src' \in [open : BOOLEAN, next : Nat, last : Nat, pending : Nat]
        /\ src'.next = src.next + 1 /\ src'.pending = src.next
    <2>1. src \in [open : BOOLEAN, next : Nat, last : Nat, pending : Nat]
      BY <1>0, Zenon
    <2>2. src.next \in Nat /\ src.next + 1 \in Nat
      BY <1>0
    <2>3. src' = [src EXCEPT !.next = src.next + 1, !.pending = src.next]
      BY <1>1, Zenon
    <2>4. QED
      BY <2>1, <2>2, <2>3, Zenon
  <1>3. /\ sup' = [pc |-> sup'.pc, todo |-> sup'.todo, seen |-> sup'.seen,
                   catching |-> sup'.catching, verified |-> sup'.verified]
        /\ sup'.pc = "apply"
    BY <1>0, <1>1, Zenon
  <1>4. src.pending = 0 /\ \A i \in 1..(src.next - 1) : i \in applied
    <2>1. src.pending = 0
      BY <1>1, Zenon DEF StreamInv, Position, Pending
    <2>2. \A i \in 1..(src.next - 1) : i # 0
      BY <1>0
    <2>3. QED
      BY <2>1, <2>2, Zenon DEF StreamInv, Position
  <1>5. src.next > 0
    BY Zenon DEF Receive, StreamInv, Position
  <1>6. VolumeTypes'
    BY <1>1, Zenon DEF StreamInv, VolumeTypes
  <1>7. StreamTypes'
    BY <1>0, <1>1, <1>2, <1>3, Zenon DEF StreamInv, StreamTypes, Pcs
  <1>8. Position'
    <2>1. \A i \in 1..(src.next + 1 - 1) : i \in applied \/ i = src.next
      BY <1>0, <1>4
    <2>2. src.next # 0 /\ src.next + 1 <= Len(log) + 1 /\ src.next + 1 > 0
      BY <1>0, <1>1, <1>5
    <2>3. \A i \in 1..cursor : i \in applied
      BY Zenon DEF StreamInv, Position
    <2>4. src'.next - 1 = src.next + 1 - 1 /\ src'.next = src'.pending + 1
      BY <1>0, <1>2
    <2>5. \A i \in 1..(src'.next - 1) : i \in applied' \/ i = src'.pending
      BY <1>1, <1>2, <2>1, <2>4, Zenon
    <2>6. QED
      BY <1>1, <1>2, <1>3, <2>2, <2>3, <2>4, <2>5, Zenon DEF Position, Pending
  <1>9. QED
    BY <1>1, <1>6, <1>7, <1>8, Zenon DEF StreamInv, Forward

(* The last statement of a change. *)
LEMMA AppliedKeeps ==
  ASSUME StreamInv, sup.pc \in {"apply", "edge"}, NEW new, Stores(new, "commit")
  PROVE  StreamInv' /\ Forward
  <1>0. /\ Len(log) \in Nat /\ src.pending # 0 => src.pending \in 1..Len(log)
        /\ sup = [pc |-> sup.pc, todo |-> sup.todo, seen |-> sup.seen,
                  catching |-> sup.catching, verified |-> sup.verified]
    BY Facts, Zenon
  <1>1. /\ UNCHANGED <<world, link, log, cursor, src>> /\ applied' = applied \cup {src.pending}
        /\ sup' = [sup EXCEPT !.pc = "commit"]
    BY Zenon DEF Stores, BySupervisor, volume, To, Steps
  <1>2. /\ sup' = [pc |-> sup'.pc, todo |-> sup'.todo, seen |-> sup'.seen,
                   catching |-> sup'.catching, verified |-> sup'.verified]
        /\ sup'.pc = "commit"
    BY <1>0, <1>1, Zenon
  <1>3. src.pending # 0
    BY Zenon DEF StreamInv, Position, Pending
  <1>4. VolumeTypes'
    BY <1>1, Zenon DEF StreamInv, VolumeTypes
  <1>5. StreamTypes'
    BY <1>0, <1>1, <1>2, <1>3 DEF StreamInv, StreamTypes, Pcs
  <1>6. Position'
    BY <1>1, <1>2, <1>3, Zenon DEF StreamInv, Position, Pending
  <1>7. QED
    BY <1>1, <1>4, <1>5, <1>6, Zenon DEF StreamInv, Forward

(* Applying the pending record takes it into the catalog (apply_juicefs_change). *)
LEMMA ApplyKeeps ==
  ASSUME StreamInv, Apply \/ AddEdge
  PROVE  StreamInv' /\ Forward
  <1>1. \/ sup.pc = "apply" /\ \E new : Stores(new, "edge")
        \/ sup.pc = "apply" /\ \E new : Stores(new, "unedge")
        \/ sup.pc \in {"apply", "edge"} /\ \E new : Stores(new, "commit")
    BY Zenon DEF Apply, AddEdge
  <1>2. QED
    BY <1>1, IdleSteps, AppliedKeeps, Zenon

(* The pending record is applied, and so is everything before it. *)
LEMMA CommitCovers ==
  ASSUME StreamInv, sup.pc = "commit", AckAccepted(src.pending)
  PROVE  /\ src.pending \in 1..Len(log) /\ src.pending >= cursor
         /\ \A i \in 1..src.pending : i \in applied
  <1>1. /\ Len(log) \in Nat /\ cursor # None /\ src.pending \in Nat
        /\ src.pending # 0 => src.pending \in 1..Len(log)
    BY Facts, Zenon
  <1>2. src.pending # 0 /\ src.next = src.pending + 1 /\ src.pending \in applied
        /\ \A i \in 1..(src.next - 1) : i \in applied \/ i = src.pending
    BY Zenon DEF StreamInv, Position, Pending
  <1>3. \A i \in 1..src.pending : i \in applied
    BY <1>1, <1>2
  <1>4. src.pending >= cursor
    BY <1>1, Zenon DEF AckAccepted, Stored
  <1>5. QED
    BY <1>1, <1>2, <1>3, <1>4, Zenon

(* An ack moves the agent's cursor to the pending record at most (Ack, FileStore). *)
LEMMA AckKeeps ==
  ASSUME StreamInv, Ack
  PROVE  StreamInv' /\ Forward
  <1>0. /\ Len(log) \in Nat /\ src \in [open : BOOLEAN, next : Nat, last : Nat, pending : Nat]
        /\ src.pending \in Nat
        /\ sup = [pc |-> sup.pc, todo |-> sup.todo, seen |-> sup.seen,
                  catching |-> sup.catching, verified |-> sup.verified]
    BY Facts, Zenon
  <1>1. UNCHANGED <<world, link, log, applied>> /\ sup.pc = "commit"
    BY Zenon DEF Ack, BySupervisor, volume
  <1>2. CASE ~AckAccepted(src.pending)
    BY <1>1, <1>2, RestartSteps, Zenon DEF Ack
  <1>3. CASE AckAccepted(src.pending)
    <2>1. /\ cursor' = src.pending /\ sup' = [sup EXCEPT !.pc = "wait"]
          /\ src' = [src EXCEPT !.last = src.pending, !.pending = 0]
      BY <1>3, Zenon DEF Ack, To, Steps
    <2>2. /\ sup' = [pc |-> sup'.pc, todo |-> sup'.todo, seen |-> sup'.seen,
                     catching |-> sup'.catching, verified |-> sup'.verified]
          /\ sup'.pc = "wait"
      BY <1>0, <2>1, Zenon
    <2>3. /\ src' \in [open : BOOLEAN, next : Nat, last : Nat, pending : Nat]
          /\ src'.next = src.next /\ src'.open = src.open /\ src'.pending = 0
      BY <1>0, <2>1, Zenon
    <2>4. /\ src.pending \in 1..Len(log) /\ src.pending >= cursor
          /\ \A i \in 1..src.pending : i \in applied
      BY <1>1, <1>3, CommitCovers, Zenon
    <2>5. src.next = src.pending + 1 /\ src.next <= Len(log) + 1 /\ (src.open => src.next > 0)
      BY <2>4 DEF StreamInv, Position
    <2>6. src.next - 1 = src.pending
      BY <1>0, <2>5
    <2>7. VolumeTypes'
      BY <1>1, Zenon DEF StreamInv, VolumeTypes
    <2>8. StreamTypes'
      BY <1>0, <1>1, <2>1, <2>2, <2>3, <2>4 DEF StreamInv, StreamTypes, Pcs
    <2>9. Position'
      BY <1>1, <2>1, <2>2, <2>3, <2>4, <2>5, <2>6, Zenon DEF Position, Pending
    <2>10. QED
      BY <1>1, <2>1, <2>4, <2>7, <2>8, <2>9, Zenon DEF StreamInv, Forward
  <1>4. QED
    BY <1>2, <1>3, Zenon

(* Crashes, restarts and lost answers move the stream back, never forward. *)
LEMMA FaultKeeps ==
  ASSUME StreamInv, Fault
  PROVE  StreamInv' /\ Forward
  <1>1. CASE DaemonCrash \/ ScanFails \/ ReopenRefused
    <2>1. Restarts /\ UNCHANGED <<world, link, log, applied, cursor>>
      BY <1>1, Zenon DEF DaemonCrash, ScanFails, ReopenRefused, Fails, volume
    <2>2. QED
      BY <2>1, RestartSteps, Zenon
  <1>2. CASE AgentRestart
    <2>0. src \in [open : BOOLEAN, next : Nat, last : Nat, pending : Nat]
      BY Facts, Zenon
    <2>1. /\ src' = [src EXCEPT !.open = FALSE]
          /\ UNCHANGED <<world, link, log, applied, cursor, sup>>
      BY <1>2, Zenon DEF AgentRestart, Fails, volume
    <2>2. /\ src' \in [open : BOOLEAN, next : Nat, last : Nat, pending : Nat]
          /\ src'.next = src.next /\ src'.pending = src.pending /\ src'.open = FALSE
      BY <2>0, <2>1, Zenon
    <2>3. VolumeTypes'
      BY <2>1, Zenon DEF StreamInv, VolumeTypes
    <2>4. StreamTypes'
      BY <2>1, <2>2, Zenon DEF StreamInv, StreamTypes
    <2>5. Position'
      BY <2>1, <2>2, Zenon DEF StreamInv, Position
    <2>6. QED
      BY <2>1, <2>3, <2>4, <2>5, Zenon DEF StreamInv, Forward
  <1>3. CASE AckLost
    <2>1. /\ sup.pc = "commit" /\ AckAccepted(src.pending) /\ cursor' = src.pending /\ Restarts
          /\ UNCHANGED <<world, link, log, applied>>
      BY <1>3, Zenon DEF AckLost, Fails, volume
    <2>2. /\ src.pending \in 1..Len(log) /\ src.pending >= cursor
          /\ \A i \in 1..src.pending : i \in applied
      BY <2>1, CommitCovers, Zenon
    <2>3. Len(log) \in Nat
      BY Facts, Zenon
    <2>4. cursor' \in Nat /\ cursor' <= Len(log) /\ \A i \in 1..cursor' : i \in applied
      BY <2>1, <2>2, <2>3
    <2>5. QED
      BY <2>1, <2>2, <2>4, RestartKeeps, Zenon DEF Forward
  <1>4. QED
    BY <1>1, <1>2, <1>3, Zenon DEF Fault

(* Every step of the supervisor and of its ingest loop keeps the invariant. *)
LEMMA SupervisorKeeps ==
  ASSUME StreamInv, Supervisor \/ Quiescent
  PROVE  StreamInv' /\ Forward
  <1>1. CASE ApplyFails
    <2>1. Restarts /\ UNCHANGED <<world, link, log, applied, cursor>>
      BY <1>1, Zenon DEF ApplyFails, BySupervisor, volume
    <2>2. QED
      BY <2>1, RestartSteps, Zenon
  <1>2. QED
    BY <1>1, IdleSteps, CompareKeeps, EndWalkKeeps, OpenKeeps, ReceiveKeeps, ApplyKeeps, AckKeeps, Zenon
       DEF Supervisor

-----------------------------------------------------------------------------
(* A step of JuiceFS ingest is a step of the stream, or changes nothing    *)
(* that the stream specification sees.                                     *)
LEMMA StepMaps ==
  ASSUME StreamInv, StreamInv', Operation \/ Forward
  PROVE  [S!StreamNext]_(S!streamVars)
  <1>0. /\ Len(log) \in Nat /\ cursor \in Nat /\ cursor # None
        /\ applied \subseteq 1..Len(log)
    BY Facts, Zenon DEF StreamInv, StreamTypes
  <1>1. /\ Len(log') \in Nat /\ cursor' \in Nat /\ cursor' # None /\ cursor' <= Len(log')
        /\ applied' \subseteq 1..Len(log') /\ \A i \in 1..cursor' : i \in applied'
    BY CatalogAssumption DEF StreamInv, StreamTypes, VolumeTypes, Position
  <1>2. Stored = cursor /\ Stored' = cursor'
    BY <1>0, <1>1, Zenon DEF Stored
  <1>3. CASE Operation
    <2>1. Len(log') = Len(log) + 1 /\ UNCHANGED <<cursor, applied>>
      BY <1>3, OperationAppends, Zenon DEF StreamInv
    <2>2. S!Produce
      BY <1>1, <1>2, <2>1, Zenon DEF S!Produce
    <2>3. QED
      BY <2>2, Zenon DEF S!StreamNext
  <1>4. CASE UNCHANGED <<log, cursor>> /\ applied \subseteq applied'
    <2>1. S!Reflect
      BY <1>1, <1>2, <1>4, Zenon DEF S!Reflect
    <2>2. QED
      BY <2>1, Zenon DEF S!StreamNext
  <1>5. CASE UNCHANGED <<log, applied>> /\ cursor' >= cursor
    <2>1. cursor' \in cursor..Len(log)
      BY <1>0, <1>1, <1>5
    <2>2. 1..cursor' \subseteq applied
      BY <1>1, <1>5, Zenon
    <2>3. S!Checkpoint
      BY <1>2, <1>5, <2>1, <2>2, Zenon DEF S!Checkpoint
    <2>4. QED
      BY <2>3, Zenon DEF S!StreamNext
  <1>6. QED
    BY <1>3, <1>4, <1>5, Zenon DEF Forward

(* JuiceFS ingest implements the abstract at-least-once stream, which      *)
(* Lustre ingest implements too: whatever crashes, lost answers, restarts  *)
(* of the agent, rescans and records that cannot be applied do, the cursor *)
(* file of the agent passes only records that the catalog has taken        *)
(* (JuiceFsChangeSource::commit, the agent's Ack, ingest_loop).            *)
THEOREM JuiceFsImplementsStream == HasCursor => (Spec => ImplementsStream)
  <1> SUFFICES ASSUME HasCursor
               PROVE  Spec => S!StreamSpec
    BY Zenon DEF ImplementsStream
  <1>1. Init => StreamInv
    BY StreamStarts, Zenon
  <1>2. Init => S!StreamInit
    <2> SUFFICES ASSUME Init PROVE S!StreamInit
      BY Zenon
    <2>1. cursor = 0 /\ log = <<>> /\ applied = {}
      BY Zenon DEF Init, HasCursor
    <2>2. QED
      BY <2>1, Zenon DEF S!StreamInit, Stored
  <1>3. StreamInv /\ [Next]_vars => StreamInv' /\ [S!StreamNext]_(S!streamVars)
    <2> SUFFICES ASSUME StreamInv, [Next]_vars
                 PROVE  StreamInv' /\ [S!StreamNext]_(S!streamVars)
      BY Zenon
    <2>1. CASE Operation
      BY <2>1, OperationKeeps, StepMaps, Zenon
    <2>2. CASE Supervisor \/ Quiescent
      BY <2>2, SupervisorKeeps, StepMaps, Zenon
    <2>3. CASE Fault
      BY <2>3, FaultKeeps, StepMaps, Zenon
    <2>4. CASE UNCHANGED vars
      <3>1. UNCHANGED <<world, link, log, cursor, src, sup, applied>>
        BY <2>4, Zenon DEF vars
      <3>2. StreamInv'
        BY <3>1, Zenon DEF StreamInv, VolumeTypes, StreamTypes, Position
      <3>3. Forward
        BY <3>1, Zenon DEF Forward
      <3>4. QED
        BY <3>2, <3>3, StepMaps, Zenon
    <2>5. QED
      BY <2>1, <2>2, <2>3, <2>4, Zenon DEF Next
  <1>4. QED
    BY <1>1, <1>2, <1>3, PTL DEF Spec, S!StreamSpec

-----------------------------------------------------------------------------
(* Types, for every world.                                                 *)

Tables == [entry : [Objects -> FileRows \cup {None}], edge : [Places -> Objects \cup {None}],
           stripe : [Objects -> {{}}], removed : [Objects -> FileRows \cup {None}]]

Data ==
  /\ VolumeTypes
  /\ \A i \in DOMAIN log : Shapes(log[i])
  /\ db \in Tables
Streams ==
  /\ base \in BaselineStates \cup {None}
  /\ cursor \in Nat \cup {None} /\ Stored <= Len(log)
  /\ delivered \in Nat /\ delivered <= Len(log)
  /\ src \in [open : BOOLEAN, next : Nat, last : Nat, pending : Nat]
  /\ src.next <= Len(log) + 1 /\ src.last <= Stored
  /\ src.open => src.next > src.last
  /\ src.pending # 0 => src.next = src.pending + 1
Whole == sup = [pc |-> sup.pc, todo |-> sup.todo, seen |-> sup.seen,
                catching |-> sup.catching, verified |-> sup.verified]
Steady ==
  /\ Whole /\ sup.pc \in Pcs /\ sup.todo \in Seq(Names)
  /\ sup.pc \in Pending <=> src.pending # 0
  /\ sup.pc = "unedge" => Rec.op = "MOVE"
  /\ sup.pc \in {"unedge", "edge"} => Rec.op \in {"CREATE", "MOVE"}

(* The inductive invariant behind TypeOK. *)
JuiceInv == Data /\ Streams /\ Steady

\* A link count has the width of its column (nlink() as u32).  LinkCountFits proves
\* it from the theory of finite sets, whose theorems are stated only there.
LinksFit == \A P \in SUBSET Places : LinkCount(P) \in 0..MaxLinks

\* The row of a statement replaces the row of its object.
LEMMA EntryUpserted ==
  ASSUME NEW d \in Tables, NEW o \in Objects, NEW row \in FileRows
  PROVE  /\ upsert_scoped_entry(d, o, row) \in Tables
         /\ upsert_scoped_entry(d, o, row).edge = d.edge
         /\ upsert_scoped_entry(d, o, row).entry[o] = row
         /\ \A x \in Objects : x # o => upsert_scoped_entry(d, o, row).entry[x] = d.entry[x]
  BY Zenon DEF upsert_scoped_entry, upsert_scoped_entry_tx, Tables

\* An edge is written at its place.
LEMMA EdgeUpserted ==
  ASSUME NEW d \in Tables, NEW p \in Places, NEW o \in Objects
  PROVE  /\ upsert_scoped_namespace_edge(d, p, o) \in Tables
         /\ upsert_scoped_namespace_edge(d, p, o).entry = d.entry
         /\ upsert_scoped_namespace_edge(d, p, o).edge[p] = o
         /\ \A q \in Places : q # p => upsert_scoped_namespace_edge(d, p, o).edge[q] = d.edge[q]
  BY Zenon DEF upsert_scoped_namespace_edge, Tables

\* An edge is removed at its place.
LEMMA EdgeRemoved ==
  ASSUME NEW d \in Tables, NEW p \in Places
  PROVE  /\ remove_scoped_namespace_edge(d, p) \in Tables
         /\ remove_scoped_namespace_edge(d, p).entry = d.entry
         /\ remove_scoped_namespace_edge(d, p).edge[p] = None
         /\ \A q \in Places : q # p => remove_scoped_namespace_edge(d, p).edge[q] = d.edge[q]
  BY Zenon DEF remove_scoped_namespace_edge, Tables

\* The number of links of a row that is there.
Counted(d, o, n) == [d EXCEPT !.entry[o].nlink = n]

\* Setting the link count of a row changes nothing else (WRITE, changelog.rs).
LEMMA CountedFacts ==
  ASSUME NEW d \in Tables, NEW o \in Objects, d.entry[o] # None, NEW n \in 0..MaxLinks
  PROVE  /\ Counted(d, o, n) \in Tables /\ Counted(d, o, n).edge = d.edge
         /\ Counted(d, o, n).entry[o] \in FileRows
         /\ \A x \in Objects : x # o => Counted(d, o, n).entry[x] = d.entry[x]
  <1>1. d.entry[o] \in FileRows
    BY Zenon DEF Tables
  <1>2. [d.entry[o] EXCEPT !.nlink = n] \in FileRows
    BY <1>1, Zenon DEF FileRows
  <1>3. Counted(d, o, n) = upsert_scoped_entry(d, o, [d.entry[o] EXCEPT !.nlink = n])
    BY Zenon DEF Counted, upsert_scoped_entry, upsert_scoped_entry_tx, Tables
  <1>. QED
    BY <1>2, <1>3, EntryUpserted

\* apply_scoped_hardlink: the edge, and one more link.
LEMMA HardlinkFacts ==
  ASSUME NEW d \in Tables, NEW p \in Places, NEW o \in Objects, ~HardlinkFails(d, p, o)
  PROVE  /\ apply_scoped_hardlink(d, p, o) \in Tables
         /\ apply_scoped_hardlink(d, p, o).edge[p] = o
         /\ \A q \in Places : q # p => apply_scoped_hardlink(d, p, o).edge[q] = d.edge[q]
         /\ \A x \in Objects : d.entry[x] # None => apply_scoped_hardlink(d, p, o).entry[x] # None
  <1>1. CASE d.edge[p] = o
    BY <1>1, Zenon DEF apply_scoped_hardlink
  <1>2. CASE d.edge[p] # o
    <2>1. d.entry[o] # None
      BY <1>2, Zenon DEF HardlinkFails
    <2>2. d.entry[o] \in FileRows /\ d.entry[o].nlink \in 0..MaxLinks
      BY <2>1, Zenon DEF Tables, FileRows
    <2>3. MoreLinks(d.entry[o].nlink) \in 0..MaxLinks
      BY <2>2, CatalogAssumption DEF MoreLinks
    <2> DEFINE c == Counted(d, o, MoreLinks(d.entry[o].nlink))
    <2>4. /\ c \in Tables /\ c.edge = d.edge /\ c.entry[o] \in FileRows
          /\ \A x \in Objects : x # o => c.entry[x] = d.entry[x]
      BY <2>1, <2>3, CountedFacts, Zenon
    <2>5. apply_scoped_hardlink(d, p, o) = upsert_scoped_namespace_edge(c, p, o)
      BY <1>2, <2>2, Zenon DEF apply_scoped_hardlink, upsert_scoped_namespace_edge, Counted, Tables
    <2> HIDE DEF c
    <2>. QED
      BY <2>4, <2>5, EdgeUpserted, Constants
  <1>. QED
    BY <1>1, <1>2, Zenon

\* What an unlink leaves: nothing changes if the name leads elsewhere; else the edge goes,
\* and the row of a last link with it.
Unlinked(u, d, p, o) ==
  /\ u \in Tables
  /\ d.edge[p] # o => u = d
  /\ d.edge[p] = o => u.edge[p] = None
  /\ \A q \in Places : q # p => u.edge[q] = d.edge[q]
  /\ \A x \in Objects : x # o /\ d.entry[x] # None => u.entry[x] # None

\* apply_scoped_unlink does that.
LEMMA UnlinkFacts ==
  ASSUME NEW d \in Tables, NEW p \in Places, NEW o \in Objects
  PROVE  Unlinked(apply_scoped_unlink(d, p, o, FALSE), d, p, o)
  <1> USE DEF Unlinked
  <1>1. CASE d.edge[p] # o
    BY <1>1, Zenon DEF apply_scoped_unlink
  <1>2. CASE d.edge[p] = o
    <2> DEFINE cut == remove_scoped_namespace_edge(d, p)
    <2>1. /\ cut \in Tables /\ cut.entry = d.entry /\ cut.edge[p] = None
          /\ \A q \in Places : q # p => cut.edge[q] = d.edge[q]
      BY EdgeRemoved, Zenon
    <2>2. CASE d.entry[o] = None
      <3>1. apply_scoped_unlink(d, p, o, FALSE) = cut
        BY <1>2, <2>2, Zenon DEF apply_scoped_unlink
      <3> HIDE DEF cut
      <3>. QED
        BY <1>2, <2>1, <3>1, Zenon
    <2>3. CASE d.entry[o] # None /\ d.entry[o].nlink > 1
      <3>1. d.entry[o].nlink \in 0..MaxLinks
        BY <2>3, Zenon DEF Tables, FileRows
      <3>2. d.entry[o].nlink - 1 \in 0..MaxLinks
        BY <2>3, <3>1, CatalogAssumption
      <3>3. apply_scoped_unlink(d, p, o, FALSE) = [cut EXCEPT !.entry[o].nlink = @ - 1]
        BY <1>2, <2>3, Zenon DEF apply_scoped_unlink
      <3> HIDE DEF cut
      <3>4. [cut EXCEPT !.entry[o].nlink = @ - 1] = Counted(cut, o, d.entry[o].nlink - 1)
        BY <2>1, Zenon DEF Counted, Tables
      <3> DEFINE c == Counted(cut, o, d.entry[o].nlink - 1)
      <3>5. /\ c \in Tables /\ c.edge = cut.edge /\ c.entry[o] \in FileRows
            /\ \A x \in Objects : x # o => c.entry[x] = cut.entry[x]
        BY <2>1, <2>3, <3>2, CountedFacts
      <3> HIDE DEF c
      <3>6. apply_scoped_unlink(d, p, o, FALSE) = c
        BY <3>3, <3>4, Zenon DEF c
      <3>. QED
        BY <1>2, <2>1, <3>5, <3>6, Zenon
    <2>4. CASE d.entry[o] # None /\ ~(d.entry[o].nlink > 1)
      <3>1. apply_scoped_unlink(d, p, o, FALSE) = Bury(cut, o)
        BY <1>2, <2>4, Zenon DEF apply_scoped_unlink
      <3> HIDE DEF cut
      <3>2. /\ Bury(cut, o) \in Tables /\ Bury(cut, o).edge = cut.edge
            /\ \A x \in Objects : x # o => Bury(cut, o).entry[x] = cut.entry[x]
        BY <2>1, Zenon DEF Bury, Tables
      <3>. QED
        BY <1>2, <2>1, <3>1, <3>2, ZenonT(30)
    <2>. QED
      BY <2>2, <2>3, <2>4, ZenonT(30)
  <1>. QED
    BY <1>1, <1>2, ZenonT(30)

\* clear_scoped_catalog leaves no row and no edge.
LEMMA ClearFacts ==
  ASSUME NEW d \in Tables
  PROVE  /\ clear_scoped_catalog(d) \in Tables
         /\ \A p \in Places : clear_scoped_catalog(d).edge[p] = None
  BY Zenon DEF clear_scoped_catalog, Empty, Tables

\* Flat facts about the state.
LEMMA InvFacts ==
  ASSUME JuiceInv
  PROVE  /\ Len(log) \in Nat /\ Stored \in Nat /\ Stored <= Len(log)
         /\ src \in [open : BOOLEAN, next : Nat, last : Nat, pending : Nat]
         /\ src.open \in BOOLEAN /\ src.next \in Nat /\ src.last \in Nat /\ src.pending \in Nat
         /\ src.pending # 0 => src.pending \in 1..Len(log)
         /\ db \in Tables
         /\ Whole
  <1>1. Len(log) \in Nat
    BY DEF JuiceInv, Data, VolumeTypes
  <1>2. Stored \in Nat /\ Stored <= Len(log)
    BY Zenon DEF JuiceInv, Streams, Stored
  <1>3. /\ src \in [open : BOOLEAN, next : Nat, last : Nat, pending : Nat]
        /\ src.next <= Len(log) + 1 /\ (src.pending # 0 => src.next = src.pending + 1)
    BY Zenon DEF JuiceInv, Streams
  <1>4. src.open \in BOOLEAN /\ src.next \in Nat /\ src.last \in Nat /\ src.pending \in Nat
    BY <1>3, Zenon
  <1>5. src.pending # 0 => src.pending \in 1..Len(log)
    BY <1>1, <1>3, <1>4
  <1>. QED
    BY <1>1, <1>2, <1>3, <1>4, <1>5, Zenon DEF JuiceInv, Data, Steady

\* The types at the start.
LEMMA TypesStart ==
  ASSUME Init
  PROVE  JuiceInv
  <1>1. log = <<>> /\ db = Empty /\ base = None /\ delivered = 0 /\ src = Closed /\ sup = Boot
        /\ cursor \in {0, None} /\ world \in Worlds /\ link = [p \in Places |-> None]
    BY Zenon DEF Init
  <1>2. Data
    BY <1>1 DEF Data, VolumeTypes, Empty, Tables
  <1>3. Streams
    BY <1>1 DEF Streams, Closed, Stored
  <1>4. Steady
    BY <1>1 DEF Steady, Whole, Closed, Boot, Pcs, Pending
  <1>. QED
    BY <1>2, <1>3, <1>4, Zenon DEF JuiceInv

\* More records leave the types as they are.
LEMMA OperationTypes ==
  ASSUME JuiceInv, Operation
  PROVE  JuiceInv'
  <1>0. PICK r : Logged(r)
    BY OperationLogs, Zenon DEF JuiceInv, Data
  <1>1. /\ VolumeTypes' /\ Len(log') = Len(log) + 1 /\ Len(log) \in Nat /\ log \in Seq(Records)
        /\ log' = Append(log, r) /\ Shapes(r)
        /\ UNCHANGED <<db, base, cursor, delivered, src, sup>>
    BY <1>0, OperationAppends, Zenon DEF JuiceInv, Data, VolumeTypes, Logged
  <1>2. \A i \in 1..Len(log) : log'[i] = log[i]
    BY <1>1
  <1>3. \A i \in DOMAIN log' : Shapes(log'[i])
    <2>1. \A i \in 1..Len(log) : Shapes(log'[i])
      BY <1>1, <1>2 DEF JuiceInv, Data
    <2>2. log'[Len(log) + 1] = r /\ DOMAIN log' = 1..(Len(log) + 1)
      BY <1>1
    <2>. QED
      BY <1>1, <2>1, <2>2
  <1>4. Data'
    BY <1>1, <1>3, Zenon DEF JuiceInv, Data
  <1>5. Streams'
    BY <1>1, InvFacts DEF JuiceInv, Streams, Stored
  <1>6. src.pending # 0 => Rec' = Rec
    BY <1>1, <1>2, InvFacts, Zenon DEF Rec
  <1>7. Steady'
    BY <1>1, <1>6, Zenon DEF JuiceInv, Steady, Whole, Pending
  <1>. QED
    BY <1>4, <1>5, <1>7, Zenon DEF JuiceInv

\* The tables change, the volume does not.
LEMMA DataStays ==
  ASSUME Data, UNCHANGED <<world, link, log>>, db' \in Tables
  PROVE  Data'
  BY Zenon DEF Data, VolumeTypes

\* Steps of the supervisor outside of a change that leave the stream where it is.
LEMMA IdleTypes ==
  ASSUME JuiceInv, UNCHANGED <<world, link, log, cursor, delivered, src>>,
         db' \in Tables, base' \in BaselineStates \cup {None}, Whole',
         sup.pc \notin Pending, sup'.pc \in Pcs \ Pending, sup'.todo \in Seq(Names)
  PROVE  JuiceInv'
  <1>1. Data'
    BY DataStays, Zenon DEF JuiceInv
  <1>2. Streams'
    BY Zenon DEF JuiceInv, Streams, Stored
  <1>3. Steady'
    BY Zenon DEF JuiceInv, Steady, Pending
  <1>. QED
    BY <1>1, <1>2, <1>3, Zenon DEF JuiceInv

\* The source is dropped, and the supervisor starts again.
LEMMA RestartTypes ==
  ASSUME JuiceInv, Restarts, UNCHANGED <<world, link, log, db, delivered>>,
         base' \in BaselineStates \cup {None},
         cursor' \in Nat \cup {None}, Stored' \in Nat, Stored' <= Len(log)
  PROVE  JuiceInv'
  <1>1. src' = Closed /\ sup' = Boot
    BY Zenon DEF Restarts, Steps
  <1>2. Data'
    BY DataStays, Zenon DEF JuiceInv, Data
  <1>3. Streams'
    BY <1>1, InvFacts DEF JuiceInv, Streams, Closed
  <1>4. Steady'
    BY <1>1 DEF Steady, Whole, Closed, Boot, Pcs, Pending
  <1>. QED
    BY <1>2, <1>3, <1>4, Zenon DEF JuiceInv

\* The row that a scan or a CREATE writes.
LEMMA ScanRowFacts ==
  ASSUME LinksFit, VolumeTypes, NEW o \in Objects, NEW p \in Places
  PROVE  ScanRow(o, p) \in FileRows /\ CreatedRow(o, p) \in FileRows
  <1>1. LinkCount(Links(o)) \in 0..MaxLinks
    BY Zenon DEF Links, LinksFit
  <1>2. ScanRow(o, p) \in FileRows
    BY <1>1, Constants, Zenon DEF ScanRow, FileRows
  <1>3. 1 \in 0..MaxLinks
    BY CatalogAssumption
  <1> DEFINE n == IF link[p] = None THEN 1 ELSE ScanRow(o, p).nlink
  <1>4. n \in 0..MaxLinks
    BY <1>2, <1>3, Zenon DEF FileRows
  <1>5. CreatedRow(o, p) = [ScanRow(o, p) EXCEPT !.nlink = n]
    BY <1>2, Zenon DEF CreatedRow, FileRows
  <1> HIDE DEF n
  <1>. QED
    BY <1>2, <1>4, <1>5, Zenon DEF FileRows

\* A visit writes the row and the edge of the file at the name, if there is one.
LEMMA ScannedFacts ==
  ASSUME LinksFit, VolumeTypes, NEW d \in Tables, NEW p \in Places
  PROVE  /\ Scanned(d, p) \in Tables
         /\ link[p] = None => Scanned(d, p) = d
         /\ link[p] # None => Scanned(d, p).edge[p] = link[p]
         /\ \A q \in Places : q # p => Scanned(d, p).edge[q] = d.edge[q]
         /\ link[p] # None => Scanned(d, p).entry[link[p]] # None
         /\ \A x \in Objects : d.entry[x] # None => Scanned(d, p).entry[x] # None
  <1>1. CASE link[p] = None
    BY <1>1, Zenon DEF Scanned
  <1>2. CASE link[p] # None
    <2>1. link[p] \in Objects
      BY <1>2, Zenon DEF VolumeTypes
    <2>2. ScanRow(link[p], p) \in FileRows
      BY <2>1, ScanRowFacts, Zenon
    <2>3. PICK o \in Objects, row \in FileRows : o = link[p] /\ row = ScanRow(link[p], p)
      BY <2>1, <2>2, Zenon
    <2> DEFINE e == upsert_scoped_entry(d, o, row)
    <2>4. /\ e \in Tables /\ e.edge = d.edge /\ e.entry[o] = row
          /\ \A x \in Objects : x # o => e.entry[x] = d.entry[x]
      BY EntryUpserted
    <2> DEFINE u == upsert_scoped_namespace_edge(e, p, o)
    <2>5. Scanned(d, p) = u
      BY <1>2, <2>3, Zenon DEF Scanned
    <2> HIDE DEF e
    <2>6. /\ u \in Tables /\ u.entry = e.entry /\ u.edge[p] = o
          /\ \A q \in Places : q # p => u.edge[q] = e.edge[q]
      BY <2>4, EdgeUpserted
    <2> HIDE DEF u
    <2>7. row # None /\ \A x \in Objects : d.entry[x] # None => u.entry[x] # None
      BY <2>4, <2>6, Constants
    <2>. QED
      BY <1>2, <2>3, <2>4, <2>5, <2>6, <2>7, Zenon
  <1>. QED
    BY <1>1, <1>2, Zenon

\* The scans, the comparison and the start of ingest.
LEMMA IdleStepTypes ==
  ASSUME LinksFit, JuiceInv,
         \/ ReadBaseline \/ BeginScan \/ ClearCatalog \/ Walk \/ EndWalk \/ IngestBegins
         \/ Quiescent \/ VerifyWalk
  PROVE  JuiceInv'
  <1>0. /\ Whole /\ db \in Tables /\ sup.todo \in Seq(Names) /\ Visits \in Seq(Names)
        /\ base \in BaselineStates \cup {None} /\ VolumeTypes
    BY InvFacts, JuiceAssumption, Zenon DEF JuiceInv, Steady, Streams, Data
  <1>1. UNCHANGED <<world, link, log, cursor, delivered, src>> /\ sup.pc \notin Pending
    BY Zenon DEF ReadBaseline, BeginScan, ClearCatalog, Walk, EndWalk, IngestBegins, Quiescent, VerifyWalk,
           BySupervisor, volume, Pending
  <1>2. CASE ReadBaseline
    <2>1. db' = db /\ base' = base /\ Whole' /\ sup'.pc \in Pcs \ Pending /\ sup'.todo = sup.todo
      BY <1>0, <1>2, Zenon DEF ReadBaseline, To, Steps, Whole, Pcs, Pending
    <2>. QED
      BY <1>0, <1>1, <2>1, IdleTypes, Zenon
  <1>3. CASE BeginScan
    <2>1. db' = db /\ base' = "Scanning" /\ Whole' /\ sup'.pc \in Pcs \ Pending /\ sup'.todo = sup.todo
      BY <1>0, <1>3, Zenon DEF BeginScan, To, Steps, Whole, Pcs, Pending
    <2>. QED
      BY <1>0, <1>1, <2>1, IdleTypes, Zenon DEF BaselineStates
  <1>4. CASE ClearCatalog
    <2>1. /\ db' = clear_scoped_catalog(db) /\ base' = base /\ Whole'
          /\ sup'.pc \in Pcs \ Pending /\ sup'.todo = Visits
      BY <1>0, <1>4, Zenon DEF ClearCatalog, Steps, Whole, Pcs, Pending
    <2>2. db' \in Tables
      BY <1>0, <2>1, ClearFacts, Zenon
    <2>. QED
      BY <1>0, <1>1, <2>1, <2>2, IdleTypes, Zenon
  <1>5. CASE Walk
    <2>1. /\ db' = Scanned(db, At1(Head(sup.todo))) /\ base' = base /\ Whole' /\ sup.todo # <<>>
          /\ sup'.pc \in Pcs \ Pending /\ sup'.todo = Tail(sup.todo)
      BY <1>0, <1>5, Zenon DEF Walk, Steps, Whole, Pcs, Pending
    <2>2. Head(sup.todo) \in Names /\ Tail(sup.todo) \in Seq(Names)
      BY <1>0, <2>1
    <2>3. db' \in Tables
      BY <1>0, <2>1, <2>2, ScannedFacts, Constants, Zenon
    <2>. QED
      BY <1>0, <1>1, <2>1, <2>2, <2>3, IdleTypes, Zenon
  <1>6. CASE EndWalk
    <2>1. db' = db /\ base' = "CatchingUp" /\ Whole' /\ sup'.pc \in Pcs \ Pending /\ sup'.todo = sup.todo
      BY <1>0, <1>6, Zenon DEF EndWalk, Steps, Whole, Pcs, Pending
    <2>. QED
      BY <1>0, <1>1, <2>1, IdleTypes, Zenon DEF BaselineStates
  <1>7. CASE IngestBegins
    <2>1. db' = db /\ base' = base /\ Whole' /\ sup'.pc \in Pcs \ Pending /\ sup'.todo = sup.todo
      BY <1>0, <1>7, Zenon DEF IngestBegins, Steps, Whole, Pcs, Pending
    <2>. QED
      BY <1>0, <1>1, <2>1, IdleTypes, Zenon
  <1>8. CASE Quiescent
    <2>1. CASE sup.verified
      <3>1. db' = db /\ base' = "Ready" /\ Whole' /\ sup'.pc \in Pcs \ Pending /\ sup'.todo = sup.todo
        BY <1>0, <1>8, <2>1, Zenon DEF Quiescent, Steps, Whole, Pcs, Pending
      <3>. QED
        BY <1>0, <1>1, <3>1, IdleTypes, Zenon DEF BaselineStates
    <2>2. CASE ~sup.verified
      <3>1. db' = db /\ base' = base /\ sup' = [sup EXCEPT !.pc = "verify", !.todo = Visits, !.seen = {}]
        BY <1>8, <2>2, Zenon DEF Quiescent, Steps
      <3>2. Whole' /\ sup'.pc = "verify" /\ sup'.todo = Visits
        BY <1>0, <3>1, Zenon DEF Whole
      <3>. QED
        BY <1>0, <1>1, <3>1, <3>2, IdleTypes, Zenon DEF Pcs, Pending
    <2>. QED
      BY <2>1, <2>2, Zenon
  <1>9. CASE VerifyWalk
    <2>1. /\ db' = db /\ base' = base /\ Whole' /\ sup.todo # <<>>
          /\ sup'.pc \in Pcs \ Pending /\ sup'.todo = Tail(sup.todo)
      BY <1>0, <1>9, Zenon DEF VerifyWalk, Steps, Whole, Pcs, Pending
    <2>2. Tail(sup.todo) \in Seq(Names)
      BY <1>0, <2>1
    <2>. QED
      BY <1>0, <1>1, <2>1, <2>2, IdleTypes, Zenon
  <1>. QED
    BY <1>2, <1>3, <1>4, <1>5, <1>6, <1>7, <1>8, <1>9, Zenon

\* Everything that ends in a restart, and the comparison, which may.
LEMMA RestartStepTypes ==
  ASSUME JuiceInv, Compare \/ ApplyFails \/ ReopenRefused \/ DaemonCrash \/ ScanFails
  PROVE  JuiceInv'
  <1>0. /\ Whole /\ db \in Tables /\ sup.todo \in Seq(Names) /\ Stored \in Nat /\ Stored <= Len(log)
        /\ base \in BaselineStates \cup {None} /\ cursor \in Nat \cup {None}
    BY InvFacts, Zenon DEF JuiceInv, Steady, Streams
  <1>1. UNCHANGED <<world, link, log, cursor, delivered, db>>
    BY Zenon DEF Compare, ApplyFails, ReopenRefused, DaemonCrash, ScanFails, Fails, BySupervisor, volume
  <1>2. CASE Restarts /\ base' \in {base, "Invalid"}
    <2>1. Stored' = Stored
      BY <1>1, Zenon DEF Stored
    <2>. QED
      BY <1>0, <1>1, <1>2, <2>1, RestartTypes, Zenon DEF BaselineStates
  <1>3. CASE Compare /\ ~Restarts
    <2>1. sup' = [sup EXCEPT !.pc = "wait", !.verified = TRUE] /\ UNCHANGED <<base, src>> /\ sup.pc = "verify"
      BY <1>3, Zenon DEF Compare, Steps
    <2>2. Whole' /\ sup'.pc = "wait" /\ sup'.todo = sup.todo
      BY <1>0, <2>1, ZenonT(30) DEF Whole
    <2>. QED
      BY <1>0, <1>1, <2>1, <2>2, IdleTypes, Zenon DEF Pcs, Pending
  <1>. QED
    BY <1>2, <1>3, Zenon DEF Compare, ApplyFails, ReopenRefused, DaemonCrash, ScanFails, Fails

\* The stream is opened behind the cursor, or at the tail of the log.
LEMMA OpenTypes ==
  ASSUME JuiceInv, Connect \/ Reopen
  PROVE  JuiceInv'
  <1>0. /\ Len(log) \in Nat /\ Stored \in Nat /\ Stored <= Len(log) /\ cursor \in Nat \cup {None}
        /\ src \in [open : BOOLEAN, next : Nat, last : Nat, pending : Nat]
        /\ src.last \in Nat /\ src.last <= Stored /\ Whole /\ sup.todo \in Seq(Names)
    BY InvFacts, Zenon DEF JuiceInv, Streams, Steady
  <1>1. UNCHANGED <<world, link, log, cursor, db, base, delivered>>
    BY Zenon DEF Connect, Reopen, BySupervisor, volume
  <1>2. sup.pc \notin Pending /\ src.pending = 0
    BY Zenon DEF Connect, Reopen, Pending, JuiceInv, Steady
  <1>3. WatchFrom \in Nat /\ WatchFrom > Stored /\ WatchFrom <= Len(log) + 1
    BY <1>0 DEF WatchFrom, Stored
  <1>4. /\ src' \in [open : BOOLEAN, next : Nat, last : Nat, pending : Nat]
        /\ src'.next = WatchFrom /\ src'.pending = 0 /\ src'.last <= Stored
    <2>1. CASE Connect
      <3>1. src' = [open |-> TRUE, next |-> WatchFrom, last |-> 0, pending |-> 0]
        BY <2>1, Zenon DEF Connect, Closed
      <3>2. 0 <= Stored
        BY <1>0
      <3>. QED
        BY <1>3, <3>1, <3>2, Zenon
    <2>2. CASE Reopen
      BY <1>0, <1>2, <1>3, <2>2, Zenon DEF Reopen
    <2>. QED
      BY <2>1, <2>2, Zenon
  <1>5. Whole' /\ sup'.pc \in {"scan", "ingest", "wait"} /\ sup'.todo = sup.todo
    BY <1>0, Zenon DEF Connect, AfterConnect, Reopen, To, Steps, Whole
  <1>6. Data'
    BY <1>1, DataStays, Zenon DEF JuiceInv, Data
  <1>7. Streams'
    <2>1. Stored' = Stored
      BY <1>1, Zenon DEF Stored
    <2>2. src'.last \in Nat /\ src'.next > src'.last
      BY <1>0, <1>3, <1>4
    <2>. QED
      BY <1>1, <1>3, <1>4, <2>1, <2>2, Zenon DEF JuiceInv, Streams
  <1>8. Steady'
    BY <1>0, <1>4, <1>5, Zenon DEF Steady, Pcs, Pending
  <1>. QED
    BY <1>6, <1>7, <1>8, Zenon DEF JuiceInv

\* A received record is pending.
LEMMA ReceiveTypes ==
  ASSUME JuiceInv, Receive
  PROVE  JuiceInv'
  <1>0. /\ Len(log) \in Nat /\ src.next \in Nat /\ src.last \in Nat /\ delivered \in Nat
        /\ src \in [open : BOOLEAN, next : Nat, last : Nat, pending : Nat]
        /\ src.last <= Stored /\ delivered <= Len(log) /\ Whole /\ sup.todo \in Seq(Names)
    BY InvFacts, Zenon DEF JuiceInv, Streams, Steady
  <1>1. /\ UNCHANGED <<world, link, log, cursor, db, base>> /\ sup.pc = "wait" /\ src.next <= Len(log)
        /\ src.open /\ delivered' = Larger(delivered, src.next)
        /\ src' = [src EXCEPT !.next = src.next + 1, !.pending = src.next]
        /\ sup' = [sup EXCEPT !.pc = "apply", !.verified = FALSE]
    BY Zenon DEF Receive, volume, Steps
  <1>2. /\ src' \in [open : BOOLEAN, next : Nat, last : Nat, pending : Nat]
        /\ src'.next = src.next + 1 /\ src'.pending = src.next /\ src'.last = src.last
    <2>1. src.next + 1 \in Nat
      BY <1>0
    <2>. QED
      BY <1>0, <1>1, <2>1, Zenon
  <1>3. Whole' /\ sup'.pc = "apply" /\ sup'.todo = sup.todo
    BY <1>0, <1>1, Zenon DEF Whole
  <1>4. src.next > src.last
    BY <1>1, Zenon DEF JuiceInv, Streams
  <1>5. Data'
    BY <1>1, DataStays, Zenon DEF JuiceInv, Data
  <1>6. Streams'
    <2>1. Stored' = Stored /\ delivered' \in Nat /\ delivered' <= Len(log)
      BY <1>0, <1>1, Zenon DEF Stored, Larger
    <2>2. src'.next <= Len(log) + 1 /\ src'.last <= Stored /\ src'.next > src'.last
      BY <1>0, <1>1, <1>2, <1>4
    <2>. QED
      BY <1>1, <1>2, <2>1, <2>2, Zenon DEF JuiceInv, Streams
  <1>7. Steady'
    <2>1. src.next # 0
      BY <1>0, <1>4
    <2>. QED
      BY <1>0, <1>2, <1>3, <2>1, Zenon DEF Steady, Pcs, Pending
  <1>. QED
    BY <1>5, <1>6, <1>7, Zenon DEF JuiceInv

\* The agent restarts: the stream is closed.
LEMMA AgentTypes ==
  ASSUME JuiceInv, AgentRestart
  PROVE  JuiceInv'
  <1>0. src \in [open : BOOLEAN, next : Nat, last : Nat, pending : Nat] /\ Len(log) \in Nat
    BY InvFacts, Zenon
  <1>1. /\ src' = [src EXCEPT !.open = FALSE] /\ delivered' = 0
        /\ UNCHANGED <<world, link, log, cursor, sup, db, base>>
    BY Zenon DEF AgentRestart, Fails, volume
  <1>2. /\ src' \in [open : BOOLEAN, next : Nat, last : Nat, pending : Nat]
        /\ src'.next = src.next /\ src'.pending = src.pending /\ src'.last = src.last /\ src'.open = FALSE
    BY <1>0, <1>1, Zenon
  <1>3. Data'
    BY <1>1, DataStays, Zenon DEF JuiceInv, Data
  <1>4. Streams'
    <2>1. Stored' = Stored
      BY <1>1, Zenon DEF Stored
    <2>. QED
      BY <1>0, <1>1, <1>2, <2>1 DEF JuiceInv, Streams
  <1>5. Steady'
    <2>1. Rec' = Rec
      BY <1>1, <1>2, Zenon DEF Rec
    <2>. QED
      BY <1>1, <1>2, <2>1, Zenon DEF JuiceInv, Steady, Whole
  <1>. QED
    BY <1>3, <1>4, <1>5, Zenon DEF JuiceInv

\* The cursor moves to the pending record, whether the answer arrives or not.
LEMMA AckTypes ==
  ASSUME JuiceInv, Ack \/ AckLost
  PROVE  JuiceInv'
  <1>0. /\ Len(log) \in Nat /\ src \in [open : BOOLEAN, next : Nat, last : Nat, pending : Nat]
        /\ src.pending \in Nat /\ src.next \in Nat /\ src.open \in BOOLEAN
        /\ src.pending # 0 => src.pending \in 1..Len(log)
        /\ Whole /\ sup.todo \in Seq(Names) /\ base \in BaselineStates \cup {None}
        /\ cursor \in Nat \cup {None} /\ Stored \in Nat /\ Stored <= Len(log)
    BY InvFacts, Zenon DEF JuiceInv, Steady, Streams
  <1>1. UNCHANGED <<world, link, log, db, base, delivered>> /\ sup.pc = "commit"
    BY Zenon DEF Ack, AckLost, Fails, BySupervisor, volume
  <1>2. src.pending \in 1..Len(log) /\ src.next = src.pending + 1 /\ src.next <= Len(log) + 1
    BY <1>0, <1>1, Zenon DEF JuiceInv, Steady, Streams, Pending
  <1>3. CASE cursor' = cursor /\ Restarts
    <2>1. Stored' = Stored
      BY <1>3, Zenon DEF Stored
    <2>. QED
      BY <1>0, <1>1, <1>3, <2>1, RestartTypes, Zenon
  <1>4. CASE cursor' = src.pending
    <2>1. Stored' = src.pending /\ cursor' \in Nat
      BY <1>0, <1>4, CatalogAssumption, Zenon DEF Stored
    <2>2. CASE Restarts
      <3>1. Stored' \in Nat /\ Stored' <= Len(log)
        BY <1>0, <1>2, <2>1
      <3>. QED
        BY <1>0, <1>1, <2>1, <2>2, <3>1, RestartTypes, Zenon
    <2>3. CASE src' = [src EXCEPT !.last = src.pending, !.pending = 0] /\ sup' = [sup EXCEPT !.pc = "wait"]
      <3>1. /\ src' \in [open : BOOLEAN, next : Nat, last : Nat, pending : Nat]
            /\ src'.next = src.next /\ src'.last = src.pending /\ src'.pending = 0
        BY <1>0, <2>3, Zenon
      <3>2. Whole' /\ sup'.pc = "wait" /\ sup'.todo = sup.todo
        BY <1>0, <2>3, Zenon DEF Whole
      <3>3. Data'
        BY <1>1, DataStays, Zenon DEF JuiceInv, Data
      <3>4. Streams'
        <4>1. src'.next > src'.last /\ Stored' <= Len(log) /\ src'.last <= Stored' /\ src'.next <= Len(log) + 1
          BY <1>0, <1>2, <2>1, <3>1
        <4>. QED
          BY <1>1, <2>1, <3>1, <4>1, Zenon DEF JuiceInv, Streams
      <3>5. Steady'
        BY <1>0, <3>1, <3>2, Zenon DEF Steady, Pcs, Pending
      <3>. QED
        BY <3>3, <3>4, <3>5, Zenon DEF JuiceInv
    <2>. QED
      BY <1>1, <1>4, <2>2, <2>3, Zenon DEF Ack, AckLost, To, Steps
  <1>. QED
    BY <1>3, <1>4, Zenon DEF Ack, AckLost

\* A statement of a change goes on to the next one.
LEMMA StoresTypes ==
  ASSUME JuiceInv, NEW new \in Tables, NEW pc \in {"unedge", "edge", "commit"}, Stores(new, pc),
         sup.pc \in Pending, pc = "unedge" => Rec.op = "MOVE",
         pc \in {"unedge", "edge"} => Rec.op \in {"CREATE", "MOVE"}
  PROVE  JuiceInv' /\ sup'.pc = pc
  <1>0. Whole /\ sup.todo \in Seq(Names)
    BY Zenon DEF JuiceInv, Steady
  <1>1. /\ UNCHANGED <<world, link, log, cursor, delivered, base, src>> /\ db' = new
        /\ sup' = [sup EXCEPT !.pc = pc]
    BY Zenon DEF Stores, BySupervisor, volume, To, Steps
  <1>2. Whole' /\ sup'.pc = pc /\ sup'.todo = sup.todo
    BY <1>0, <1>1, Zenon DEF Whole
  <1>3. Data'
    BY <1>1, DataStays, Zenon DEF JuiceInv
  <1>4. Streams'
    BY <1>1, Zenon DEF JuiceInv, Streams, Stored
  <1>5. Steady'
    <2>1. Rec' = Rec
      BY <1>1, Zenon DEF Rec
    <2>. QED
      BY <1>0, <1>1, <1>2, <2>1, Zenon DEF JuiceInv, Steady, Pcs, Pending
  <1>. QED
    BY <1>2, <1>3, <1>4, <1>5, Zenon DEF JuiceInv

\* The pending record has the form that the volume gave it.
LEMMA RecFacts ==
  ASSUME JuiceInv, sup.pc \in Pending
  PROVE  Shapes(Rec) /\ src.pending \in 1..Len(log) /\ Rec = log[src.pending] /\ Rec.op \in Ops
  <1>1. src.pending \in 1..Len(log) /\ Len(log) \in Nat
    BY InvFacts, Zenon DEF JuiceInv, Steady
  <1>2. src.pending \in DOMAIN log /\ log[src.pending] \in Records
    BY <1>1 DEF JuiceInv, Data, VolumeTypes
  <1>. QED
    BY <1>1, <1>2, Zenon DEF Rec, JuiceInv, Data, Records

\* What the first statement of a change writes.
Written ==
  LET o == Rec.obj IN
    CASE Rec.op = "CREATE" -> upsert_scoped_entry(db, o, CreatedRow(o, Rec.to))
      [] Rec.op = "MOVE"   -> upsert_scoped_entry(db, o, MovedRow(db.entry[o], Rec.to))
      [] Rec.op = "UNLINK" -> apply_scoped_unlink(db, Rec.from, o, FALSE)
      [] Rec.op = "LINK"   -> apply_scoped_hardlink(db, Rec.to, o)
      [] Rec.op = "WRITE"  -> Counted(db, o, LinkCount(Links(o)))
      [] OTHER -> db
Onward == CASE Rec.op = "CREATE" -> "edge" [] Rec.op = "MOVE" -> "unedge" [] OTHER -> "commit"

\* Apply is its first statement.
LEMMA ApplyIs ==
  ASSUME JuiceInv, Apply
  PROVE  Stores(Written, Onward) /\ sup.pc = "apply" /\ ~ApplyErrs /\ Rec.op \in Ops
  <1>1. sup.pc = "apply" /\ ~ApplyErrs
    BY Zenon DEF Apply
  <1>2. CASE Rec.op = "CREATE" /\ Stores(upsert_scoped_entry(db, Rec.obj, CreatedRow(Rec.obj, Rec.to)), "edge")
    <2>1. Onward = "edge" /\ Written = upsert_scoped_entry(db, Rec.obj, CreatedRow(Rec.obj, Rec.to))
      BY <1>2, Zenon DEF Onward, Written
    <2>. QED
      BY <1>1, <1>2, <2>1, Zenon DEF Ops
  <1>3. CASE Rec.op = "MOVE" /\ Stores(upsert_scoped_entry(db, Rec.obj, MovedRow(db.entry[Rec.obj], Rec.to)), "unedge")
    <2>1. Onward = "unedge" /\ Written = upsert_scoped_entry(db, Rec.obj, MovedRow(db.entry[Rec.obj], Rec.to))
      BY <1>3, Zenon DEF Onward, Written
    <2>. QED
      BY <1>1, <1>3, <2>1, Zenon DEF Ops
  <1>4. CASE Rec.op = "UNLINK" /\ Stores(apply_scoped_unlink(db, Rec.from, Rec.obj, FALSE), "commit")
    <2>1. Onward = "commit" /\ Written = apply_scoped_unlink(db, Rec.from, Rec.obj, FALSE)
      BY <1>4, Zenon DEF Onward, Written
    <2>. QED
      BY <1>1, <1>4, <2>1, Zenon DEF Ops
  <1>5. CASE Rec.op = "LINK" /\ Stores(apply_scoped_hardlink(db, Rec.to, Rec.obj), "commit")
    <2>1. Onward = "commit" /\ Written = apply_scoped_hardlink(db, Rec.to, Rec.obj)
      BY <1>5, Zenon DEF Onward, Written
    <2>. QED
      BY <1>1, <1>5, <2>1, Zenon DEF Ops
  <1>6. CASE Rec.op = "WRITE" /\ Stores(Counted(db, Rec.obj, LinkCount(Links(Rec.obj))), "commit")
    <2>1. Onward = "commit" /\ Written = Counted(db, Rec.obj, LinkCount(Links(Rec.obj)))
      BY <1>6, Zenon DEF Onward, Written
    <2>. QED
      BY <1>1, <1>6, <2>1, Zenon DEF Ops
  <1>7. CASE Rec.op = "SET" /\ Stores(db, "commit")
    <2>1. Onward = "commit" /\ Written = db
      BY <1>7, Zenon DEF Onward, Written
    <2>. QED
      BY <1>1, <1>7, <2>1, Zenon DEF Ops
  <1>. QED
    BY <1>2, <1>3, <1>4, <1>5, <1>6, <1>7, Zenon DEF Apply, Counted

\* The row of a moved file.
LEMMA MovedRowFacts ==
  ASSUME NEW row \in FileRows, NEW p \in Places
  PROVE  MovedRow(row, p) \in FileRows
  BY Constants, Zenon DEF MovedRow, FileRows

\* What the first statement leaves, by the kind of the record.
LEMMA WrittenFacts ==
  ASSUME LinksFit, JuiceInv, sup.pc = "apply", ~ApplyErrs
  PROVE  /\ Written \in Tables
         /\ Rec.op \in {"CREATE", "MOVE"} =>
              /\ Written.edge = db.edge /\ Written.entry[Rec.obj] # None
         /\ Rec.op \in {"WRITE", "SET"} => Written.edge = db.edge
         /\ Rec.op = "LINK" =>
              /\ Written.edge[Rec.to] = Rec.obj
              /\ \A q \in Places : q # Rec.to => Written.edge[q] = db.edge[q]
         /\ Rec.op = "UNLINK" =>
              /\ db.edge[Rec.from] # Rec.obj => Written = db
              /\ db.edge[Rec.from] = Rec.obj => Written.edge[Rec.from] = None
              /\ \A q \in Places : q # Rec.from => Written.edge[q] = db.edge[q]
         /\ \A x \in Objects : db.entry[x] # None /\ ~(Rec.op = "UNLINK" /\ x = Rec.obj)
              => Written.entry[x] # None
  <1>0. Shapes(Rec) /\ db \in Tables /\ VolumeTypes /\ Rec.op \in Ops
    BY RecFacts, InvFacts, Zenon DEF Pending, JuiceInv, Data
  <1>1. CASE Rec.op = "CREATE"
    <2>1. Rec.obj \in Objects /\ Rec.to \in Places
      BY <1>0, <1>1, Zenon DEF Shapes
    <2>2. PICK o \in Objects, row \in FileRows : o = Rec.obj /\ row = CreatedRow(o, Rec.to)
      BY <1>0, <2>1, ScanRowFacts, Zenon
    <2>3. Written = upsert_scoped_entry(db, o, row)
      BY <1>1, <2>2, Zenon DEF Written
    <2>4. /\ Written \in Tables /\ Written.edge = db.edge /\ Written.entry[o] = row
          /\ \A x \in Objects : x # o => Written.entry[x] = db.entry[x]
      BY <1>0, <2>3, EntryUpserted
    <2>. QED
      BY <1>1, <2>2, <2>4, Constants, Zenon
  <1>2. CASE Rec.op = "MOVE"
    <2>1. Rec.obj \in Objects /\ Rec.to \in Places /\ db.entry[Rec.obj] # None
      BY <1>0, <1>2, Zenon DEF Shapes, ApplyErrs
    <2>2. MovedRow(db.entry[Rec.obj], Rec.to) \in FileRows
      BY <1>0, <2>1, MovedRowFacts DEF Tables
    <2>3. PICK o \in Objects, row \in FileRows : o = Rec.obj /\ row = MovedRow(db.entry[o], Rec.to)
      BY <2>1, <2>2, Zenon
    <2>4. Written = upsert_scoped_entry(db, o, row)
      BY <1>2, <2>3, Zenon DEF Written
    <2>5. /\ Written \in Tables /\ Written.edge = db.edge /\ Written.entry[o] = row
          /\ \A x \in Objects : x # o => Written.entry[x] = db.entry[x]
      BY <1>0, <2>4, EntryUpserted
    <2>. QED
      BY <1>2, <2>3, <2>5, Constants, Zenon
  <1>3. CASE Rec.op = "UNLINK"
    <2>1. Rec.obj \in Objects /\ Rec.from \in Places
      BY <1>0, <1>3, Zenon DEF Shapes
    <2>2. Written = apply_scoped_unlink(db, Rec.from, Rec.obj, FALSE)
      BY <1>3, Zenon DEF Written
    <2>3. Unlinked(Written, db, Rec.from, Rec.obj)
      BY <1>0, <2>1, <2>2, UnlinkFacts, Zenon
    <2>. QED
      BY <1>3, <2>3, Zenon DEF Unlinked
  <1>4. CASE Rec.op = "LINK"
    <2>1. Rec.obj \in Objects /\ Rec.to \in Places /\ ~HardlinkFails(db, Rec.to, Rec.obj)
      BY <1>0, <1>4, Zenon DEF Shapes, ApplyErrs
    <2>2. Written = apply_scoped_hardlink(db, Rec.to, Rec.obj)
      BY <1>4, Zenon DEF Written
    <2>3. /\ Written \in Tables /\ Written.edge[Rec.to] = Rec.obj
          /\ \A q \in Places : q # Rec.to => Written.edge[q] = db.edge[q]
          /\ \A x \in Objects : db.entry[x] # None => Written.entry[x] # None
      BY <1>0, <2>1, <2>2, HardlinkFacts
    <2>. QED
      BY <1>4, <2>3, Zenon
  <1>5. CASE Rec.op = "WRITE"
    <2>1. Rec.obj \in Objects /\ db.entry[Rec.obj] # None
      BY <1>0, <1>5, Zenon DEF Shapes, ApplyErrs
    <2>2. PICK o \in Objects, n \in 0..MaxLinks : o = Rec.obj /\ n = LinkCount(Links(o))
      BY <2>1, Zenon DEF Links, LinksFit
    <2>3. Written = Counted(db, o, n)
      BY <1>5, <2>2, Zenon DEF Written
    <2>4. /\ Written \in Tables /\ Written.edge = db.edge /\ Written.entry[o] \in FileRows
          /\ \A x \in Objects : x # o => Written.entry[x] = db.entry[x]
      BY <1>0, <2>1, <2>2, <2>3, CountedFacts
    <2>. QED
      BY <1>5, <2>2, <2>4, Constants, Zenon
  <1>6. CASE Rec.op = "SET"
    <2>1. Written = db
      BY <1>6, Zenon DEF Written
    <2>. QED
      BY <1>0, <1>6, <2>1, Zenon
  <1>. QED
    BY <1>0, <1>1, <1>2, <1>3, <1>4, <1>5, <1>6, Zenon DEF Ops

\* A change keeps the types, statement by statement.
LEMMA ApplyTypes ==
  ASSUME LinksFit, JuiceInv, Apply \/ MoveUnlinks \/ AddEdge
  PROVE  JuiceInv'
  <1>0. db \in Tables
    BY InvFacts, Zenon
  <1>1. CASE Apply
    <2>1. Stores(Written, Onward) /\ sup.pc = "apply" /\ ~ApplyErrs /\ Rec.op \in Ops
      BY <1>1, ApplyIs, Zenon
    <2>2. Written \in Tables
      BY <2>1, WrittenFacts, Zenon
    <2>3. /\ Onward \in {"unedge", "edge", "commit"}
          /\ Onward = "unedge" => Rec.op = "MOVE"
          /\ Onward \in {"unedge", "edge"} => Rec.op \in {"CREATE", "MOVE"}
      BY Zenon DEF Onward
    <2>4. PICK new \in Tables, pc \in {"unedge", "edge", "commit"} : new = Written /\ pc = Onward
      BY <2>2, <2>3, Zenon
    <2>. QED
      BY <2>1, <2>3, <2>4, StoresTypes, Zenon DEF Pending
  <1>2. CASE MoveUnlinks
    <2>1. sup.pc = "unedge" /\ Stores(remove_scoped_namespace_edge(db, Rec.from), "edge")
      BY <1>2, Zenon DEF MoveUnlinks
    <2>2. Rec.op = "MOVE" /\ Rec.from \in Places
      BY <2>1, RecFacts, Zenon DEF JuiceInv, Steady, Shapes, Pending
    <2>3. remove_scoped_namespace_edge(db, Rec.from) \in Tables
      BY <1>0, <2>2, EdgeRemoved, Zenon
    <2>. QED
      BY <2>1, <2>2, <2>3, StoresTypes, Zenon DEF Pending
  <1>3. CASE AddEdge
    <2>1. sup.pc = "edge" /\ Stores(upsert_scoped_namespace_edge(db, Rec.to, Rec.obj), "commit")
      BY <1>3, Zenon DEF AddEdge
    <2>2. Rec.to \in Places /\ Rec.obj \in Objects
      BY <2>1, RecFacts, Zenon DEF JuiceInv, Steady, Shapes, Pending
    <2>3. upsert_scoped_namespace_edge(db, Rec.to, Rec.obj) \in Tables
      BY <1>0, <2>2, EdgeUpserted, Zenon
    <2>. QED
      BY <2>1, <2>3, StoresTypes, Zenon DEF Pending
  <1>. QED
    BY <1>1, <1>2, <1>3, Zenon

\* Every step keeps the types.
LEMMA TypesStep ==
  ASSUME LinksFit, JuiceInv, [Next]_vars
  PROVE  JuiceInv'
  <1>1. CASE UNCHANGED vars
    BY <1>1, Zenon DEF vars, JuiceInv, Data, VolumeTypes, Streams, Stored, Steady, Whole, Rec
  <1>. QED
    BY <1>1, OperationTypes, IdleStepTypes, RestartStepTypes, OpenTypes, ReceiveTypes, AgentTypes,
       AckTypes, ApplyTypes, Zenon DEF Next, Supervisor, Fault

\* The invariant implies the types.
LEMMA InvTypes ==
  ASSUME JuiceInv
  PROVE  TypeOK
  <1>1. CatalogOK(db)
    <2>1. \A row \in FileRows : RowOK(row)
      BY Zenon DEF FileRows, RowOK, StatusOK
    <2>2. db \in Tables
      BY InvFacts, Zenon
    <2>. QED
      BY <2>1, <2>2, Zenon DEF CatalogOK, Tables
  <1>2. /\ Len(log) \in Nat /\ Stored \in Nat /\ Stored <= Len(log)
        /\ src.next \in Nat /\ src.last \in Nat /\ src.pending \in Nat
        /\ src.pending # 0 => src.pending \in 1..Len(log)
    BY InvFacts, Zenon
  <1>3. /\ base \in BaselineStates \cup {None} /\ delivered \in Nat /\ delivered <= Len(log)
        /\ src.next <= Len(log) + 1 /\ (src.open => src.next > src.last)
        /\ (sup.pc \in Pending <=> src.pending # 0)
    BY Zenon DEF JuiceInv, Streams, Steady
  <1>4. /\ Stored \in 0..Len(log) /\ delivered \in 0..Len(log)
        /\ src.pending \in 0..Len(log) /\ src.next \in 0..(Len(log) + 1)
    BY <1>2, <1>3
  <1>. QED
    BY <1>1, <1>3, <1>4, Zenon DEF TypeOK, Pending

-----------------------------------------------------------------------------
(* What is ready is complete.  The catalog need not be a picture that the  *)
(* volume ever showed: each of its edges is what some record after the     *)
(* cursor, or the last one before it, left at that name.                   *)

\* The object at p after the first t records of l.
Held(l, p, t, o) ==
  \/ o = None /\ \A i \in 1..t : ~Touches(l[i], p)
  \/ \E i \in 1..t : /\ Touches(l[i], p) /\ o = Leaves(l[i], p)
                     /\ \A j \in (i + 1)..t : ~Touches(l[j], p)

Named(l, o)    == \E i \in DOMAIN l : l[i].obj = o
LinkedIn(l, o) == \E i \in DOMAIN l : l[i].op = "LINK" /\ l[i].obj = o

\* The log tells the namespace at; a record that takes a name away names the object that
\* was there; an object without hard links has one name, and none after its UNLINK.
Solitary(l, k) ==
  \A q \in Places : /\ \A t \in k..Len(l) : ~Held(l, q, t, l[k].obj)
                    /\ q # l[k].from => ~Held(l, q, k - 1, l[k].obj)
Past(l, at) ==
  /\ \A p \in Places : Held(l, p, Len(l), at[p])
  /\ \A k \in DOMAIN l : l[k].from \in Places => Held(l, l[k].from, k - 1, l[k].obj)
  /\ \A p, q \in Places : at[p] = at[q] /\ at[p] # None => p = q \/ LinkedIn(l, at[p])
  /\ \A p \in Places : at[p] # None => Named(l, at[p])
  /\ \A k \in DOMAIN l : l[k].op = "UNLINK" /\ ~LinkedIn(l, l[k].obj) => Solitary(l, k)

\* There is one object at a name at a time.
LEMMA HeldUnique ==
  ASSUME NEW l, NEW p, NEW t \in Nat, NEW a, NEW b, Held(l, p, t, a), Held(l, p, t, b)
  PROVE  a = b
  <1>1. CASE (\A i \in 1..t : ~Touches(l[i], p))
    BY <1>1, Zenon DEF Held
  <1>2. CASE \E i \in 1..t : Touches(l[i], p)
    <2>1. PICK i \in 1..t : /\ Touches(l[i], p) /\ a = Leaves(l[i], p)
                            /\ \A j \in (i + 1)..t : ~Touches(l[j], p)
      BY <1>2, Zenon DEF Held
    <2>2. PICK k \in 1..t : /\ Touches(l[k], p) /\ b = Leaves(l[k], p)
                            /\ \A j \in (k + 1)..t : ~Touches(l[j], p)
      BY <1>2, Zenon DEF Held
    <2>3. i = k
      BY <2>1, <2>2
    <2>. QED
      BY <2>1, <2>2, <2>3, Zenon
  <1>. QED
    BY <1>1, <1>2, Zenon

\* A record leaves the names it does not touch as they are.
LEMMA HeldOn ==
  ASSUME NEW l, NEW p, NEW k \in Nat \ {0}, NEW o, Held(l, p, k - 1, o), ~Touches(l[k], p)
  PROVE  Held(l, p, k, o)
  <1>1. CASE o = None /\ \A i \in 1..(k - 1) : ~Touches(l[i], p)
    <2>1. \A i \in 1..k : i = k \/ i \in 1..(k - 1)
      OBVIOUS
    <2>. QED
      BY <1>1, <2>1, Zenon DEF Held
  <1>2. CASE \E i \in 1..(k - 1) : /\ Touches(l[i], p) /\ o = Leaves(l[i], p)
                                   /\ \A j \in (i + 1)..(k - 1) : ~Touches(l[j], p)
    <2>1. PICK i \in 1..(k - 1) : /\ Touches(l[i], p) /\ o = Leaves(l[i], p)
                                  /\ \A j \in (i + 1)..(k - 1) : ~Touches(l[j], p)
      BY <1>2, Zenon
    <2>2. i \in 1..k /\ \A j \in (i + 1)..k : j = k \/ j \in (i + 1)..(k - 1)
      OBVIOUS
    <2>3. \A j \in (i + 1)..k : ~Touches(l[j], p)
      BY <2>1, <2>2, Zenon
    <2>. QED
      BY <2>1, <2>2, <2>3, Zenon DEF Held
  <1>. QED
    BY <1>1, <1>2, Zenon DEF Held

\* A record decides the names it touches.
LEMMA HeldNow ==
  ASSUME NEW l, NEW p, NEW k \in Nat \ {0}, Touches(l[k], p)
  PROVE  Held(l, p, k, Leaves(l[k], p))
  <1>1. k \in 1..k /\ (k + 1)..k = {}
    OBVIOUS
  <1>. QED
    BY <1>1, Zenon DEF Held

\* More records change nothing of what was.
LEMMA HeldSame ==
  ASSUME NEW l \in Seq(Records), NEW r, NEW p, NEW t \in 0..Len(l), NEW o
  PROVE  Held(Append(l, r), p, t, o) <=> Held(l, p, t, o)
  <1>1. \A i \in 1..t : Append(l, r)[i] = l[i]
    OBVIOUS
  <1>2. \A i \in 1..t : \A j \in (i + 1)..t : j \in 1..t
    OBVIOUS
  <1>. QED
    BY <1>1, <1>2, Zenon DEF Held

\* A record and the namespace it leaves.
Effect(r, at) == [p \in Places |-> IF Touches(r, p) THEN Leaves(r, p) ELSE at[p]]
Follows(l, at, r) ==
  /\ r \in Records /\ Shapes(r)
  /\ r.from \in Places => at[r.from] = r.obj
  /\ r.op = "CREATE" => ~Named(l, r.obj)
  /\ r.op = "LINK" => \E p \in Places : at[p] = r.obj

\* The log goes on telling the namespace.
LEMMA PastGrows ==
  ASSUME NEW l \in Seq(Records), NEW at \in [Places -> Objects \cup {None}], NEW r,
         \A i \in DOMAIN l : Shapes(l[i]), Past(l, at), Follows(l, at, r)
  PROVE  Past(Append(l, r), Effect(r, at))
  <1> DEFINE m == Append(l, r)
             n == Len(l)
             now == Effect(r, at)
  <1>1. /\ n \in Nat /\ Len(m) = n + 1 /\ m[n + 1] = r /\ n + 1 \in Nat \ {0}
        /\ DOMAIN m = 1..(n + 1) /\ DOMAIN l = 1..n /\ \A i \in 1..n : m[i] = l[i]
    BY DEF Follows
  <1>2. ASSUME NEW p, NEW t \in 0..n, NEW o
        PROVE  Held(m, p, t, o) <=> Held(l, p, t, o)
    BY <1>2, HeldSame, Zenon
  <1>3. \A o : (Named(l, o) => Named(m, o)) /\ (LinkedIn(l, o) => LinkedIn(m, o))
    BY <1>1 DEF Named, LinkedIn
  <1>4. Named(m, r.obj) /\ (r.op = "LINK" => LinkedIn(m, r.obj))
    BY <1>1 DEF Named, LinkedIn
  <1>5. \A p \in Places : now[p] = IF Touches(r, p) THEN Leaves(r, p) ELSE at[p]
    BY Zenon DEF Effect
  <1>6. /\ \A p \in Places : Held(l, p, n, at[p])
        /\ \A k \in DOMAIN l : l[k].from \in Places => Held(l, l[k].from, k - 1, l[k].obj)
        /\ \A p, q \in Places : at[p] = at[q] /\ at[p] # None => p = q \/ LinkedIn(l, at[p])
        /\ \A p \in Places : at[p] # None => Named(l, at[p])
        /\ \A k \in DOMAIN l : l[k].op = "UNLINK" /\ ~LinkedIn(l, l[k].obj) => Solitary(l, k)
    BY Zenon DEF Past
  <1>7. Shapes(r) /\ r.op \in Ops /\ (r.from \in Places => at[r.from] = r.obj)
        /\ (r.op = "CREATE" => ~Named(l, r.obj)) /\ (r.op = "LINK" => \E p \in Places : at[p] = r.obj)
    BY Zenon DEF Follows, Records
  <1> HIDE DEF m, n, now
  <1>8. ASSUME NEW p \in Places
        PROVE  Held(m, p, n + 1, now[p])
    <2>1. CASE Touches(r, p)
      BY <1>1, <1>5, <2>1, HeldNow, ZenonT(30)
    <2>2. CASE ~Touches(r, p)
      <3>1. Held(m, p, n, at[p]) /\ (n + 1) - 1 = n
        BY <1>1, <1>2, <1>6
      <3>. QED
        BY <1>1, <1>5, <2>2, <3>1, HeldOn, Zenon
    <2>. QED
      BY <2>1, <2>2, Zenon
  <1>9. ASSUME NEW p \in Places, NEW o, Held(l, p, n, o)
        PROVE  o = at[p]
    BY <1>1, <1>6, <1>9, HeldUnique, Zenon
  <1>10. ASSUME NEW p \in Places, NEW o, Held(m, p, n + 1, o)
         PROVE  o = now[p]
    BY <1>1, <1>8, <1>10, HeldUnique, ZenonT(30)
  \* Who is at a name now came there with this record, or was there before.
  <1>11. ASSUME NEW p \in Places, now[p] # None
         PROVE  \/ ~Touches(r, p) /\ now[p] = at[p]
                \/ r.to = p /\ now[p] = r.obj /\ r.op \in {"CREATE", "LINK", "MOVE"}
    <2>1. Touches(r, p) => r.to = p /\ now[p] = r.obj
      BY <1>5, <1>11, Zenon DEF Touches, Leaves
    <2>2. r.to = p => r.op \in {"CREATE", "LINK", "MOVE"}
      BY <1>7, Constants, ZenonT(30) DEF Shapes, Ops
    <2>. QED
      BY <1>5, <2>1, <2>2, Zenon
  <1>12. \A k \in DOMAIN m : m[k].from \in Places => Held(m, m[k].from, k - 1, m[k].obj)
    <2> SUFFICES ASSUME NEW k \in 1..(n + 1), m[k].from \in Places
                 PROVE  Held(m, m[k].from, k - 1, m[k].obj)
      BY <1>1, ZenonT(30)
    <2>1. k - 1 \in 0..n
      BY <1>1
    <2>2. CASE k \in 1..n
      BY <1>1, <1>2, <1>6, <2>1, <2>2, Zenon
    <2>3. CASE k = n + 1
      <3>1. Held(l, r.from, n, r.obj)
        BY <1>1, <1>6, <1>7, <2>3, Zenon
      <3>. QED
        BY <1>1, <1>2, <2>1, <2>3, <3>1
    <2>. QED
      BY <1>1, <2>2, <2>3
  <1>13. \A p, q \in Places : now[p] = now[q] /\ now[p] # None => p = q \/ LinkedIn(m, now[p])
    <2>1. ASSUME NEW p \in Places, NEW q \in Places, now[p] = now[q], now[p] # None, p # q, r.to = p
          PROVE  LinkedIn(m, now[p])
      <3>1. now[p] = r.obj /\ r.op \in {"CREATE", "LINK", "MOVE"} /\ ~Touches(r, q) /\ at[q] = r.obj
        BY <1>11, <2>1, ZenonT(30) DEF Touches
      <3>2. CASE r.op = "CREATE"
        BY <1>6, <1>7, <2>1, <3>1, <3>2, Zenon
      <3>3. CASE r.op = "LINK"
        BY <1>4, <3>1, <3>3, ZenonT(30)
      <3>4. CASE r.op = "MOVE"
        <4>1. r.from \in Places /\ at[r.from] = r.obj /\ r.from # q
          BY <1>7, <3>1, <3>4, ZenonT(30) DEF Shapes, Touches
        <4>. QED
          BY <1>3, <1>6, <2>1, <3>1, <4>1, Zenon
      <3>. QED
        BY <3>1, <3>2, <3>3, <3>4, Zenon
    <2> SUFFICES ASSUME NEW p \in Places, NEW q \in Places, now[p] = now[q], now[p] # None, p # q
                 PROVE  LinkedIn(m, now[p])
      BY ZenonT(30)
    <2>2. CASE r.to = p \/ r.to = q
      BY <2>1, <2>2, ZenonT(30)
    <2>3. CASE r.to # p /\ r.to # q
      BY <1>3, <1>6, <1>11, <2>3, Zenon
    <2>. QED
      BY <2>2, <2>3, Zenon
  <1>14. \A p \in Places : now[p] # None => Named(m, now[p])
    BY <1>3, <1>4, <1>6, <1>11, Zenon
  <1>15. ASSUME NEW k \in 1..(n + 1), m[k].op = "UNLINK", ~LinkedIn(m, m[k].obj)
         PROVE  Solitary(m, k)
    <2> DEFINE o == m[k].obj
    <2>1. CASE k = n + 1
      <3>1. r.op = "UNLINK" /\ o = r.obj /\ r.from \in Places /\ at[r.from] = o /\ r.to = NoPlace /\ o \in Objects
        BY <1>1, <1>7, <1>15, <2>1, Zenon DEF Shapes
      <3>2. \A q \in Places : q # r.from => at[q] # o
        BY <1>3, <1>6, <1>15, <3>1, Constants, Zenon
      <3>3. \A q \in Places : now[q] # o
        BY <1>11, <3>1, <3>2, Constants, Zenon DEF Touches
      <3>4. \A q \in Places : ~Held(m, q, n + 1, o)
        BY <1>10, <3>3, Zenon
      <3>5. \A q \in Places : q # r.from => ~Held(m, q, n, o)
        <4>1. \A q \in Places : q # r.from => ~Held(l, q, n, o)
          BY <1>9, <3>2, ZenonT(30)
        <4>2. n \in 0..n
          BY <1>1
        <4>. QED
          BY <1>2, <4>1, <4>2, Zenon
      <3>6. k - 1 = n /\ m[k].from = r.from /\ \A t \in k..Len(m) : t = n + 1
        BY <1>1, <2>1
      <3>. QED
        BY <3>4, <3>5, <3>6, ZenonT(30) DEF Solitary
    <2>2. CASE k \in 1..n
      <3>1. l[k] = m[k] /\ l[k].op = "UNLINK" /\ ~LinkedIn(l, o) /\ o \in Objects /\ Named(l, o) /\ k \in DOMAIN l
        BY <1>1, <1>3, <1>15, <2>2, ZenonT(30) DEF Shapes, Named
      <3>2. Solitary(l, k)
        BY <1>6, <3>1, Zenon
      <3>3. \A q \in Places : at[q] # o
        <4>1. n \in k..Len(l)
          BY <1>1, <2>2 DEF n
        <4>. QED
          BY <1>6, <3>1, <3>2, <4>1, Zenon DEF Solitary
      <3>4. \A q \in Places : now[q] # o
        <4> SUFFICES ASSUME NEW q \in Places, now[q] = o PROVE FALSE
          BY ZenonT(30)
        <4>1. now[q] # None
          BY <3>1, Constants, ZenonT(30)
        <4>2. r.obj = o /\ r.op \in {"CREATE", "LINK", "MOVE"}
          BY <1>11, <3>3, <4>1, Zenon
        <4>3. r.op = "MOVE" => at[r.from] = o /\ r.from \in Places
          BY <1>7, <4>2, Zenon DEF Shapes
        <4>. QED
          BY <1>7, <3>1, <3>3, <4>2, <4>3, Zenon
      <3>5. ASSUME NEW q \in Places, NEW t \in k..Len(m)
            PROVE  ~Held(m, q, t, o)
        <4>1. CASE t = n + 1
          BY <1>10, <3>4, <4>1, Zenon
        <4>2. CASE t # n + 1
          <5>1. t \in k..Len(l) /\ t \in 0..n
            BY <1>1, <2>2, <4>2 DEF n
          <5>. QED
            BY <1>2, <3>1, <3>2, <5>1, Zenon DEF Solitary
        <4>. QED
          BY <4>1, <4>2, Zenon
      <3>6. ASSUME NEW q \in Places, q # m[k].from
            PROVE  ~Held(m, q, k - 1, o)
        <4>1. k - 1 \in 0..n
          BY <1>1, <2>2
        <4>. QED
          BY <1>2, <3>1, <3>2, <3>6, <4>1, ZenonT(30) DEF Solitary
      <3>. QED
        BY <3>5, <3>6, Zenon DEF Solitary
    <2>. QED
      BY <1>1, <2>1, <2>2
  <1>16. /\ \A p \in Places : Held(m, p, Len(m), now[p])
         /\ \A k \in DOMAIN m : m[k].op = "UNLINK" /\ ~LinkedIn(m, m[k].obj) => Solitary(m, k)
    BY <1>1, <1>8, <1>15, ZenonT(30)
  <1>17. Past(m, now)
    BY <1>12, <1>13, <1>14, <1>16, ZenonT(30) DEF Past
  <1>. QED
    BY <1>17, Zenon DEF m, now

\* Every edge of d is what some record from low on, or the last one before it, left there.
Sound(l, d, low) == \A p \in Places : \E t \in low..Len(l) : Held(l, p, t, d.edge[p])

\* Every edge leads to a row, unless its object had hard links.
Owned(l, d) == \A p \in Places : d.edge[p] # None => LinkedIn(l, d.edge[p]) \/ d.entry[d.edge[p]] # None

\* An earlier position asks for less.
LEMMA SoundLess ==
  ASSUME NEW l, NEW d, NEW a \in Nat, NEW b \in Nat, b <= a, Len(l) \in Nat, Sound(l, d, a)
  PROVE  Sound(l, d, b)
  <1>1. \A t \in a..Len(l) : t \in b..Len(l)
    OBVIOUS
  <1>. QED
    BY <1>1, Zenon DEF Sound

\* More records leave the edges as sound as they were.
LEMMA SoundGrows ==
  ASSUME NEW l \in Seq(Records), NEW r \in Records, NEW d, NEW a \in Nat, Sound(l, d, a)
  PROVE  Sound(Append(l, r), d, a)
  <1> SUFFICES ASSUME NEW p \in Places
               PROVE  \E t \in a..Len(Append(l, r)) : Held(Append(l, r), p, t, d.edge[p])
    BY Zenon DEF Sound
  <1>1. PICK t \in a..Len(l) : Held(l, p, t, d.edge[p])
    BY Zenon DEF Sound
  <1>2. t \in 0..Len(l) /\ t \in a..Len(Append(l, r))
    OBVIOUS
  <1>. QED
    BY <1>1, <1>2, HeldSame, Zenon

\* In the middle of record k: edges that have what the record leaves, others as before.
LEMMA SoundMeanwhile ==
  ASSUME NEW l \in Seq(Records), NEW k \in 1..Len(l), NEW d, NEW e, Sound(l, d, k - 1),
         \A p \in Places : \/ e.edge[p] = d.edge[p]
                           \/ Touches(l[k], p) /\ e.edge[p] = Leaves(l[k], p)
  PROVE  Sound(l, e, k - 1)
  <1>1. k \in Nat \ {0} /\ k \in (k - 1)..Len(l)
    OBVIOUS
  <1> SUFFICES ASSUME NEW p \in Places
               PROVE  \E t \in (k - 1)..Len(l) : Held(l, p, t, e.edge[p])
    BY ZenonT(30) DEF Sound
  <1>2. CASE e.edge[p] = d.edge[p]
    BY <1>2, ZenonT(30) DEF Sound
  <1>3. CASE Touches(l[k], p) /\ e.edge[p] = Leaves(l[k], p)
    BY <1>1, <1>3, HeldNow, Zenon
  <1>. QED
    BY <1>2, <1>3, Zenon

\* Record k has been applied: the names it touches have what it left, or something later.
LEMMA SoundTaken ==
  ASSUME NEW l \in Seq(Records), NEW k \in 1..Len(l), NEW d, NEW e, Sound(l, d, k - 1),
         \A p \in Places : Touches(l[k], p) => \/ e.edge[p] = Leaves(l[k], p)
                                               \/ \E t \in k..Len(l) : Held(l, p, t, e.edge[p]),
         \A p \in Places : ~Touches(l[k], p) => e.edge[p] = d.edge[p]
  PROVE  Sound(l, e, k)
  <1>1. k \in Nat \ {0} /\ k \in k..Len(l)
    OBVIOUS
  <1> SUFFICES ASSUME NEW p \in Places
               PROVE  \E t \in k..Len(l) : Held(l, p, t, e.edge[p])
    BY ZenonT(30) DEF Sound
  <1>2. CASE Touches(l[k], p)
    BY <1>1, <1>2, HeldNow, Zenon
  <1>3. CASE ~Touches(l[k], p)
    <2>1. PICK t \in (k - 1)..Len(l) : Held(l, p, t, e.edge[p])
      BY <1>3, ZenonT(30) DEF Sound
    <2>2. CASE t = k - 1
      <3>1. Held(l, p, k, e.edge[p])
        BY <1>1, <1>3, <2>1, <2>2, HeldOn, ZenonT(30)
      <3>. QED
        BY <1>1, <3>1, ZenonT(30)
    <2>3. CASE t # k - 1
      <3>1. t \in k..Len(l)
        BY <2>3
      <3>. QED
        BY <2>1, <3>1, ZenonT(30)
    <2>. QED
      BY <2>2, <2>3, Zenon
  <1>. QED
    BY <1>2, <1>3, Zenon

\* Applying an UNLINK: a name that leads elsewhere got there later.
LEMMA UnlinkSound ==
  ASSUME NEW l \in Seq(Records), NEW at, Past(l, at), NEW k \in 1..Len(l), NEW d, NEW e,
         l[k].op = "UNLINK", Shapes(l[k]), Sound(l, d, k - 1), Unlinked(e, d, l[k].from, l[k].obj)
  PROVE  Sound(l, e, k)
  <1> DEFINE p == l[k].from
             o == l[k].obj
  <1>1. p \in Places /\ l[k].to = NoPlace /\ k \in DOMAIN l /\ k - 1 \in Nat
    BY DEF Shapes
  <1>2. Held(l, p, k - 1, o)
    BY <1>1, ZenonT(30) DEF Past
  <1>3. \A q \in Places : Touches(l[k], q) <=> q = p
    BY <1>1, Constants, ZenonT(30) DEF Touches
  <1>4. Leaves(l[k], p) = None
    BY <1>1, Constants, Zenon DEF Leaves
  <1>5. e.edge[p] = Leaves(l[k], p) \/ \E t \in k..Len(l) : Held(l, p, t, e.edge[p])
    <2>1. CASE d.edge[p] = o
      BY <1>4, <2>1, Zenon DEF Unlinked
    <2>2. CASE d.edge[p] # o
      <3>1. e = d
        BY <2>2, ZenonT(30) DEF Unlinked
      <3>2. PICK t \in (k - 1)..Len(l) : Held(l, p, t, d.edge[p])
        BY <1>1, ZenonT(30) DEF Sound
      <3>3. t # k - 1
        BY <1>1, <1>2, <2>2, <3>2, HeldUnique, ZenonT(30)
      <3>4. t \in k..Len(l)
        BY <3>3
      <3>. QED
        BY <3>1, <3>2, <3>4, Zenon
    <2>. QED
      BY <2>1, <2>2, Zenon
  <1>6. \A q \in Places : q # p => e.edge[q] = d.edge[q]
    BY ZenonT(30) DEF Unlinked
  <1> HIDE DEF p, o
  <1>. QED
    BY <1>3, <1>5, <1>6, SoundTaken, Zenon

\* Applying an UNLINK: the row that may go has no other name, unless there were hard links.
LEMMA UnlinkOwned ==
  ASSUME NEW l \in Seq(Records), NEW at, Past(l, at), NEW k \in 1..Len(l), NEW d \in Tables, NEW e,
         l[k].op = "UNLINK", Shapes(l[k]), Sound(l, d, k - 1), Unlinked(e, d, l[k].from, l[k].obj),
         Owned(l, d)
  PROVE  Owned(l, e)
  <1> DEFINE p == l[k].from
             o == l[k].obj
  <1>1. p \in Places /\ o \in Objects /\ k \in DOMAIN l
    BY DEF Shapes
  <1> SUFFICES ASSUME NEW q \in Places, e.edge[q] # None, ~LinkedIn(l, e.edge[q])
               PROVE  e.entry[e.edge[q]] # None
    BY ZenonT(30) DEF Owned
  <1>2. CASE d.edge[p] # o
    BY <1>2, ZenonT(30) DEF Unlinked, Owned
  <1>3. CASE d.edge[p] = o
    <2>1. q # p /\ e.edge[q] = d.edge[q]
      BY <1>3, ZenonT(30) DEF Unlinked
    <2>2. d.edge[q] \in Objects /\ d.entry[d.edge[q]] # None
      BY <2>1, ZenonT(30) DEF Owned, Tables
    <2>3. d.edge[q] # o
      <3> SUFFICES ASSUME d.edge[q] = o PROVE FALSE
        BY ZenonT(30)
      <3>1. Solitary(l, k)
        BY <1>1, <2>1, ZenonT(30) DEF Past
      <3>2. PICK t \in (k - 1)..Len(l) : Held(l, q, t, o)
        BY ZenonT(30) DEF Sound
      <3>3. t = k - 1 \/ t \in k..Len(l)
        OBVIOUS
      <3>. QED
        BY <2>1, <3>1, <3>2, <3>3, ZenonT(30) DEF Solitary
    <2>. QED
      BY <2>1, <2>2, <2>3, ZenonT(30) DEF Unlinked
  <1>. QED
    BY <1>2, <1>3, Zenon

\* The states of a baseline that was scanned to the end.
Based == {"CatchingUp", "Ready"}

\* The records that the catalog has taken in order: those before the cursor, and the
\* pending one once all its statements are done.
Low == IF sup.pc = "commit" THEN src.pending ELSE cursor

\* The stream stands right behind the cursor, the baseline is the one that the step of
\* the supervisor calls for, and a change is half done in one way only.
Standing ==
  /\ cursor \in Nat
  /\ src.pending # 0 => src.pending = cursor + 1
  /\ src.open /\ src.pending = 0 => src.next = cursor + 1
  /\ sup.pc \in {"clear", "walk"} => base = "Scanning"
  /\ sup.pc \in {"connect", "ingest", "wait", "verify"} \cup Pending => base \in Based
  /\ sup.pc \in {"unedge", "edge"} => db.entry[Rec.obj] # None
  /\ sup.pc = "edge" /\ Rec.op = "MOVE" => db.edge[Rec.from] = None

\* A scanned catalog is sound; during a scan, the names that were visited are.
Met(p) ==
  \/ db.edge[p] = None /\ \E i \in DOMAIN sup.todo : At1(sup.todo[i]) = p
  \/ \E t \in cursor..Len(log) : Held(log, p, t, db.edge[p])
Footing ==
  /\ base \in Based => Sound(log, db, Low)
  /\ sup.pc = "walk" => \A p \in Places : Met(p)

(* The inductive invariant behind ReadyIsComplete. *)
ReadyInv == Past(log, link) /\ Standing /\ Footing /\ Owned(log, db)

\* At the start nothing was logged, and nothing is in the catalog.
LEMMA ReadyStarts ==
  ASSUME HasCursor, Init
  PROVE  ReadyInv
  <1>1. /\ log = <<>> /\ db = Empty /\ base = None /\ src = Closed /\ sup = Boot /\ cursor = 0
        /\ link = [p \in Places |-> None]
    BY Zenon DEF Init, HasCursor
  <1>2. Past(log, link)
    <2>1. \A p \in Places : Held(log, p, 0, None)
      BY DEF Held
    <2>2. Len(log) = 0 /\ DOMAIN log = {}
      BY <1>1
    <2>. QED
      BY <1>1, <2>1, <2>2, Zenon DEF Past
  <1>3. Standing
    BY <1>1, ZenonT(30) DEF Standing, Closed, Boot, Pending
  <1>4. Footing
    <2>1. \A p \in Places : Held(log, p, 0, None) /\ db.edge[p] = None
      BY <1>1 DEF Held, Empty
    <2>2. Len(log) = 0 /\ Low = 0 /\ 0 \in 0..0 /\ sup.pc # "walk"
      BY <1>1 DEF Low, Boot
    <2>3. Sound(log, db, Low)
      BY <2>1, <2>2, Zenon DEF Sound
    <2>. QED
      BY <2>2, <2>3, Zenon DEF Footing
  <1>5. Owned(log, db)
    BY <1>1, ZenonT(30) DEF Owned, Empty
  <1>. QED
    BY <1>2, <1>3, <1>4, <1>5, Zenon DEF ReadyInv

\* The volume goes on: the log tells it, and the catalog is as sound as it was.
LEMMA OperationReady ==
  ASSUME JuiceInv, ReadyInv, Operation
  PROVE  ReadyInv'
  <1>0. PICK r : Logged(r)
    BY OperationLogs, Zenon DEF JuiceInv, Data
  <1>1. /\ log \in Seq(Records) /\ link \in [Places -> Objects \cup {None}] /\ Len(log) \in Nat
        /\ \A i \in DOMAIN log : Shapes(log[i])
        /\ log' = Append(log, r) /\ link' = Effect(r, link) /\ r \in Records
        /\ UNCHANGED <<db, base, cursor, src, sup>>
    BY <1>0 DEF JuiceInv, Data, VolumeTypes, Logged, Effect
  <1>2. Past(log', link')
    <2>1. Follows(log, link, r)
      BY <1>0, ZenonT(30) DEF Logged, Follows, Known, Named, Links
    <2>. QED
      BY <1>1, <2>1, PastGrows, Zenon DEF ReadyInv
  <1>3. src.pending # 0 => Rec' = Rec
    BY <1>1, InvFacts DEF Rec
  <1>4. Standing'
    BY <1>1, <1>3, ZenonT(30) DEF ReadyInv, Standing, JuiceInv, Steady, Pending
  <1>5. cursor \in Nat /\ Low \in Nat /\ Low' = Low
    BY <1>1, InvFacts, ZenonT(30) DEF ReadyInv, Standing, Low
  <1>6. Footing'
    <2>1. base \in Based => Sound(log', db, Low)
      BY <1>1, <1>5, SoundGrows, Zenon DEF ReadyInv, Footing
    <2>2. ASSUME sup.pc = "walk", NEW p \in Places
          PROVE  Met(p)'
      <3>1. Met(p)
        BY <2>2, Zenon DEF ReadyInv, Footing
      <3>2. CASE \E t \in cursor..Len(log) : Held(log, p, t, db.edge[p])
        <4>1. PICK t \in cursor..Len(log) : Held(log, p, t, db.edge[p])
          BY <3>2, Zenon
        <4>2. t \in 0..Len(log) /\ t \in cursor..Len(log')
          BY <1>1, <1>5
        <4>3. Held(log', p, t, db.edge[p])
          BY <1>1, <4>1, <4>2, HeldSame, Zenon
        <4>. QED
          BY <1>1, <4>2, <4>3, ZenonT(30) DEF Met
      <3>. QED
        BY <1>1, <3>1, <3>2, ZenonT(30) DEF Met
    <2>. QED
      BY <1>1, <1>5, <2>1, <2>2, Zenon DEF Footing
  <1>7. Owned(log', db)
    <2>1. \A o : LinkedIn(log, o) => LinkedIn(log', o)
      BY <1>1 DEF LinkedIn
    <2>. QED
      BY <2>1, ZenonT(30) DEF ReadyInv, Owned
  <1>. QED
    BY <1>1, <1>2, <1>4, <1>6, <1>7, Zenon DEF ReadyInv

\* Steps that leave the catalog alone, take no record back and start no walk.
LEMMA StillReady ==
  ASSUME JuiceInv, ReadyInv, UNCHANGED <<link, log, db>>, Standing', sup'.pc # "walk",
         base' \in Based => base \in Based, Low' \in Nat, Low' <= Low
  PROVE  ReadyInv'
  <1>1. Low \in Nat /\ Len(log) \in Nat
    BY InvFacts, ZenonT(30) DEF ReadyInv, Standing, Low
  <1>2. base' \in Based => Sound(log, db, Low')
    BY <1>1, SoundLess, Zenon DEF ReadyInv, Footing
  <1>3. Footing'
    BY <1>2, Zenon DEF Footing
  <1>. QED
    BY <1>3, Zenon DEF ReadyInv

\* A restart goes back to the cursor.
LEMMA RestartReady ==
  ASSUME JuiceInv, ReadyInv, Restarts, UNCHANGED <<link, log, db>>, base' \in {base, "Invalid"},
         cursor' = cursor \/ (cursor' = src.pending /\ sup.pc = "commit")
  PROVE  ReadyInv'
  <1>1. src' = Closed /\ sup' = Boot
    BY Zenon DEF Restarts, Steps
  <1>2. /\ cursor \in Nat /\ src.pending \in Nat /\ (src.pending # 0 => src.pending = cursor + 1)
        /\ (sup.pc = "commit" => src.pending # 0)
    BY InvFacts, ZenonT(30) DEF ReadyInv, Standing, JuiceInv, Steady, Pending
  <1>3. Standing' /\ sup'.pc # "walk"
    BY <1>1, <1>2, Zenon DEF Standing, Closed, Boot, Pending
  <1>4. Low' = cursor' /\ Low' \in Nat /\ Low' <= Low
    BY <1>1, <1>2 DEF Low, Boot
  <1>5. base' \in Based => base \in Based
    BY Zenon DEF Based
  <1>. QED
    BY <1>3, <1>4, <1>5, StillReady, Zenon

\* A step of the supervisor outside of a change.
LEMMA IdleReady ==
  ASSUME JuiceInv, ReadyInv, UNCHANGED <<link, log, db, cursor, src>>,
         sup.pc \notin Pending, sup'.pc \in {"scan", "clear", "connect", "ingest", "wait", "verify"},
         base' \in Based => base \in Based,
         sup'.pc = "clear" => base' = "Scanning",
         sup'.pc \notin {"scan", "clear"} => base' \in Based
  PROVE  ReadyInv'
  <1>1. src.pending = 0
    BY Zenon DEF JuiceInv, Steady
  <1>2. Standing'
    BY <1>1, ZenonT(30) DEF ReadyInv, Standing, Pending
  <1>3. Low' = Low /\ Low \in Nat /\ Low' <= Low
    BY DEF ReadyInv, Standing, Low, Pending
  <1>. QED
    BY <1>2, <1>3, StillReady, Zenon

\* The steps of the supervisor between scans and changes.
LEMMA IdleStepReady ==
  ASSUME JuiceInv, ReadyInv, ReadBaseline \/ BeginScan \/ IngestBegins \/ Quiescent \/ VerifyWalk
  PROVE  ReadyInv'
  <1>0. Whole
    BY InvFacts, Zenon
  <1>1. UNCHANGED <<link, log, db, cursor, src>> /\ sup.pc \notin Pending
    BY Zenon DEF ReadBaseline, BeginScan, IngestBegins, Quiescent, VerifyWalk, BySupervisor, volume, Pending
  <1>2. CASE ReadBaseline
    <2>1. sup'.pc = (IF NeedsScan THEN "scan" ELSE "connect") /\ base' = base
      BY <1>0, <1>2, Zenon DEF ReadBaseline, To, Steps, Whole
    <2>2. ~NeedsScan => base \in Based
      BY Zenon DEF NeedsScan, Based, JuiceInv, Streams, BaselineStates
    <2>. QED
      BY <1>1, <2>1, <2>2, IdleReady, Zenon
  <1>3. CASE BeginScan
    <2>1. sup'.pc = "clear" /\ base' = "Scanning"
      BY <1>0, <1>3, Zenon DEF BeginScan, To, Steps, Whole
    <2>. QED
      BY <1>1, <2>1, IdleReady, Zenon DEF Based
  <1>4. CASE IngestBegins
    <2>1. sup'.pc = "wait" /\ base' = base /\ sup.pc = "ingest"
      BY <1>0, <1>4, Zenon DEF IngestBegins, Steps, Whole
    <2>2. base \in Based
      BY <2>1, ZenonT(30) DEF ReadyInv, Standing
    <2>. QED
      BY <1>1, <2>1, <2>2, IdleReady, Zenon
  <1>5. CASE Quiescent
    <2>1. sup'.pc \in {"wait", "verify"} /\ base' \in {base, "Ready"} /\ sup.pc = "wait"
      BY <1>0, <1>5, ZenonT(30) DEF Quiescent, Steps, Whole
    <2>2. base \in Based
      BY <2>1, Zenon DEF ReadyInv, Standing
    <2>. QED
      BY <1>1, <2>1, <2>2, IdleReady, Zenon DEF Based
  <1>6. CASE VerifyWalk
    <2>1. sup'.pc = "verify" /\ base' = base /\ sup.pc = "verify"
      BY <1>0, <1>6, Zenon DEF VerifyWalk, Steps, Whole
    <2>2. base \in Based
      BY <2>1, Zenon DEF ReadyInv, Standing
    <2>. QED
      BY <1>1, <2>1, <2>2, IdleReady, Zenon
  <1>. QED
    BY <1>2, <1>3, <1>4, <1>5, <1>6, Zenon

\* Steps that end in a restart, and the comparison.
LEMMA RestartStepReady ==
  ASSUME JuiceInv, ReadyInv, Compare \/ ApplyFails \/ ReopenRefused \/ DaemonCrash \/ ScanFails \/ AckLost
  PROVE  ReadyInv'
  <1>0. Whole
    BY InvFacts, Zenon
  <1>1. UNCHANGED <<link, log, db>>
    BY Zenon DEF Compare, ApplyFails, ReopenRefused, DaemonCrash, ScanFails, AckLost, Fails, BySupervisor, volume
  <1>2. CASE Restarts
    <2>1. base' \in {base, "Invalid"} /\ (cursor' = cursor \/ (cursor' = src.pending /\ sup.pc = "commit"))
      BY Zenon DEF Compare, ApplyFails, ReopenRefused, DaemonCrash, ScanFails, AckLost, Fails, BySupervisor
    <2>. QED
      BY <1>1, <1>2, <2>1, RestartReady, Zenon
  <1>3. CASE Compare /\ ~Restarts
    <2>1. /\ sup' = [sup EXCEPT !.pc = "wait", !.verified = TRUE]
          /\ UNCHANGED <<base, src, cursor>> /\ sup.pc = "verify"
      BY <1>3, Zenon DEF Compare, Steps
    <2>2. sup'.pc = "wait"
      BY <1>0, <2>1, Zenon DEF Whole
    <2>3. base \in Based
      BY <2>1, Zenon DEF ReadyInv, Standing
    <2>. QED
      BY <1>1, <2>1, <2>2, <2>3, IdleReady, Zenon DEF Pending
  <1>. QED
    BY <1>2, <1>3, Zenon DEF ApplyFails, ReopenRefused, DaemonCrash, ScanFails, AckLost

\* The stream is opened, or closed by the agent, right behind the cursor.
LEMMA StreamReady ==
  ASSUME JuiceInv, ReadyInv, Connect \/ Reopen \/ AgentRestart
  PROVE  ReadyInv'
  <1>0. /\ Whole /\ src \in [open : BOOLEAN, next : Nat, last : Nat, pending : Nat]
        /\ cursor \in Nat /\ cursor # None
    BY InvFacts, CatalogAssumption, Zenon DEF ReadyInv, Standing
  <1>1. UNCHANGED <<link, log, db, base, cursor>>
    BY Zenon DEF Connect, Reopen, AgentRestart, Fails, BySupervisor, volume
  <1>2. CASE Connect \/ Reopen
    <2>1. sup.pc \in {"connect", "wait"} /\ src.pending = 0
      BY <1>2, Zenon DEF Connect, Reopen, Pending, JuiceInv, Steady
    <2>2. WatchFrom = cursor + 1
      BY <1>0, Zenon DEF WatchFrom
    <2>3. src'.next = cursor + 1 /\ src'.pending = 0
      BY <1>0, <1>2, <2>1, <2>2, ZenonT(30) DEF Connect, Reopen, Closed
    <2>4. sup'.pc \in {"scan", "ingest", "wait"}
      BY <1>0, <1>2, Zenon DEF Connect, AfterConnect, Reopen, To, Steps, Whole
    <2>5. base \in Based
      BY <2>1, ZenonT(30) DEF ReadyInv, Standing
    <2>6. Standing'
      BY <1>0, <1>1, <2>3, <2>4, <2>5, Zenon DEF Standing, Pending
    <2>7. Low' = cursor /\ Low = cursor /\ cursor <= cursor
      BY <1>0, <1>1, <2>1, <2>4 DEF Low
    <2>. QED
      BY <1>0, <1>1, <2>4, <2>6, <2>7, StillReady, Zenon
  <1>3. CASE AgentRestart
    <2>1. src' = [src EXCEPT !.open = FALSE] /\ sup' = sup
      BY <1>3, Zenon DEF AgentRestart, Fails
    <2>2. src'.open = FALSE /\ src'.pending = src.pending
      BY <1>0, <2>1, Zenon
    <2>3. Rec' = Rec /\ Low' = Low
      BY <1>1, <2>1, <2>2, Zenon DEF Rec, Low
    <2>4. Standing'
      BY <1>1, <2>1, <2>2, <2>3, Zenon DEF ReadyInv, Standing
    <2>5. Footing'
      BY <1>1, <2>1, <2>3, Zenon DEF ReadyInv, Footing, Met
    <2>. QED
      BY <1>1, <2>4, <2>5, Zenon DEF ReadyInv
  <1>. QED
    BY <1>2, <1>3, Zenon

\* The record behind the cursor becomes pending.
LEMMA ReceiveReady ==
  ASSUME JuiceInv, ReadyInv, Receive
  PROVE  ReadyInv'
  <1>0. /\ Whole /\ src \in [open : BOOLEAN, next : Nat, last : Nat, pending : Nat]
        /\ cursor \in Nat /\ src.next \in Nat
    BY InvFacts, Zenon DEF ReadyInv, Standing
  <1>1. /\ UNCHANGED <<link, log, db, base, cursor>> /\ sup.pc = "wait" /\ src.open
        /\ src' = [src EXCEPT !.next = src.next + 1, !.pending = src.next]
        /\ sup' = [sup EXCEPT !.pc = "apply", !.verified = FALSE]
    BY Zenon DEF Receive, volume, Steps
  <1>2. src.pending = 0 /\ src.next = cursor + 1 /\ base \in Based
    BY <1>1, Zenon DEF ReadyInv, Standing, JuiceInv, Steady, Pending
  <1>3. src'.pending = cursor + 1 /\ sup'.pc = "apply" /\ cursor + 1 # 0
    BY <1>0, <1>1, <1>2 DEF Whole
  <1>4. Standing'
    BY <1>0, <1>1, <1>2, <1>3, Zenon DEF Standing, Pending
  <1>5. Low' = cursor /\ Low = cursor /\ cursor <= cursor
    BY <1>0, <1>1, <1>3 DEF Low
  <1>. QED
    BY <1>0, <1>1, <1>3, <1>4, <1>5, StillReady, Zenon

\* An ack moves the cursor over the record that was just applied.
LEMMA AckReady ==
  ASSUME JuiceInv, ReadyInv, Ack
  PROVE  ReadyInv'
  <1>0. /\ Whole /\ src \in [open : BOOLEAN, next : Nat, last : Nat, pending : Nat]
        /\ cursor \in Nat /\ src.pending \in Nat
    BY InvFacts, Zenon DEF ReadyInv, Standing
  <1>1. UNCHANGED <<link, log, db, base>> /\ sup.pc = "commit"
    BY Zenon DEF Ack, BySupervisor, volume
  <1>2. CASE cursor' = cursor /\ Restarts
    BY <1>1, <1>2, RestartReady, Zenon
  <1>3. CASE /\ cursor' = src.pending /\ sup' = [sup EXCEPT !.pc = "wait"]
             /\ src' = [src EXCEPT !.last = src.pending, !.pending = 0]
    <2>1. src'.next = src.next /\ src'.pending = 0 /\ sup'.pc = "wait"
      BY <1>0, <1>3, Zenon DEF Whole
    <2>2. src.pending # 0 /\ src.next = src.pending + 1 /\ base \in Based
      BY <1>1, Zenon DEF JuiceInv, Steady, Streams, Pending, ReadyInv, Standing
    <2>3. Standing'
      BY <1>0, <1>1, <1>3, <2>1, <2>2, Zenon DEF Standing, Pending
    <2>4. Low' = src.pending /\ Low = src.pending /\ src.pending <= src.pending
      BY <1>0, <1>1, <1>3, <2>1 DEF Low
    <2>. QED
      BY <1>0, <1>1, <2>1, <2>3, <2>4, StillReady, Zenon
  <1>. QED
    BY <1>2, <1>3, Zenon DEF Ack, To, Steps

\* A scan starts from an empty catalog, with every name to visit.
LEMMA ClearReady ==
  ASSUME JuiceInv, ReadyInv, ClearCatalog
  PROVE  ReadyInv'
  <1>0. Whole /\ db \in Tables
    BY InvFacts, Zenon
  <1>1. /\ UNCHANGED <<link, log, base, cursor, src>> /\ sup.pc = "clear" /\ base = "Scanning"
        /\ db' = clear_scoped_catalog(db) /\ sup'.pc = "walk" /\ sup'.todo = Visits
    BY <1>0, Zenon DEF ClearCatalog, Steps, BySupervisor, volume, Whole, ReadyInv, Standing
  <1>2. \A p \in Places : db'.edge[p] = None
    BY <1>0, <1>1, ClearFacts, Zenon
  <1>3. src.pending = 0
    BY <1>1, Zenon DEF JuiceInv, Steady, Pending
  <1>4. Standing'
    BY <1>1, <1>3, ZenonT(30) DEF ReadyInv, Standing, Pending
  <1>5. ASSUME NEW p \in Places
        PROVE  \E i \in DOMAIN Visits : At1(Visits[i]) = p
    <2>1. p[2] \in Names /\ p = At1(p[2])
      BY Constants, Zenon
    <2>2. PICK i \in DOMAIN Visits : Visits[i] = p[2]
      BY <2>1, JuiceAssumption, Zenon
    <2>. QED
      BY <2>1, <2>2, Zenon
  <1>6. Footing'
    <2>1. \A p \in Places : Met(p)'
      BY <1>1, <1>2, <1>5, Zenon DEF Met
    <2>. QED
      BY <1>1, <2>1, Zenon DEF Footing, Based
  <1>7. Owned(log', db')
    BY <1>2, ZenonT(30) DEF Owned
  <1>. QED
    BY <1>1, <1>4, <1>6, <1>7, Zenon DEF ReadyInv

\* A visit finds what the last record left at the name.
LEMMA WalkReady ==
  ASSUME LinksFit, JuiceInv, ReadyInv, Walk
  PROVE  ReadyInv'
  <1>0. /\ Whole /\ db \in Tables /\ VolumeTypes /\ sup.todo \in Seq(Names) /\ Len(log) \in Nat
        /\ cursor \in Nat /\ cursor <= Len(log)
    BY InvFacts, CatalogAssumption, Zenon DEF JuiceInv, Steady, Data, ReadyInv, Standing, Stored
  <1>1. /\ UNCHANGED <<link, log, base, cursor, src>> /\ sup.pc = "walk" /\ sup.todo # <<>>
        /\ db' = Scanned(db, At1(Head(sup.todo))) /\ sup'.pc = "walk" /\ sup'.todo = Tail(sup.todo)
    BY <1>0, Zenon DEF Walk, Steps, BySupervisor, volume, Whole
  <1>2. Head(sup.todo) \in Names /\ Head(sup.todo) = sup.todo[1]
    BY <1>0, <1>1
  <1>3. PICK p \in Places : p = At1(Head(sup.todo))
    BY <1>2, Constants, Zenon
  <1>4. /\ link[p] = None => db' = db
        /\ link[p] # None => db'.edge[p] = link[p]
        /\ \A q \in Places : q # p => db'.edge[q] = db.edge[q]
        /\ link[p] # None => db'.entry[link[p]] # None
        /\ \A x \in Objects : db.entry[x] # None => db'.entry[x] # None
    BY <1>0, <1>1, <1>3, ScannedFacts
  <1>5. Held(log, p, Len(log), link[p]) /\ Len(log) \in cursor..Len(log)
    BY <1>0 DEF ReadyInv, Past
  <1>6. src.pending = 0 /\ base = "Scanning"
    BY <1>1, ZenonT(30) DEF JuiceInv, Steady, Pending, ReadyInv, Standing
  <1>7. Standing'
    BY <1>1, <1>6, ZenonT(30) DEF ReadyInv, Standing, Pending
  <1>8. ASSUME NEW q \in Places, NEW i \in DOMAIN sup.todo, At1(sup.todo[i]) = q, q # p
        PROVE  \E j \in DOMAIN Tail(sup.todo) : At1(Tail(sup.todo)[j]) = q
    <2>1. i # 1 /\ i \in 1..Len(sup.todo) /\ Len(sup.todo) \in Nat
      BY <1>0, <1>2, <1>3, <1>8
    <2>2. i - 1 \in DOMAIN Tail(sup.todo) /\ Tail(sup.todo)[i - 1] = sup.todo[i]
      BY <1>0, <1>1, <2>1
    <2>. QED
      BY <1>8, <2>2, Zenon
  <1>9. ASSUME NEW q \in Places
        PROVE  Met(q)'
    <2>1. Met(q)
      BY <1>1, ZenonT(30) DEF ReadyInv, Footing
    <2>2. CASE \E t \in cursor..Len(log) : Held(log, q, t, db'.edge[q])
      BY <1>1, <2>2, Zenon DEF Met
    <2>3. CASE q # p
      <3>1. db'.edge[q] = db.edge[q]
        BY <1>4, <2>3, Zenon
      <3>2. CASE db.edge[q] = None /\ \E i \in DOMAIN sup.todo : At1(sup.todo[i]) = q
        <4>1. \E j \in DOMAIN Tail(sup.todo) : At1(Tail(sup.todo)[j]) = q
          BY <1>8, <2>3, <3>2, Zenon
        <4>. QED
          BY <1>1, <3>1, <3>2, <4>1, Zenon DEF Met
      <3>. QED
        BY <2>1, <2>2, <3>1, <3>2, Zenon DEF Met
    <2>4. CASE q = p /\ link[p] # None
      BY <1>4, <1>5, <2>2, <2>4, Zenon
    <2>5. CASE q = p /\ link[p] = None
      BY <1>4, <1>5, <2>1, <2>2, <2>5, Zenon DEF Met
    <2>. QED
      BY <2>3, <2>4, <2>5, Zenon
  <1>10. Footing'
    BY <1>1, <1>6, <1>9, Zenon DEF Footing, Based
  <1>11. Owned(log', db')
    <2> SUFFICES ASSUME NEW q \in Places, db'.edge[q] # None, ~LinkedIn(log, db'.edge[q])
                 PROVE  db'.entry[db'.edge[q]] # None
      BY <1>1, ZenonT(30) DEF Owned
    <2>1. CASE db'.edge[q] = db.edge[q]
      <3>1. db.edge[q] \in Objects /\ db.entry[db.edge[q]] # None
        BY <1>0, <2>1, Zenon DEF Tables, ReadyInv, Owned
      <3>. QED
        BY <1>4, <2>1, <3>1, ZenonT(30)
    <2>2. CASE db'.edge[q] # db.edge[q]
      BY <1>4, <2>2, Zenon
    <2>. QED
      BY <2>1, <2>2, Zenon
  <1>. QED
    BY <1>1, <1>7, <1>10, <1>11, Zenon DEF ReadyInv

\* At the end of a scan every name was visited.
LEMMA EndWalkReady ==
  ASSUME JuiceInv, ReadyInv, EndWalk
  PROVE  ReadyInv'
  <1>0. Whole
    BY InvFacts, Zenon
  <1>1. /\ UNCHANGED <<link, log, db, cursor, src>> /\ sup.pc = "walk" /\ sup.todo = <<>>
        /\ base' = "CatchingUp" /\ sup'.pc \in {"ingest", "connect"}
    BY <1>0, Zenon DEF EndWalk, Steps, BySupervisor, volume, Whole
  <1>2. src.pending = 0
    BY <1>1, Zenon DEF JuiceInv, Steady, Pending
  <1>3. Standing'
    BY <1>1, <1>2, Zenon DEF ReadyInv, Standing, Pending, Based
  <1>4. Low' = cursor
    BY <1>1, Zenon DEF Low
  <1>5. Sound(log, db, cursor)
    <2>1. DOMAIN sup.todo = {}
      BY <1>1
    <2>. QED
      BY <1>1, <2>1, Zenon DEF ReadyInv, Footing, Met, Sound
  <1>6. Footing'
    BY <1>1, <1>4, <1>5, Zenon DEF Footing
  <1>. QED
    BY <1>1, <1>3, <1>6, Zenon DEF ReadyInv

\* A statement of a change: what is left to show of it.
LEMMA StoresReady ==
  ASSUME JuiceInv, ReadyInv, NEW new \in Tables, NEW pc \in {"unedge", "edge", "commit"}, Stores(new, pc),
         sup.pc \in {"apply", "unedge", "edge"},
         pc \in {"unedge", "edge"} => new.entry[Rec.obj] # None,
         pc = "edge" /\ Rec.op = "MOVE" => new.edge[Rec.from] = None,
         Sound(log, new, IF pc = "commit" THEN src.pending ELSE src.pending - 1),
         Owned(log, new)
  PROVE  ReadyInv'
  <1>0. Whole /\ cursor \in Nat /\ src.pending = cursor + 1 /\ base \in Based
    BY InvFacts, Zenon DEF ReadyInv, Standing, JuiceInv, Steady, Pending
  <1>1. /\ UNCHANGED <<link, log, cursor, base, src>> /\ db' = new
        /\ sup' = [sup EXCEPT !.pc = pc]
    BY Zenon DEF Stores, BySupervisor, volume, To, Steps
  <1>2. sup'.pc = pc /\ Rec' = Rec
    BY <1>0, <1>1, Zenon DEF Whole, Rec
  <1>3. Standing'
    <2>1. cursor' \in Nat /\ src'.pending = cursor' + 1 /\ src'.pending # 0 /\ base' \in Based
      BY <1>0, <1>1
    <2>. QED
      BY <1>1, <1>2, <2>1, Zenon DEF Standing
  <1>4. Low' = IF pc = "commit" THEN src.pending ELSE src.pending - 1
    BY <1>0, <1>1, <1>2 DEF Low
  <1>5. Footing'
    BY <1>1, <1>2, <1>4, Zenon DEF Footing
  <1>. QED
    BY <1>1, <1>3, <1>5, Zenon DEF ReadyInv

\* The first statement of a change.
LEMMA ApplyReady ==
  ASSUME LinksFit, JuiceInv, ReadyInv, Apply
  PROVE  ReadyInv'
  <1>0. Stores(Written, Onward) /\ sup.pc = "apply" /\ ~ApplyErrs /\ Rec.op \in Ops
    BY ApplyIs, Zenon
  <1>1. /\ db \in Tables /\ log \in Seq(Records) /\ Shapes(Rec) /\ Rec = log[src.pending]
        /\ src.pending \in 1..Len(log) /\ Past(log, link) /\ Owned(log, db)
    BY <1>0, InvFacts, RecFacts, Zenon DEF Pending, JuiceInv, Data, VolumeTypes, ReadyInv
  <1>2. PICK k \in 1..Len(log) : k = src.pending
    BY <1>1, Zenon
  <1>3. Sound(log, db, k - 1)
    <2>1. cursor \in Nat /\ src.pending = cursor + 1 /\ base \in Based
      BY <1>0, InvFacts, Zenon DEF ReadyInv, Standing, JuiceInv, Steady, Pending
    <2>2. Low = k - 1
      BY <1>0, <1>2, <2>1 DEF Low
    <2>. QED
      BY <2>1, <2>2, Zenon DEF ReadyInv, Footing
  <1>4. PICK e \in Tables : e = Written
    BY <1>0, WrittenFacts, Zenon
  <1>5. CASE Rec.op \in {"CREATE", "MOVE"}
    <2>1. Onward \in {"unedge", "edge"} /\ (Onward = "edge" => Rec.op # "MOVE")
      BY <1>5, Zenon DEF Onward
    <2>2. /\ e.edge = db.edge /\ e.entry[Rec.obj] # None
          /\ \A x \in Objects : db.entry[x] # None => e.entry[x] # None
      BY <1>0, <1>4, <1>5, WrittenFacts, Zenon
    <2>3. Sound(log, e, k - 1)
      BY <1>3, <2>2, Zenon DEF Sound
    <2>4. Owned(log, e)
      BY <1>1, <2>2, Zenon DEF Owned, Tables
    <2>5. PICK pc \in {"unedge", "edge", "commit"} : pc = Onward
      BY <2>1, Zenon
    <2>. QED
      BY <1>0, <1>2, <1>4, <2>1, <2>2, <2>3, <2>4, <2>5, StoresReady, Zenon
  <1>6. CASE Rec.op \in {"WRITE", "SET", "LINK", "UNLINK"}
    <2>1. Onward = "commit"
      BY <1>6, Zenon DEF Onward
    <2>2. Sound(log, e, k) /\ Owned(log, e)
      <3>1. CASE Rec.op \in {"WRITE", "SET"}
        <4>1. e.edge = db.edge /\ \A x \in Objects : db.entry[x] # None => e.entry[x] # None
          BY <1>0, <1>4, <3>1, WrittenFacts, Zenon
        <4>2. \A p \in Places : ~Touches(log[k], p)
          BY <1>1, <1>2, <3>1, Constants, Zenon DEF Shapes, Touches
        <4>3. Sound(log, e, k)
          BY <1>1, <1>3, <4>1, <4>2, SoundTaken, Zenon
        <4>. QED
          BY <1>1, <4>1, <4>3, Zenon DEF Owned, Tables
      <3>2. CASE Rec.op = "LINK"
        <4>1. /\ e.edge[Rec.to] = Rec.obj
              /\ \A q \in Places : q # Rec.to => e.edge[q] = db.edge[q]
              /\ \A x \in Objects : db.entry[x] # None => e.entry[x] # None
          BY <1>0, <1>4, <3>2, WrittenFacts, ZenonT(30)
        <4>2. /\ Rec.to \in Places /\ Rec.from = NoPlace
              /\ \A p \in Places : Touches(log[k], p) <=> p = Rec.to
          BY <1>1, <1>2, <3>2, Constants, Zenon DEF Shapes, Touches
        <4>3. Leaves(log[k], Rec.to) = Rec.obj
          BY <1>1, <1>2, Zenon DEF Leaves
        <4>4. Sound(log, e, k)
          BY <1>1, <1>3, <4>1, <4>2, <4>3, SoundTaken, Zenon
        <4>5. LinkedIn(log, Rec.obj)
          BY <1>1, <3>2 DEF LinkedIn
        <4>6. Owned(log, e)
          BY <1>1, <4>1, <4>5, Zenon DEF Owned, Tables
        <4>. QED
          BY <4>4, <4>6, Zenon
      <3>3. CASE Rec.op = "UNLINK"
        <4>1. Rec.obj \in Objects /\ Rec.from \in Places /\ e = apply_scoped_unlink(db, Rec.from, Rec.obj, FALSE)
          BY <1>1, <1>4, <3>3, Zenon DEF Shapes, Written
        <4>2. Unlinked(e, db, Rec.from, Rec.obj)
          BY <1>1, <4>1, UnlinkFacts, Zenon
        <4>3. log[k].op = "UNLINK" /\ Shapes(log[k]) /\ Unlinked(e, db, log[k].from, log[k].obj)
          BY <1>1, <1>2, <3>3, <4>2, Zenon
        <4>. QED
          BY <1>1, <1>3, <4>3, UnlinkSound, UnlinkOwned, Zenon
      <3>. QED
        BY <1>6, <3>1, <3>2, <3>3, Zenon
    <2>. QED
      BY <1>0, <1>2, <1>4, <2>1, <2>2, StoresReady, Zenon
  <1>. QED
    BY <1>0, <1>5, <1>6, Zenon DEF Ops

\* The other statements of a change.
LEMMA EdgesReady ==
  ASSUME JuiceInv, ReadyInv, MoveUnlinks \/ AddEdge
  PROVE  ReadyInv'
  <1>0. sup.pc \in {"unedge", "edge"}
    BY Zenon DEF MoveUnlinks, AddEdge
  <1>1. /\ db \in Tables /\ log \in Seq(Records) /\ Shapes(Rec) /\ Rec = log[src.pending]
        /\ src.pending \in 1..Len(log) /\ Owned(log, db)
    BY <1>0, InvFacts, RecFacts, Zenon DEF Pending, JuiceInv, Data, VolumeTypes, ReadyInv
  <1>2. PICK k \in 1..Len(log) : k = src.pending
    BY <1>1, Zenon
  <1>3. Sound(log, db, k - 1)
    <2>1. cursor \in Nat /\ src.pending = cursor + 1 /\ base \in Based
      BY <1>0, InvFacts, Zenon DEF ReadyInv, Standing, JuiceInv, Steady, Pending
    <2>2. Low = k - 1
      BY <1>0, <1>2, <2>1 DEF Low
    <2>. QED
      BY <2>1, <2>2, Zenon DEF ReadyInv, Footing
  <1>4. /\ Rec.op \in {"CREATE", "MOVE"} /\ Rec.obj \in Objects /\ Rec.to \in Places
        /\ (Rec.op = "MOVE" => Rec.from \in Places /\ Rec.from # Rec.to)
        /\ (Rec.op = "CREATE" => Rec.from = NoPlace)
        /\ db.entry[Rec.obj] # None
    BY <1>0, <1>1, ZenonT(30) DEF JuiceInv, Steady, Shapes, ReadyInv, Standing
  <1>5. CASE MoveUnlinks
    <2>1. sup.pc = "unedge" /\ Stores(remove_scoped_namespace_edge(db, Rec.from), "edge")
      BY <1>5, Zenon DEF MoveUnlinks
    <2>2. Rec.op = "MOVE"
      BY <2>1, Zenon DEF JuiceInv, Steady
    <2>3. PICK e \in Tables : e = remove_scoped_namespace_edge(db, Rec.from)
      BY <1>1, <1>4, <2>2, EdgeRemoved, ZenonT(30)
    <2>4. /\ e.entry = db.entry /\ e.edge[Rec.from] = None
          /\ \A q \in Places : q # Rec.from => e.edge[q] = db.edge[q]
      BY <1>1, <1>4, <2>2, <2>3, EdgeRemoved
    <2>5. Touches(log[k], Rec.from) /\ Leaves(log[k], Rec.from) = None
      BY <1>1, <1>2, <1>4, <2>2, Zenon DEF Touches, Leaves
    <2>6. Sound(log, e, k - 1)
      BY <1>1, <1>3, <2>4, <2>5, SoundMeanwhile, Zenon
    <2>7. Owned(log, e)
      BY <1>1, <2>4, Zenon DEF Owned
    <2>. QED
      BY <1>2, <1>4, <2>1, <2>3, <2>4, <2>6, <2>7, StoresReady, Zenon
  <1>6. CASE AddEdge
    <2>1. sup.pc = "edge" /\ Stores(upsert_scoped_namespace_edge(db, Rec.to, Rec.obj), "commit")
      BY <1>6, Zenon DEF AddEdge
    <2>2. PICK e \in Tables : e = upsert_scoped_namespace_edge(db, Rec.to, Rec.obj)
      BY <1>1, <1>4, EdgeUpserted, ZenonT(30)
    <2>3. /\ e.entry = db.entry /\ e.edge[Rec.to] = Rec.obj
          /\ \A q \in Places : q # Rec.to => e.edge[q] = db.edge[q]
      BY <1>1, <1>4, <2>2, EdgeUpserted
    <2>4. Leaves(log[k], Rec.to) = Rec.obj
      BY <1>1, <1>2, Zenon DEF Leaves
    <2>5. ASSUME NEW p \in Places, Touches(log[k], p)
          PROVE  e.edge[p] = Leaves(log[k], p)
      <3>1. CASE p = Rec.to
        BY <2>3, <2>4, <3>1, Zenon
      <3>2. CASE p # Rec.to
        <4>1. p = Rec.from /\ Rec.op = "MOVE" /\ Leaves(log[k], p) = None
          BY <1>1, <1>2, <1>4, <2>5, <3>2, Constants, Zenon DEF Touches, Leaves
        <4>2. db.edge[Rec.from] = None
          BY <2>1, <4>1, Zenon DEF ReadyInv, Standing
        <4>. QED
          BY <2>3, <3>2, <4>1, <4>2, Zenon
      <3>. QED
        BY <3>1, <3>2, Zenon
    <2>6. \A p \in Places : ~Touches(log[k], p) => e.edge[p] = db.edge[p]
      BY <1>1, <1>2, <2>3, Zenon DEF Touches
    <2>7. Sound(log, e, k)
      BY <1>1, <1>3, <2>5, <2>6, SoundTaken, Zenon
    <2>8. Owned(log, e)
      BY <1>1, <1>4, <2>3, Zenon DEF Owned
    <2>. QED
      BY <1>2, <2>1, <2>2, <2>7, <2>8, StoresReady, Zenon
  <1>. QED
    BY <1>5, <1>6, Zenon

\* Every step keeps the catalog sound.
LEMMA ReadyStep ==
  ASSUME LinksFit, JuiceInv, ReadyInv, [Next]_vars
  PROVE  ReadyInv'
  <1>1. CASE UNCHANGED vars
    <2>1. UNCHANGED <<link, log, db, base, cursor, src, sup>>
      BY <1>1, Zenon DEF vars
    <2>2. Standing' /\ Footing'
      BY <2>1, Zenon DEF ReadyInv, Standing, Footing, Low, Met, Rec
    <2>. QED
      BY <2>1, <2>2, Zenon DEF ReadyInv
  <1>. QED
    BY <1>1, OperationReady, IdleStepReady, RestartStepReady, StreamReady, ReceiveReady, AckReady,
       ClearReady, WalkReady, EndWalkReady, ApplyReady, EdgesReady, Zenon DEF Next, Supervisor, Fault

\* A sound catalog is complete at the end of the log.
LEMMA ReadyComplete ==
  ASSUME JuiceInv, ReadyInv
  PROVE  ReadyIsComplete
  <1> SUFFICES ASSUME CaughtUp
               PROVE  /\ list_scoped_namespace_edges = UNION {Mounted(p) : p \in Places}
                      /\ \A p \in Places : db.edge[p] # None => Linked(db.edge[p]) \/ db.entry[db.edge[p]] # None
    BY Zenon DEF ReadyIsComplete
  <1>1. /\ Len(log) \in Nat /\ cursor \in Nat /\ cursor <= Len(log) /\ src.next \in Nat
        /\ src.next > Len(log) /\ base = "Ready" /\ sup.pc = "wait" /\ src.open
    BY InvFacts, CatalogAssumption, Zenon DEF CaughtUp, ReadyInv, Standing, Stored
  <1>2. src.next = cursor + 1
    BY <1>1, Zenon DEF ReadyInv, Standing, JuiceInv, Steady, Pending
  <1>3. cursor = Len(log) /\ Low = Len(log)
    BY <1>1, <1>2 DEF Low
  <1>4. ASSUME NEW p \in Places
        PROVE  db.edge[p] = link[p]
    <2>1. PICK t \in Len(log)..Len(log) : Held(log, p, t, db.edge[p])
      BY <1>1, <1>3, Zenon DEF ReadyInv, Footing, Sound, Based
    <2>2. t = Len(log) /\ Held(log, p, Len(log), link[p])
      BY <1>1 DEF ReadyInv, Past
    <2>. QED
      BY <1>1, <2>1, <2>2, HeldUnique, Zenon
  <1>5. list_scoped_namespace_edges = UNION {Mounted(p) : p \in Places}
    BY <1>4, Zenon DEF list_scoped_namespace_edges, Mounted
  <1>. QED
    BY <1>5, Zenon DEF ReadyInv, Owned, LinkedIn, Linked

-----------------------------------------------------------------------------
(* The theorems.                                                           *)

INSTANCE FiniteSetTheorems

\* A file has finitely many names, so its link count fits.
LEMMA LinkCountFits == LinksFit
  <1> SUFFICES ASSUME NEW P \in SUBSET Places PROVE LinkCount(P) \in 0..MaxLinks
    BY Zenon DEF LinksFit
  <1>1. IsFiniteSet({Root} \X Names) /\ Places = {Root} \X Names
    BY CatalogAssumption, JuiceAssumption, FS_Singleton, FS_Product, Zenon DEF Places
  <1>2. Cardinality(P) \in Nat
    BY <1>1, FS_Subset, FS_CardinalityType, Zenon
  <1>. QED
    BY <1>2, CatalogAssumption DEF LinkCount

(* The types hold in every state of every volume, also when the agent      *)
(* starts without a cursor: no row or edge is malformed, the cursor file,  *)
(* the acks and the stream stay within the log, and a record is pending    *)
(* exactly while it is applied or committed (juicefs.rs, ingest_loop).     *)
THEOREM JuiceTypes == Spec => []TypeOK
  <1>1. Init => JuiceInv
    BY TypesStart, Zenon
  <1>2. JuiceInv /\ [Next]_vars => JuiceInv'
    BY LinkCountFits, TypesStep, Zenon
  <1>3. JuiceInv => TypeOK
    BY InvTypes, Zenon
  <1>. QED
    BY <1>1, <1>2, <1>3, PTL DEF Spec

(* A baseline that is published as ready is complete: whatever the scans   *)
(* saw of a volume that changed under them, whatever was delivered twice   *)
(* and whatever crashed, once no record is left to receive the edges of    *)
(* the catalog are the names of the volume, and each leads to a row unless *)
(* its file had hard links (run_juicefs_baseline, apply_juicefs_change,    *)
(* the agent's Watch and Ack).  The agent has a cursor: without one, Watch *)
(* starts at the tail of the log, behind changes that the scan has missed. *)
THEOREM ReadyMeansComplete == HasCursor => (Spec => []ReadyIsComplete)
  <1> SUFFICES ASSUME HasCursor
               PROVE  Spec => []ReadyIsComplete
    BY Zenon
  <1>1. Init => JuiceInv /\ ReadyInv
    BY TypesStart, ReadyStarts, Zenon
  <1>2. JuiceInv /\ ReadyInv /\ [Next]_vars => JuiceInv' /\ ReadyInv'
    BY LinkCountFits, TypesStep, ReadyStep, Zenon
  <1>3. JuiceInv /\ ReadyInv => ReadyIsComplete
    BY ReadyComplete, Zenon
  <1>. QED
    BY <1>1, <1>2, <1>3, PTL DEF Spec
=============================================================================
