--------------------------- MODULE PipelineProofs ---------------------------
(***************************************************************************)
(* Safety of changelog ingest for any number of files, records, listeners  *)
(* and any channel and batch size.  First types, purges, the cursor, and   *)
(* the parts of the inductive invariant that do not concern the order of   *)
(* events (the shape of the changelog, the range of all positions, the     *)
(* control states, the stability of what the catalog reflects, and the     *)
(* completeness of the drain); then the order of events, from which the    *)
(* durable cursor covers only what the catalog reflects, and the pipeline  *)
(* implements the abstract change stream.                                  *)
(***************************************************************************)
EXTENDS PipelineInv, TLAPS

(* The deduplicator holds nothing but records it was given. *)
LEMMA PushBound ==
  ASSUME NEW L, NEW Q, NEW i
  PROVE  push(L, Q, i) \subseteq Q \cup {i}
BY Zenon DEF push, LatestPartner, QueueOf

(* The checkpoints process_acks chooses from are numbers. *)
LEMMA CheckpointsType ==
  ASSUME TypeOK, NEW g \in Listeners
  PROVE  /\ Checkpoints(g) \subseteq Nat
         /\ pend[g] \in Checkpoints(g)
         /\ \A a \in Checkpoints(g) :
              a = pend[g] \/ \E j \in 1..Len(acks[g]) : a = acks[g][j]
<1>1. pend[g] \in Nat /\ acks[g] \in Seq(Nat)
  BY Zenon DEF TypeOK
<1>2. \A j \in 1..Len(acks[g]) : acks[g][j] \in Nat
  BY <1>1
<1> QED
  BY <1>1, <1>2, Zenon DEF Checkpoints

-----------------------------------------------------------------------------
(* Type correctness *)

(* The types hold at the start (run_polling_loop, ingest_loop before their first step). *)
LEMMA TypeInit == Init => TypeOK
<1> SUFFICES ASSUME Init PROVE TypeOK
  BY Zenon
<1>1. events \in [Listeners -> Seq(SUBSET Nat)] /\ acks \in [Listeners -> Seq(Nat)]
  BY DEF Init, All
<1>2. log \in Seq(Record)
  BY DEF Init
<1> QED
  BY <1>1, <1>2, Zenon DEF Init, TypeOK, All, ListenerPcs, IngestPcs

(* A listener that returns leaves every variable with its type. *)
LEMMA ReturnType ==
  ASSUME TypeOK, NEW g \in Listeners, Return(g),
         UNCHANGED <<log, cleared, cursor, catalog, events, gen, cpc, ready, cur,
                     cstat, cancelled>>
  PROVE  TypeOK'
<1>1. /\ pc' \in [Listeners -> ListenerPcs]
      /\ acks' \in [Listeners -> Seq(Nat)]
  <2>1. pc \in [Listeners -> ListenerPcs] /\ acks \in [Listeners -> Seq(Nat)]
    BY Zenon DEF TypeOK
  <2>2. <<>> \in Seq(Nat)
    OBVIOUS
  <2> QED
    BY <2>1, <2>2, Zenon DEF Return, ListenerPcs
<1>2. /\ pos' \in [Listeners -> Nat]
      /\ seen' \in [Listeners -> Nat]
      /\ pend' \in [Listeners -> Nat]
      /\ last' \in [Listeners -> Nat]
  BY Zenon DEF Return, TypeOK
<1>3. /\ batch' \in [Listeners -> SUBSET Nat]
      /\ out' \in [Listeners -> SUBSET Nat]
  BY Zenon DEF Return, TypeOK
<1> QED
  BY <1>1, <1>2, <1>3, Zenon DEF TypeOK

(* Taking the acks out of the channel keeps the types (process_acks). *)
LEMMA TakeAcksType ==
  ASSUME TypeOK, NEW g \in Listeners, NEW idx \in Nat, TakeAcks(g, idx)
  PROVE  acks' \in [Listeners -> Seq(Nat)] /\ pend' \in [Listeners -> Nat]
<1>1. acks \in [Listeners -> Seq(Nat)] /\ pend \in [Listeners -> Nat]
  BY Zenon DEF TypeOK
<1>2. <<>> \in Seq(Nat)
  OBVIOUS
<1> QED
  BY <1>1, <1>2, Zenon DEF TakeAcks

(* Every step of a listener keeps the types (run_polling_loop, process_acks). *)
LEMMA TypeListener ==
  ASSUME TypeOK, NEW g \in Listeners, ListenerNext(g)
  PROVE  TypeOK'
<1> USE DEF TypeOK, mdtVars, ingestVars
<1>1. CASE Open(g)
  BY <1>1, Zenon DEF Open, ListenerPcs
<1>2. CASE SeeCancel(g)
  BY <1>2, Zenon DEF SeeCancel, ListenerPcs
<1>3. CASE Recv(g)
  <2> DEFINE i == Larger(pos[g], cleared) + 1
             b == push(log, batch[g], i)
  <2>1. i \in Nat
    <3>1. pos[g] \in Nat /\ cleared \in Nat
      BY Zenon
    <3> HIDE DEF TypeOK
    <3> QED
      BY <3>1 DEF Larger
  <2>2. b \in SUBSET Nat
    <3>1. batch[g] \in SUBSET Nat
      BY Zenon
    <3> HIDE DEF TypeOK, i
    <3> QED
      BY <2>1, <3>1, PushBound
  <2> HIDE DEF i, b
  <2>3. /\ pos' = [pos EXCEPT ![g] = i]
        /\ \/ UNCHANGED <<pc, seen, batch, out>>
           \/ /\ seen' = [seen EXCEPT ![g] = i]
              /\ \/ /\ pc' = [pc EXCEPT ![g] = "send"]
                    /\ batch' = [batch EXCEPT ![g] = {}]
                    /\ out' = [out EXCEPT ![g] = b]
                 \/ /\ batch' = [batch EXCEPT ![g] = b]
                    /\ UNCHANGED <<pc, out>>
        /\ UNCHANGED <<log, cleared, cursor, catalog, events, acks, pend, last,
                       gen, cpc, ready, cur, cstat, cancelled>>
    BY <1>3, Zenon DEF Recv, i, b
  <2>4. /\ pc' \in [Listeners -> ListenerPcs] /\ pos' \in [Listeners -> Nat]
        /\ seen' \in [Listeners -> Nat]
    <3>1. "send" \in ListenerPcs
      BY Zenon DEF ListenerPcs
    <3>2. pc \in [Listeners -> ListenerPcs] /\ pos \in [Listeners -> Nat] /\ seen \in [Listeners -> Nat]
      BY Zenon
    <3> HIDE DEF TypeOK
    <3> QED
      BY <2>1, <2>3, <3>1, <3>2, Zenon
  <2>5. batch' \in [Listeners -> SUBSET Nat] /\ out' \in [Listeners -> SUBSET Nat]
    BY <2>2, <2>3, Zenon
  <2> QED
    BY <2>3, <2>4, <2>5, Zenon
<1>4. CASE EndDrain(g)
  BY <1>4, Zenon DEF EndDrain, ListenerPcs
<1>5. CASE Send(g)
  <2>1. events' \in [Listeners -> Seq(SUBSET Nat)]
    <3>1. /\ events \in [Listeners -> Seq(SUBSET Nat)] /\ out[g] \in SUBSET Nat
          /\ events' = [events EXCEPT ![g] = Append(@, out[g])]
      BY <1>5, Zenon DEF Send
    <3> HIDE DEF TypeOK
    <3>2. Append(events[g], out[g]) \in Seq(SUBSET Nat)
      BY <3>1
    <3> QED
      BY <3>1, <3>2, Zenon
  <2>2. pc' \in [Listeners -> ListenerPcs] /\ out' \in [Listeners -> SUBSET Nat]
    BY <1>5, Zenon DEF Send, ListenerPcs
  <2> QED
    BY <1>5, <2>1, <2>2, Zenon DEF Send
<1>6. CASE SendToClosed(g)
  BY <1>6, ReturnType, Zenon DEF SendToClosed
<1>7. CASE KeepCheckpoint(g)
  <2>1. PICK idx \in Checkpoints(g) : TakeAcks(g, idx)
    BY <1>7, Zenon DEF KeepCheckpoint
  <2>2. idx \in Nat
    BY <2>1, CheckpointsType, Zenon
  <2>3. /\ acks' \in [Listeners -> Seq(Nat)]
        /\ pend' \in [Listeners -> Nat]
    BY <2>1, <2>2, TakeAcksType, Zenon
  <2>4. pc' \in [Listeners -> ListenerPcs]
    BY <1>7, Zenon DEF KeepCheckpoint, Resume, ListenerPcs
  <2> QED
    BY <1>7, <2>3, <2>4, Zenon DEF KeepCheckpoint
<1>8. CASE PersistCursor(g)
  <2>1. PICK idx \in Checkpoints(g) :
          TakeAcks(g, idx) /\ cursor' = CommittedCursor(idx)
    BY <1>8, Zenon DEF PersistCursor
  <2>2. idx \in Nat
    BY <2>1, CheckpointsType, Zenon
  <2>3. /\ acks' \in [Listeners -> Seq(Nat)]
        /\ pend' \in [Listeners -> Nat]
        /\ cursor' \in Nat
    <3>1. cursor \in Nat
      BY Zenon
    <3> HIDE DEF TypeOK
    <3> QED
      BY <2>1, <2>2, <3>1, TakeAcksType, Zenon DEF CommittedCursor, Larger
  <2>4. pc' \in [Listeners -> ListenerPcs]
    BY <1>8, Zenon DEF PersistCursor, ListenerPcs
  <2> QED
    BY <1>8, <2>3, <2>4, Zenon DEF PersistCursor
<1>9. CASE ClearChangelog(g)
  BY <1>9, Zenon DEF ClearChangelog, Larger, Resume, ListenerPcs
<1>10. CASE ClearFails(g)
  BY <1>10, Zenon DEF ClearFails, Resume, ListenerPcs
<1>11. CASE ListenerEnds(g)
  BY <1>11, ReturnType, Zenon DEF ListenerEnds
<1> QED
  BY <1>1, <1>2, <1>3, <1>4, <1>5, <1>6, <1>7, <1>8, <1>9, <1>10, <1>11, Zenon
  DEF ListenerNext

(* Every step of the ingest loop keeps the types (ingest_loop). *)
LEMMA TypeIngest ==
  ASSUME TypeOK, IngestNext
  PROVE  TypeOK'
<1> USE DEF TypeOK, mdtVars, listenerVars, IngestPcs
<1>1. CASE NextBatch
  <2>1. events[gen] \in Seq(SUBSET Nat)
    BY Zenon
  <2>2. CASE ready # {}
    BY <1>1, <2>2, Zenon DEF NextBatch, Deliver
  <2>3. CASE ready = {}
    <3>1. events[gen] # <<>> /\ events' = [events EXCEPT ![gen] = Tail(@)]
      BY <1>1, <2>3, Zenon DEF NextBatch
    <3>2. /\ Head(events[gen]) \in SUBSET Nat
          /\ Tail(events[gen]) \in Seq(SUBSET Nat)
      BY <2>1, <3>1
    <3>3. events' \in [Listeners -> Seq(SUBSET Nat)]
      BY <3>1, <3>2, Zenon
    <3> QED
      BY <1>1, <2>3, <3>2, <3>3, Zenon DEF NextBatch, Deliver
  <2> QED
    BY <2>2, <2>3, Zenon
<1>2. ASSUME IngestReturns, UNCHANGED <<mdtVars, cursor, catalog, listenerVars, cancelled>>
      PROVE  TypeOK'
  <2>1. events' \in [Listeners -> Seq(SUBSET Nat)]
    <3>1. events \in [Listeners -> Seq(SUBSET Nat)] /\ <<>> \in Seq(SUBSET Nat)
      OBVIOUS
    <3> HIDE DEF TypeOK
    <3> QED
      BY <1>2, <3>1, Zenon DEF IngestReturns
  <2> QED
    BY <1>2, <2>1, Zenon DEF IngestReturns
<1>3. CASE StatEntry
  <2>1. cstat' \in Nat
    <3>1. Len(log) \in Nat
      OBVIOUS
    <3> HIDE DEF TypeOK
    <3> QED
      BY <1>3, <3>1 DEF StatEntry
  <2> QED
    BY <1>3, <2>1, Zenon DEF StatEntry
<1>4. CASE WriteEntry
  BY <1>4, Zenon DEF WriteEntry
<1>5. CASE RemoveEntry
  BY <1>5, Zenon DEF RemoveEntry
<1>6. CASE KeepEntry
  BY <1>6, Zenon DEF KeepEntry
<1>7. CASE IngestEnds \/ ApplyFails \/ CommitToClosed
  BY <1>2, <1>7, Zenon DEF IngestEnds, ApplyFails, CommitToClosed
<1>8. CASE Commit
  <2>1. acks' \in [Listeners -> Seq(Nat)]
    <3>1. acks \in [Listeners -> Seq(Nat)] /\ gen \in Listeners /\ cur \in Nat
      BY Zenon
    <3> HIDE DEF TypeOK
    <3>2. acks' = [acks EXCEPT ![gen] = Append(acks[gen], cur)]
      BY <1>8, Zenon DEF Commit
    <3>3. Append(acks[gen], cur) \in Seq(Nat)
      BY <3>1
    <3> QED
      BY <3>1, <3>2, <3>3, Zenon
  <2> QED
    BY <1>8, <2>1, Zenon DEF Commit
<1> QED
  BY <1>1, <1>3, <1>4, <1>5, <1>6, <1>7, <1>8, Zenon DEF IngestNext

(* Every step of the system keeps the types. *)
LEMMA TypeNext == TypeOK /\ [Next]_vars => TypeOK'
<1> SUFFICES ASSUME TypeOK, [Next]_vars
             PROVE  TypeOK'
  BY Zenon
<1>1. ASSUME NEW f \in Fids, NEW k \in Kinds, MdtAppend(f, k)
      PROVE  TypeOK'
  <2>1. log \in Seq(Record) /\ [fid |-> f, kind |-> k] \in Record
    BY Zenon DEF TypeOK, Record
  <2>2. log' \in Seq(Record)
    BY <1>1, <2>1 DEF MdtAppend
  <2> QED
    BY <1>1, <2>2, Zenon DEF MdtAppend, TypeOK, listenerVars, ingestVars
<1>2. ASSUME NEW g \in Listeners, Spawn(g)
      PROVE  TypeOK'
  BY <1>2, Zenon DEF Spawn, TypeOK, mdtVars, ListenerPcs, IngestPcs
<1>3. CASE Cancel
  BY <1>3, Zenon DEF Cancel, TypeOK, mdtVars, listenerVars, ingestVars
<1>4. CASE Crash
  <2>1. events' \in [Listeners -> Seq(SUBSET Nat)] /\ acks' \in [Listeners -> Seq(Nat)]
    BY <1>4 DEF Crash, All
  <2> QED
    BY <1>4, <2>1, Zenon DEF Crash, TypeOK, mdtVars, All, ListenerPcs, IngestPcs
<1>5. CASE UNCHANGED vars
  BY <1>5, Zenon DEF vars, TypeOK
<1> QED
  BY <1>1, <1>2, <1>3, <1>4, <1>5, TypeListener, TypeIngest, Zenon DEF Next

(* Every variable keeps its type, whatever the interleaving of the MDT,    *)
(* the listeners, the ingest loop, cancellations and crashes.              *)
THEOREM TypeCorrect == Spec => []TypeOK
BY TypeInit, TypeNext, PTL DEF Spec

-----------------------------------------------------------------------------
(* The purge stays behind the cursor *)

(* Nothing is purged at the start. *)
LEMMA PurgeInit == Init => PurgeInv
BY DEF Init, PurgeInv, ClearedBehindCursor, ClearPcs, All

(* Every step keeps the purge behind the cursor (process_acks persists first). *)
LEMMA PurgeNext == TypeOK /\ PurgeInv /\ [Next]_vars => PurgeInv'
<1> SUFFICES ASSUME TypeOK, PurgeInv, [Next]_vars
             PROVE  PurgeInv'
  BY Zenon
<1> USE DEF PurgeInv, ClearedBehindCursor
<1>1. ASSUME UNCHANGED <<cleared, cursor, pc, pend>>
      PROVE  PurgeInv'
  BY <1>1, Zenon DEF ClearPcs
<1>2. ASSUME NEW f \in Fids, NEW k \in Kinds, MdtAppend(f, k)
      PROVE  PurgeInv'
  BY <1>1, <1>2, Zenon DEF MdtAppend, listenerVars
<1>3. ASSUME NEW g \in Listeners, NEW p \in ListenerPcs \ ClearPcs,
             pc' = [pc EXCEPT ![g] = p],
             UNCHANGED <<cleared, cursor>>,
             \A h \in Listeners \ {g} : pend'[h] = pend[h]
      PROVE  PurgeInv'
  BY <1>3, Zenon DEF TypeOK, ClearPcs
<1>4. ASSUME NEW g \in Listeners, ListenerNext(g)
      PROVE  PurgeInv'
  <2> USE DEF mdtVars, TypeOK
  <2>1. CASE Open(g)
    BY <1>3, <2>1, Zenon DEF Open, ListenerPcs, ClearPcs
  <2>2. CASE SeeCancel(g)
    BY <1>3, <2>2, Zenon DEF SeeCancel, ListenerPcs, ClearPcs
  <2>3. CASE Recv(g)
    <3>1. /\ UNCHANGED <<cleared, cursor, pend>>
          /\ pc' = pc \/ pc' = [pc EXCEPT ![g] = "send"]
      BY <2>3, Zenon DEF Recv
    <3> QED
      BY <1>1, <1>3, <3>1, Zenon DEF ListenerPcs, ClearPcs
  <2>4. CASE EndDrain(g)
    BY <1>3, <2>4, Zenon DEF EndDrain, ListenerPcs, ClearPcs
  <2>5. CASE Send(g)
    BY <1>3, <2>5, Zenon DEF Send, ListenerPcs, ClearPcs
  <2>6. CASE SendToClosed(g) \/ ListenerEnds(g)
    <3>1. Return(g) /\ UNCHANGED <<cleared, cursor>>
      BY <2>6, Zenon DEF SendToClosed, ListenerEnds
    <3> QED
      BY <1>3, <3>1, Zenon DEF Return, ListenerPcs, ClearPcs
  <2>7. CASE KeepCheckpoint(g)
    <3>1. PICK idx \in Checkpoints(g) : TakeAcks(g, idx)
      BY <2>7, Zenon DEF KeepCheckpoint
    <3> QED
      BY <1>3, <2>7, <3>1, Zenon DEF KeepCheckpoint, TakeAcks, Resume, ListenerPcs, ClearPcs
  <2>8. CASE PersistCursor(g)
    <3>1. PICK idx \in Checkpoints(g) :
            TakeAcks(g, idx) /\ cursor' = CommittedCursor(idx)
      BY <2>8, Zenon DEF PersistCursor
    <3>2. idx \in Nat
      BY CheckpointsType, Zenon
    <3>3. cursor' \in Nat /\ cursor' >= cursor /\ cursor' >= idx
      BY <3>1, <3>2 DEF CommittedCursor, Larger
    <3>4. cleared' <= cursor'
      <4>1. cleared' = cleared /\ cleared \in Nat /\ cleared <= cursor
        BY <2>8, Zenon DEF PersistCursor
      <4> QED
        BY <3>3, <4>1
    <3>5. ASSUME NEW h \in Listeners, pc'[h] \in ClearPcs
          PROVE  pend'[h] <= cursor'
      <4>1. pend' = [pend EXCEPT ![g] = idx]
        BY <3>1, Zenon DEF TakeAcks
      <4>2. CASE h = g
        BY <3>2, <3>3, <4>1, <4>2, Zenon
      <4>3. CASE h # g
        <5>1. pc'[h] = pc[h] /\ pend'[h] = pend[h]
          BY <2>8, <4>1, <4>3, Zenon DEF PersistCursor
        <5>2. pend[h] <= cursor /\ pend[h] \in Nat
          BY <3>5, <5>1, Zenon
        <5> QED
          BY <3>3, <5>1, <5>2
      <4> QED
        BY <4>2, <4>3, Zenon
    <3> QED
      BY <3>4, <3>5, Zenon
  <2>9. CASE ClearChangelog(g)
    <3>1. cleared' <= cursor'
      BY <2>9, Zenon DEF ClearChangelog, Larger
    <3>2. ASSUME NEW h \in Listeners, pc'[h] \in ClearPcs
          PROVE  pend'[h] <= cursor'
      BY <2>9, <3>2, Zenon DEF ClearChangelog, Resume, ClearPcs
    <3> QED
      BY <3>1, <3>2, Zenon
  <2>10. CASE ClearFails(g)
    BY <1>3, <2>10, Zenon DEF ClearFails, Resume, ListenerPcs, ClearPcs
  <2> QED
    BY <1>4, <2>1, <2>2, <2>3, <2>4, <2>5, <2>6, <2>7, <2>8, <2>9, <2>10, Zenon
    DEF ListenerNext
<1>5. ASSUME NEW g \in Listeners, Spawn(g)
      PROVE  PurgeInv'
  BY <1>3, <1>5, Zenon DEF Spawn, mdtVars, TypeOK, ListenerPcs, ClearPcs
<1>6. CASE IngestNext
  BY <1>1, <1>6, Zenon DEF IngestNext, NextBatch, IngestEnds, StatEntry, WriteEntry,
     RemoveEntry, KeepEntry, ApplyFails, Commit, CommitToClosed, mdtVars, listenerVars
<1>7. CASE Cancel
  BY <1>1, <1>7, Zenon DEF Cancel, mdtVars, listenerVars
<1>8. CASE Crash
  BY <1>8, Zenon DEF Crash, mdtVars, All, ClearPcs
<1>9. CASE UNCHANGED vars
  BY <1>1, <1>9, Zenon DEF vars
<1> QED
  BY <1>2, <1>4, <1>5, <1>6, <1>7, <1>8, <1>9, Zenon DEF Next

(* The MDT is never asked to purge a record that the durable cursor has    *)
(* not passed: process_acks persists before it clears, whatever fails or   *)
(* crashes in between.                                                     *)
THEOREM PurgeBehindCursor == Spec => []ClearedBehindCursor
<1>1. PurgeInv => ClearedBehindCursor
  BY Zenon DEF PurgeInv
<1> QED
  BY <1>1, TypeInit, TypeNext, PurgeInit, PurgeNext, PTL DEF Spec

(* A step leaves the cursor or raises it (GREATEST in MariaDbCursorStore::commit). *)
LEMMA CursorStep == TypeOK /\ [Next]_vars => cursor' = cursor \/ cursor' >= cursor
<1> SUFFICES ASSUME TypeOK, [Next]_vars
             PROVE  cursor' = cursor \/ cursor' >= cursor
  BY Zenon
<1>1. ASSUME NEW g \in Listeners, PersistCursor(g)
      PROVE  cursor' >= cursor
  <2>1. PICK idx \in Checkpoints(g) : cursor' = CommittedCursor(idx)
    BY <1>1, Zenon DEF PersistCursor
  <2>2. idx \in Nat /\ cursor \in Nat
    BY CheckpointsType, Zenon DEF TypeOK
  <2> QED
    BY <2>1, <2>2 DEF CommittedCursor, Larger
<1>2. ASSUME NEW g \in Listeners, ListenerNext(g)
      PROVE  cursor' = cursor \/ cursor' >= cursor
  BY <1>1, <1>2, Zenon DEF ListenerNext, Open, SeeCancel, Recv, EndDrain, Send,
     SendToClosed, KeepCheckpoint, ClearChangelog, ClearFails, ListenerEnds
<1> QED
  BY <1>2, Zenon DEF Next, MdtAppend, Spawn, Cancel, Crash, vars, IngestNext, NextBatch,
     IngestEnds, StatEntry, WriteEntry, RemoveEntry, KeepEntry, ApplyFails,
     Commit, CommitToClosed

(* The durable cursor never moves back, not even when a listener that      *)
(* outlived its ingest loop persists an old checkpoint after its           *)
(* successor: MariaDbCursorStore::commit keeps the greater value.          *)
THEOREM CursorNeverMovesBack == Spec => CursorMonotone
<1>1. TypeOK /\ [Next]_vars => [cursor' >= cursor]_vars
  <2> SUFFICES ASSUME TypeOK, [Next]_vars
               PROVE  cursor' >= cursor
    BY Zenon
  <2>1. cursor \in Nat
    BY Zenon DEF TypeOK
  <2> QED
    BY <2>1, CursorStep
<1> QED
  BY <1>1, TypeCorrect, PTL DEF Spec, CursorMonotone

-----------------------------------------------------------------------------
(* A stat fails only for a file that is gone. *)
StatReliable == "stat" \notin Disturbances

-----------------------------------------------------------------------------
(* The changelog *)

(* A new record comes after all others and changes none. *)
LEMMA AppendFacts ==
  ASSUME TypeOK, NEW f \in Fids, NEW k \in Kinds, MdtAppend(f, k)
  PROVE  /\ Len(log) \in Nat
         /\ Len(log') = Len(log) + 1
         /\ Indices' = Indices \cup {Len(log) + 1}
         /\ \A i \in Indices : log'[i] = log[i]
         /\ log'[Len(log) + 1] = [fid |-> f, kind |-> k]
<1>1. PICK r \in Record : r = [fid |-> f, kind |-> k]
  BY Zenon DEF Record
<1>2. log \in Seq(Record) /\ log' = Append(log, r)
  BY <1>1, Zenon DEF TypeOK, MdtAppend
<1>3. /\ Len(log) \in Nat /\ Len(log') = Len(log) + 1 /\ log'[Len(log) + 1] = r
      /\ \A i \in 1..Len(log) : log'[i] = log[i]
  BY <1>2
<1>4. 1..(Len(log) + 1) = (1..Len(log)) \cup {Len(log) + 1}
  BY <1>3
<1> QED
  BY <1>1, <1>3, <1>4, Zenon DEF Indices

(* A record of the log has a file and a kind. *)
LEMMA RecordType ==
  ASSUME TypeOK, NEW i \in Indices
  PROVE  /\ i \in Nat /\ i >= 1 /\ i <= Len(log) /\ Len(log) \in Nat
         /\ log[i].fid \in Fids /\ log[i].kind \in Kinds
<1>1. log \in Seq(Record) /\ i \in 1..Len(log)
  BY Zenon DEF TypeOK, Indices
<1>2. log[i] \in Record /\ Len(log) \in Nat
  BY <1>1
<1> QED
  BY <1>1, <1>2 DEF Record

(* The MDT creates a file once, and logs nothing about an unknown file. *)
LEMMA FsAllowsKnown ==
  ASSUME NEW f, NEW k, FsAllows(f, k)
  PROVE  IF k \in CreateKinds THEN ~ \E i \in Indices : log[i].fid = f
                              ELSE Known(f)
BY Zenon DEF FsAllows, Alive, CreateKinds

(* Apart from a new record of the MDT, a step leaves the changelog alone. *)
LEMMA LogStep ==
  ASSUME [Next]_vars
  PROVE  log' = log \/ \E f \in Fids, k \in Kinds : MdtAppend(f, k)
<1>1. ASSUME NEW g \in Listeners, ListenerNext(g) \/ Spawn(g)
      PROVE  log' = log
  BY <1>1, ZenonT(30) DEF ListenerNext, Open, SeeCancel, Recv, EndDrain, Send, SendToClosed,
     KeepCheckpoint, PersistCursor, ClearChangelog, ClearFails, ListenerEnds, Spawn, mdtVars
<1>2. CASE IngestNext
  BY <1>2, Zenon DEF IngestNext, NextBatch, IngestEnds, StatEntry, WriteEntry, RemoveEntry,
     KeepEntry, ApplyFails, Commit, CommitToClosed, mdtVars
<1> QED
  BY <1>1, <1>2, Zenon DEF Next, Cancel, Crash, vars, mdtVars

(* The empty log is well formed. *)
LEMMA LogInit == Init => LogWellFormed
BY DEF Init, LogWellFormed, Indices

(* The MDT logs only what the file system allows, so the log stays well formed. *)
LEMMA LogNext ==
  ASSUME TypeOK, LogWellFormed, [Next]_vars
  PROVE  LogWellFormed'
<1>1. CASE log' = log
  BY <1>1, Zenon DEF LogWellFormed, Indices
<1>2. ASSUME NEW f \in Fids, NEW k \in Kinds, MdtAppend(f, k)
      PROVE  LogWellFormed'
  <2> DEFINE n == Len(log) + 1
  <2>1. /\ n \in Nat /\ Indices' = Indices \cup {n} /\ n \notin Indices
        /\ \A i \in Indices : log'[i] = log[i] /\ i \in Nat /\ i < n
        /\ log'[n].fid = f /\ log'[n].kind = k
    <3>1. Len(log) \in Nat /\ log'[n] = [fid |-> f, kind |-> k]
      BY <1>2, AppendFacts, Zenon
    <3>2. Indices' = Indices \cup {n} /\ \A i \in Indices : log'[i] = log[i]
      BY <1>2, AppendFacts, Zenon
    <3>3. n \notin Indices /\ \A i \in Indices : i \in Nat /\ i < n
      BY <3>1 DEF Indices
    <3> QED
      BY <3>1, <3>2, <3>3
  <2>2. IF k \in CreateKinds THEN ~ \E i \in Indices : log[i].fid = f ELSE Known(f)
    BY <1>2, FsAllowsKnown, Zenon DEF MdtAppend
  <2> HIDE DEF n
  <2>3. ASSUME NEW i \in Indices'
        PROVE  \E c \in Indices' : log'[c].fid = log'[i].fid /\ log'[c].kind \in CreateKinds
    <3>1. CASE i \in Indices
      BY <2>1, <3>1 DEF LogWellFormed
    <3>2. CASE i = n
      BY <2>1, <2>2, <3>2, Zenon DEF Known
    <3> QED
      BY <2>1, <3>1, <3>2, Zenon
  <2>4. ASSUME NEW i \in Indices', NEW c \in Indices',
               log'[c].fid = log'[i].fid, log'[c].kind \in CreateKinds
        PROVE  c <= i
    <3>1. CASE i \in Indices /\ c \in Indices
      BY <2>1, <2>4, <3>1, Zenon DEF LogWellFormed
    <3>2. CASE i = n
      BY <2>1, <3>2
    <3>3. CASE c = n /\ i \in Indices
      BY <2>1, <2>2, <2>4, <3>3, Zenon
    <3> QED
      BY <2>1, <3>1, <3>2, <3>3, Zenon
  <2> QED
    BY <2>3, <2>4, Zenon DEF LogWellFormed
<1> QED
  BY <1>1, <1>2, LogStep, Zenon

(* A file that is alive and has a record was alive before: no step brings  *)
(* a file back.                                                            *)
LEMMA AliveStable ==
  ASSUME TypeOK, LogWellFormed, [Next]_vars, NEW i \in Indices
  PROVE  /\ i \in Indices' /\ log'[i] = log[i]
         /\ Alive(log[i].fid)' => Alive(log[i].fid)
<1>1. CASE log' = log
  BY <1>1, Zenon DEF Alive, Known, Gone, Indices
<1>2. ASSUME NEW f \in Fids, NEW k \in Kinds, MdtAppend(f, k)
      PROVE  /\ i \in Indices' /\ log'[i] = log[i]
             /\ Alive(log[i].fid)' => Alive(log[i].fid)
  <2>1. /\ Indices \subseteq Indices'
        /\ \A j \in Indices : log'[j] = log[j]
    BY <1>2, AppendFacts, Zenon
  <2>2. Known(log[i].fid)
    BY Zenon DEF LogWellFormed, Known
  <2>3. Gone(log[i].fid) => Gone(log[i].fid)'
    BY <2>1, Zenon DEF Gone
  <2> QED
    BY <2>1, <2>2, <2>3, Zenon DEF Alive
<1> QED
  BY <1>1, <1>2, LogStep, Zenon

-----------------------------------------------------------------------------
(* Control states *)

(* The control state at the start. *)
LEMMA ControlInit == Init => ControlState
BY Zenon DEF Init, ControlState, All

(* A listener step keeps what positions say about buffers (run_polling_loop). *)
LEMMA ControlListener ==
  ASSUME TypeOK, ControlState, NEW g \in Listeners, ListenerNext(g)
  PROVE  ControlState'
<1> USE DEF ControlState, TypeOK, mdtVars, ingestVars, Attached
<1>1. CASE Open(g)
  BY <1>1, Zenon DEF Open
<1>2. CASE SeeCancel(g)
  BY <1>2, Zenon DEF SeeCancel
<1>3. CASE Recv(g)
  <2> DEFINE b == push(log, batch[g], Larger(pos[g], cleared) + 1)
  <2>1. /\ pc[g] = "drain"
        /\ \/ UNCHANGED <<pc, batch, out>>
           \/ /\ b # {}
              /\ pc' = [pc EXCEPT ![g] = "send"]
              /\ batch' = [batch EXCEPT ![g] = {}]
              /\ out' = [out EXCEPT ![g] = b]
           \/ /\ batch' = [batch EXCEPT ![g] = b]
              /\ UNCHANGED <<pc, out>>
        /\ UNCHANGED <<events, acks, pend, gen, cpc, ready, cur>>
    BY <1>3, Zenon DEF Recv
  <2> HIDE DEF b
  <2>2. CASE UNCHANGED <<pc, batch, out>>
    BY <2>1, <2>2, Zenon
  <2>3. CASE /\ b # {}
             /\ pc' = [pc EXCEPT ![g] = "send"]
             /\ batch' = [batch EXCEPT ![g] = {}]
             /\ out' = [out EXCEPT ![g] = b]
    BY <2>1, <2>3, Zenon
  <2>4. CASE batch' = [batch EXCEPT ![g] = b] /\ UNCHANGED <<pc, out>>
    BY <2>1, <2>4, Zenon
  <2> QED
    BY <2>1, <2>2, <2>3, <2>4, Zenon
<1>4. CASE EndDrain(g)
  BY <1>4, Zenon DEF EndDrain
<1>5. CASE Send(g)
  BY <1>5, ZenonT(30) DEF Send
<1>6. CASE SendToClosed(g)
  BY <1>6, Zenon DEF SendToClosed, Return
<1>7. CASE KeepCheckpoint(g)
  <2>1. /\ pc[g] \in {"acks", "lastAcks"}
        /\ acks' = [acks EXCEPT ![g] = <<>>]
        /\ \A h \in Listeners \ {g} : pend'[h] = pend[h]
        /\ UNCHANGED <<batch, out, events, ingestVars>>
    BY <1>7, Zenon DEF KeepCheckpoint, TakeAcks, AckPcs
  <2>2. \E p \in {"top", "end"} : pc' = [pc EXCEPT ![g] = p]
    BY <1>7, Zenon DEF KeepCheckpoint, Resume
  <2> QED
    BY <2>1, <2>2, ZenonT(30)
<1>8. CASE PersistCursor(g)
  <2>1. /\ pc[g] \in {"acks", "lastAcks"}
        /\ \E p \in {"clear", "lastClear"} : pc' = [pc EXCEPT ![g] = p]
        /\ acks' = [acks EXCEPT ![g] = <<>>]
        /\ \A h \in Listeners \ {g} : pend'[h] = pend[h]
        /\ UNCHANGED <<batch, out, events, ingestVars>>
    BY <1>8, Zenon DEF PersistCursor, TakeAcks, AckPcs
  <2> QED
    BY <2>1, ZenonT(30)
<1>9. CASE ClearChangelog(g)
  BY <1>9, Zenon DEF ClearChangelog, ClearPcs, Resume
<1>10. CASE ClearFails(g)
  BY <1>10, Zenon DEF ClearFails, ClearPcs, Resume
<1>11. CASE ListenerEnds(g)
  BY <1>11, ZenonT(30) DEF ListenerEnds, Return
<1> QED
  BY <1>1, <1>2, <1>3, <1>4, <1>5, <1>6, <1>7, <1>8, <1>9, <1>10, <1>11, Zenon
  DEF ListenerNext

(* An ingest step keeps what positions say about buffers (ingest_loop). *)
LEMMA ControlIngest ==
  ASSUME TypeOK, ControlState, IngestNext
  PROVE  ControlState'
<1> USE DEF ControlState, TypeOK, listenerVars, Attached
<1>1. CASE NextBatch
  BY <1>1, Zenon DEF NextBatch, Deliver
<1>2. CASE IngestEnds
  BY <1>2, Zenon DEF IngestEnds, IngestReturns
<1>3. CASE StatEntry
  BY <1>3, Zenon DEF StatEntry
<1>4. CASE WriteEntry
  BY <1>4, Zenon DEF WriteEntry
<1>5. CASE RemoveEntry
  BY <1>5, Zenon DEF RemoveEntry
<1>6. CASE KeepEntry
  BY <1>6, Zenon DEF KeepEntry
<1>7. CASE ApplyFails
  BY <1>7, Zenon DEF ApplyFails, IngestReturns
<1>8. CASE Commit
  BY <1>8, Zenon DEF Commit
<1>9. CASE CommitToClosed
  BY <1>9, Zenon DEF CommitToClosed, IngestReturns
<1> QED
  BY <1>1, <1>2, <1>3, <1>4, <1>5, <1>6, <1>7, <1>8, <1>9, Zenon DEF IngestNext

(* Every step keeps the control state. *)
LEMMA ControlNext ==
  ASSUME TypeOK, ControlState, [Next]_vars
  PROVE  ControlState'
<1>1. ASSUME NEW f \in Fids, NEW k \in Kinds, MdtAppend(f, k)
      PROVE  ControlState'
  BY <1>1, Zenon DEF MdtAppend, ControlState, Attached, listenerVars, ingestVars
<1>2. ASSUME NEW g \in Listeners, Spawn(g)
      PROVE  ControlState'
  BY <1>2, Zenon DEF Spawn, ControlState, Attached, TypeOK
<1>3. CASE Cancel
  BY <1>3, Zenon DEF Cancel, ControlState, Attached, listenerVars, ingestVars
<1>4. CASE Crash
  BY <1>4, Zenon DEF Crash, ControlState, Attached, All
<1>5. CASE UNCHANGED vars
  BY <1>5, Zenon DEF vars, ControlState, Attached
<1> QED
  BY <1>1, <1>2, <1>3, <1>4, <1>5, ControlListener, ControlIngest, Zenon DEF Next

-----------------------------------------------------------------------------
(* Nothing is ahead of the changelog *)

(* At the start every index lies within the log. *)
LEMMA WithinInit ==
  Init => PositionsWithinLog /\ CheckpointsWithinLog /\ RecordsWithinLog
BY DEF Init, PositionsWithinLog, CheckpointsWithinLog, RecordsWithinLog, Indices, All

(* The log only grows. *)
LEMMA LogGrows ==
  ASSUME TypeOK, [Next]_vars
  PROVE  /\ Len(log) \in Nat /\ Len(log') \in Nat /\ Len(log) <= Len(log')
         /\ Indices \subseteq Indices'
<1>1. Len(log) \in Nat
  BY DEF TypeOK
<1>2. CASE log' = log
  BY <1>1, <1>2 DEF Indices
<1>3. ASSUME NEW f \in Fids, NEW k \in Kinds, MdtAppend(f, k)
      PROVE  Len(log') \in Nat /\ Len(log) <= Len(log') /\ Indices \subseteq Indices'
  <2>1. Len(log') = Len(log) + 1 /\ Indices' = Indices \cup {Len(log) + 1}
    BY <1>3, AppendFacts, Zenon
  <2> QED
    BY <1>1, <2>1
<1> QED
  BY <1>1, <1>2, <1>3, LogStep, Zenon

(* Where a record that recv_changelog returns lies. *)
LEMMA RecvFacts ==
  ASSUME TypeOK, NEW g \in Listeners, Recv(g),
         NEW i, i = Larger(pos[g], cleared) + 1
  PROVE  /\ i \in Nat /\ i <= Len(log) /\ i \in Indices /\ i > pos[g]
         /\ \A j \in Nat : j < i => j <= pos[g] \/ j <= cleared
<1>1. pos[g] \in Nat /\ cleared \in Nat /\ Len(log) \in Nat
  BY DEF TypeOK
<1>2. i <= Len(log)
  BY Zenon DEF Recv
<1> QED
  BY <1>1, <1>2 DEF Larger, Indices

(* Cursor, stat results, rows and read positions stay within the log. *)
LEMMA PositionsNext ==
  ASSUME TypeOK, PositionsWithinLog, CheckpointsWithinLog, [Next]_vars
  PROVE  PositionsWithinLog'
<1> DEFINE N == Len(log)
<1>1. /\ N \in Nat /\ Len(log') \in Nat /\ N <= Len(log')
      /\ cursor \in Nat /\ cstat \in Nat /\ catalog \in [Fids -> Nat]
      /\ seen \in [Listeners -> Nat] /\ pos \in [Listeners -> Nat]
  BY LogGrows, Zenon DEF TypeOK
<1>2. /\ cursor <= N /\ cstat <= N
      /\ \A f \in Fids : catalog[f] <= N
      /\ \A h \in Listeners : seen[h] <= N /\ pos[h] <= N
  BY Zenon DEF PositionsWithinLog
<1> HIDE DEF N
<1>3. ASSUME cursor' \in Nat, cursor' <= N, cstat' \in Nat, cstat' <= N,
             \A f \in Fids : catalog'[f] \in Nat /\ catalog'[f] <= N,
             \A h \in Listeners : /\ seen'[h] \in Nat /\ seen'[h] <= N
                                  /\ pos'[h] \in Nat /\ pos'[h] <= N
      PROVE  PositionsWithinLog'
  BY <1>1, <1>3 DEF PositionsWithinLog
<1>4. ASSUME UNCHANGED <<cursor, cstat, catalog, seen, pos>>
      PROVE  PositionsWithinLog'
  BY <1>1, <1>2, <1>3, <1>4, Zenon
<1>5. ASSUME NEW g \in Listeners, ListenerNext(g)
      PROVE  PositionsWithinLog'
  <2>1. CASE Open(g)
    BY <1>1, <1>2, <1>3, <2>1, Zenon DEF Open, ingestVars
  <2>2. CASE Recv(g)
    <3> DEFINE i == Larger(pos[g], cleared) + 1
    <3>1. i \in Nat /\ i <= N
      BY <2>2, RecvFacts, Zenon DEF N
    <3>2. /\ pos' = [pos EXCEPT ![g] = i]
          /\ seen' = seen \/ seen' = [seen EXCEPT ![g] = i]
          /\ UNCHANGED <<cursor, cstat, catalog>>
      BY <2>2, Zenon DEF Recv, ingestVars
    <3> HIDE DEF i
    <3> QED
      BY <1>1, <1>2, <1>3, <3>1, <3>2, Zenon
  <2>3. CASE SendToClosed(g) \/ ListenerEnds(g)
    <3>1. /\ pos' = [pos EXCEPT ![g] = 0] /\ seen' = [seen EXCEPT ![g] = 0]
          /\ UNCHANGED <<cursor, cstat, catalog>>
      BY <2>3, Zenon DEF SendToClosed, ListenerEnds, Return, ingestVars
    <3> QED
      BY <1>1, <1>2, <1>3, <3>1
  <2>4. CASE PersistCursor(g)
    <3>1. PICK idx \in Checkpoints(g) : cursor' = CommittedCursor(idx)
      BY <2>4, Zenon DEF PersistCursor
    <3>2. idx \in Nat /\ idx <= N
      BY CheckpointsType, Zenon DEF CheckpointsWithinLog, N
    <3>3. cursor' \in Nat /\ cursor' <= N
      BY <1>1, <1>2, <3>1, <3>2, Zenon DEF CommittedCursor, Larger
    <3> QED
      BY <1>1, <1>2, <1>3, <2>4, <3>3, Zenon DEF PersistCursor, ingestVars
  <2> QED
    BY <1>4, <1>5, <2>1, <2>2, <2>3, <2>4, Zenon DEF ListenerNext, SeeCancel, EndDrain, Send,
       KeepCheckpoint, ClearChangelog, ClearFails, ingestVars
<1>6. ASSUME NEW g \in Listeners, Spawn(g)
      PROVE  PositionsWithinLog'
  BY <1>1, <1>2, <1>3, <1>6, Zenon DEF Spawn
<1>7. CASE IngestNext
  <2>1. CASE IngestEnds \/ ApplyFails \/ CommitToClosed
    BY <1>1, <1>2, <1>3, <2>1 DEF IngestEnds, ApplyFails, CommitToClosed, IngestReturns,
       listenerVars
  <2>2. CASE StatEntry
    BY <1>1, <1>2, <1>3, <2>2 DEF StatEntry, listenerVars, N
  <2>3. CASE WriteEntry
    BY <1>1, <1>2, <1>3, <2>3 DEF WriteEntry, listenerVars
  <2>4. CASE RemoveEntry
    BY <1>1, <1>2, <1>3, <2>4 DEF RemoveEntry, listenerVars
  <2> QED
    BY <1>4, <1>7, <2>1, <2>2, <2>3, <2>4, Zenon DEF IngestNext, NextBatch, Deliver, KeepEntry,
       Commit, listenerVars
<1>8. CASE Crash
  BY <1>1, <1>2, <1>3, <1>8 DEF Crash, All
<1> QED
  BY <1>4, <1>5, <1>6, <1>7, <1>8, Zenon DEF Next, MdtAppend, Cancel, vars, listenerVars, ingestVars

(* Pending checkpoints and acks stay within the log. *)
LEMMA CheckpointsWithinNext ==
  ASSUME TypeOK, PositionsWithinLog, CheckpointsWithinLog, RecordsWithinLog, [Next]_vars
  PROVE  CheckpointsWithinLog'
<1> DEFINE N == Len(log)
           Within(h) == /\ pend'[h] \in Nat /\ pend'[h] <= N
                        /\ \A j \in 1..Len(acks'[h]) : acks'[h][j] \in Nat /\ acks'[h][j] <= N
<1>1. /\ N \in Nat /\ Len(log') \in Nat /\ N <= Len(log')
      /\ pend \in [Listeners -> Nat] /\ acks \in [Listeners -> Seq(Nat)]
      /\ cursor \in Nat /\ cursor <= N
  BY LogGrows, Zenon DEF TypeOK, PositionsWithinLog
<1>2. ASSUME NEW h \in Listeners
      PROVE  /\ pend[h] \in Nat /\ pend[h] <= N
             /\ \A j \in 1..Len(acks[h]) : acks[h][j] \in Nat /\ acks[h][j] <= N
  BY <1>1 DEF CheckpointsWithinLog
<1>3. ASSUME \A h \in Listeners : Within(h)
      PROVE  CheckpointsWithinLog'
  BY <1>1, <1>3 DEF CheckpointsWithinLog
<1> HIDE DEF N
<1>4. ASSUME NEW h \in Listeners, pend'[h] = pend[h] \/ pend'[h] = 0,
             acks'[h] = acks[h] \/ acks'[h] = <<>>
      PROVE  Within(h)
  BY <1>1, <1>2, <1>4
<1>5. ASSUME UNCHANGED <<pend, acks>>
      PROVE  CheckpointsWithinLog'
  BY <1>3, <1>4, <1>5, Zenon
<1>6. ASSUME NEW g \in Listeners, ListenerNext(g)
      PROVE  CheckpointsWithinLog'
  <2>1. CASE SendToClosed(g) \/ ListenerEnds(g) \/ ClearChangelog(g)
    <3>1. /\ pend' = [pend EXCEPT ![g] = 0]
          /\ acks' = acks \/ acks' = [acks EXCEPT ![g] = <<>>]
      BY <2>1, Zenon DEF SendToClosed, ListenerEnds, Return, ClearChangelog
    <3> QED
      BY <1>1, <1>3, <1>4, <3>1, Zenon
  <2>2. CASE KeepCheckpoint(g) \/ PersistCursor(g)
    <3>1. PICK idx \in Checkpoints(g) : TakeAcks(g, idx)
      BY <2>2, Zenon DEF KeepCheckpoint, PersistCursor
    <3>2. idx \in Nat /\ idx <= N
      BY CheckpointsType, Zenon DEF CheckpointsWithinLog, N
    <3>3. acks' = [acks EXCEPT ![g] = <<>>] /\ pend' = [pend EXCEPT ![g] = idx]
      BY <3>1, Zenon DEF TakeAcks
    <3> QED
      BY <1>1, <1>2, <1>3, <3>2, <3>3
  <2> QED
    BY <1>5, <1>6, <2>1, <2>2, ZenonT(30) DEF ListenerNext, Open, SeeCancel, Recv, EndDrain, Send,
       ClearFails
<1>7. ASSUME NEW g \in Listeners, Spawn(g)
      PROVE  CheckpointsWithinLog'
  <2>1. pend' = [pend EXCEPT ![g] = cursor] /\ acks' = acks
    BY <1>7, Zenon DEF Spawn
  <2> QED
    BY <1>1, <1>2, <1>3, <2>1, Zenon
<1>8. CASE IngestNext
  <2>1. CASE Commit
    <3>1. cur \in Nat /\ cur <= N
      <4>1. cur \in 1..N
        BY <2>1, Zenon DEF Commit, RecordsWithinLog, Indices, N
      <4> QED
        BY <1>1, <4>1
    <3>2. gen \in Listeners /\ acks' = [acks EXCEPT ![gen] = Append(@, cur)] /\ pend' = pend
      BY <2>1, Zenon DEF Commit, TypeOK
    <3>3. ASSUME NEW h \in Listeners, h = gen
          PROVE  Within(h)
      <4>1. acks[h] \in Seq(Nat) /\ acks'[h] = Append(acks[h], cur) /\ pend'[h] = pend[h]
        BY <1>1, <3>2, <3>3, Zenon
      <4> QED
        BY <1>2, <3>1, <4>1
    <3>4. ASSUME NEW h \in Listeners, h # gen
          PROVE  Within(h)
      BY <1>1, <1>4, <3>2, <3>4, Zenon
    <3> QED
      BY <1>3, <3>3, <3>4, Zenon
  <2> QED
    BY <1>5, <1>8, <2>1, Zenon DEF IngestNext, NextBatch, IngestEnds, StatEntry, WriteEntry,
       RemoveEntry, KeepEntry, ApplyFails, CommitToClosed, listenerVars
<1>9. CASE Crash
  BY <1>3, <1>4, <1>9, Zenon DEF Crash, All
<1> QED
  BY <1>5, <1>6, <1>7, <1>8, <1>9, Zenon DEF Next, MdtAppend, Cancel, vars, listenerVars

(* Batches, channels and the event being applied hold records of the log. *)
LEMMA RecordsNext ==
  ASSUME TypeOK, ControlState, RecordsWithinLog, [Next]_vars
  PROVE  RecordsWithinLog'
<1> DEFINE Ok(h) == /\ batch'[h] \subseteq Indices /\ out'[h] \subseteq Indices
                    /\ \A j \in 1..Len(events'[h]) : events'[h][j] \subseteq Indices
           OkCur == /\ ready' \subseteq Indices
                    /\ cpc' \in {"apply", "write", "commit"} => cur' \in Indices
<1>1. /\ batch \in [Listeners -> SUBSET Nat] /\ out \in [Listeners -> SUBSET Nat]
      /\ events \in [Listeners -> Seq(SUBSET Nat)] /\ gen \in Listeners
      /\ Indices \subseteq Indices'
  BY LogGrows, Zenon DEF TypeOK
<1>2. ASSUME NEW h \in Listeners
      PROVE  /\ batch[h] \subseteq Indices /\ out[h] \subseteq Indices
             /\ \A j \in 1..Len(events[h]) : events[h][j] \subseteq Indices
  BY Zenon DEF RecordsWithinLog
<1>3. /\ ready \subseteq Indices
      /\ cpc \in {"apply", "write", "commit"} => cur \in Indices
  BY Zenon DEF RecordsWithinLog
<1>4. ASSUME \A h \in Listeners : Ok(h), OkCur
      PROVE  RecordsWithinLog'
  BY <1>1, <1>4, Zenon DEF RecordsWithinLog
<1>5. ASSUME UNCHANGED <<batch, out, events>>, OkCur
      PROVE  RecordsWithinLog'
  BY <1>2, <1>4, <1>5, Zenon
<1>6. ASSUME \A h \in Listeners : Ok(h), UNCHANGED ingestVars
      PROVE  RecordsWithinLog'
  BY <1>3, <1>4, <1>6, Zenon DEF ingestVars
<1>7. ASSUME UNCHANGED <<batch, out, events, ingestVars>>
      PROVE  RecordsWithinLog'
  BY <1>2, <1>6, <1>7, Zenon
<1>8. ASSUME NEW g \in Listeners, ListenerNext(g)
      PROVE  RecordsWithinLog'
  <2>1. CASE Recv(g)
    <3> DEFINE i == Larger(pos[g], cleared) + 1
               b == push(log, batch[g], i)
    <3>1. b \subseteq Indices
      <4>1. i \in Indices /\ batch[g] \subseteq Indices
        BY <1>2, <2>1, RecvFacts, Zenon
      <4> HIDE DEF i
      <4> QED
        BY <4>1, PushBound
    <3>2. /\ batch' \in {batch, [batch EXCEPT ![g] = {}], [batch EXCEPT ![g] = b]}
          /\ out' \in {out, [out EXCEPT ![g] = b]}
          /\ UNCHANGED <<events, ingestVars>>
      BY <2>1, ZenonT(30) DEF Recv
    <3> HIDE DEF b
    <3>3. ASSUME NEW h \in Listeners
          PROVE  Ok(h)
      BY <1>1, <1>2, <3>1, <3>2, Zenon
    <3> QED
      BY <1>6, <3>2, <3>3, Zenon
  <2>2. CASE EndDrain(g)
    <3>1. ASSUME NEW h \in Listeners
          PROVE  Ok(h)
      BY <1>1, <1>2, <2>2, Zenon DEF EndDrain
    <3> QED
      BY <1>6, <2>2, <3>1, Zenon DEF EndDrain
  <2>3. CASE Send(g)
    <3>1. /\ events' = [events EXCEPT ![g] = Append(@, out[g])]
          /\ out' = [out EXCEPT ![g] = {}] /\ UNCHANGED <<batch, ingestVars>>
      BY <2>3, Zenon DEF Send
    <3>2. ASSUME NEW h \in Listeners, h = g
          PROVE  Ok(h)
      <4>1. /\ events[g] \in Seq(SUBSET Nat) /\ events'[g] = Append(events[g], out[g])
            /\ out'[g] = {} /\ out[g] \in SUBSET Nat
        BY <1>1, <3>1, Zenon
      <4> QED
        BY <1>2, <3>1, <3>2, <4>1
    <3>3. ASSUME NEW h \in Listeners, h # g
          PROVE  Ok(h)
      BY <1>1, <1>2, <3>1, <3>3, Zenon
    <3> QED
      BY <1>6, <3>1, <3>2, <3>3, Zenon
  <2>4. CASE SendToClosed(g) \/ ListenerEnds(g)
    <3>1. /\ batch' = [batch EXCEPT ![g] = {}] /\ out' = [out EXCEPT ![g] = {}]
          /\ UNCHANGED <<events, ingestVars>>
      BY <2>4, Zenon DEF SendToClosed, ListenerEnds, Return
    <3> QED
      BY <1>1, <1>2, <1>6, <3>1, Zenon
  <2> QED
    BY <1>7, <1>8, <2>1, <2>2, <2>3, <2>4, ZenonT(30) DEF ListenerNext, Open, SeeCancel,
       KeepCheckpoint, PersistCursor, ClearChangelog, ClearFails
<1>9. ASSUME NEW g \in Listeners, Spawn(g)
      PROVE  RecordsWithinLog'
  BY <1>3, <1>5, <1>9, Zenon DEF Spawn
<1>10. CASE IngestNext
  <2>1. CASE NextBatch
    <3>1. CASE ready # {}
      BY <1>3, <1>5, <2>1, <3>1, Zenon DEF NextBatch, Deliver, listenerVars
    <3>2. CASE ready = {}
      <4>1. /\ events[gen] # <<>> /\ events' = [events EXCEPT ![gen] = Tail(@)]
            /\ events[gen] \in Seq(SUBSET Nat)
            /\ UNCHANGED <<batch, out>>
        BY <1>1, <2>1, <3>2, Zenon DEF NextBatch, listenerVars
      <4>2. Head(events[gen]) \subseteq Indices
        <5>1. Head(events[gen]) = events[gen][1] /\ 1 \in 1..Len(events[gen])
          BY <4>1
        <5> QED
          BY <1>1, <1>2, <5>1, Zenon
      <4>3. OkCur
        BY <2>1, <3>2, <4>2, Zenon DEF NextBatch, Deliver
      <4>4. ASSUME NEW h \in Listeners
            PROVE  Ok(h)
        BY <1>1, <1>2, <4>1
      <4> QED
        BY <1>4, <4>3, <4>4, Zenon
    <3> QED
      BY <3>1, <3>2, Zenon
  <2>2. CASE IngestEnds \/ ApplyFails \/ CommitToClosed
    <3>1. /\ cpc' = "down" /\ ready' = {} /\ events' = [events EXCEPT ![gen] = <<>>]
          /\ UNCHANGED <<batch, out>>
      BY <2>2, Zenon DEF IngestEnds, ApplyFails, CommitToClosed, IngestReturns, listenerVars
    <3>2. ASSUME NEW h \in Listeners
          PROVE  Ok(h)
      BY <1>1, <1>2, <3>1
    <3> QED
      BY <1>4, <3>1, <3>2, Zenon
  <2> QED
    BY <1>3, <1>5, <1>10, <2>1, <2>2, Zenon DEF IngestNext, StatEntry, WriteEntry, RemoveEntry,
       KeepEntry, Commit, listenerVars
<1>11. CASE Crash
  BY <1>4, <1>11 DEF Crash, All
<1> QED
  BY <1>7, <1>8, <1>9, <1>10, <1>11, Zenon DEF Next, MdtAppend, Cancel, vars, listenerVars, ingestVars

-----------------------------------------------------------------------------
(* What is reflected stays reflected *)

(* The rest of the invariant, on which the next lemmas rest. *)
Base ==
  /\ TypeOK
  /\ LogWellFormed
  /\ PositionsWithinLog
  /\ CheckpointsWithinLog
  /\ RecordsWithinLog
  /\ PurgeInv
  /\ ControlState

(* The base invariant at the start. *)
LEMMA BaseInit == Init => Base
BY TypeInit, LogInit, WithinInit, PurgeInit, ControlInit, Zenon DEF Base

(* Every step keeps the base invariant. *)
LEMMA BaseNext ==
  ASSUME Base, [Next]_vars
  PROVE  Base'
BY TypeNext, LogNext, PositionsNext, CheckpointsWithinNext, RecordsNext, PurgeNext,
   ControlNext, Zenon DEF Base

(* The steps that write the catalog. *)
LEMMA CatalogStep ==
  ASSUME [Next]_vars
  PROVE  catalog' = catalog \/ WriteEntry \/ RemoveEntry
<1>1. ASSUME NEW g \in Listeners, ListenerNext(g) \/ Spawn(g)
      PROVE  catalog' = catalog
  BY <1>1, Zenon DEF ListenerNext, Open, SeeCancel, Recv, EndDrain, Send, SendToClosed,
     KeepCheckpoint, PersistCursor, ClearChangelog, ClearFails, ListenerEnds, Spawn
<1>2. CASE IngestNext
  BY <1>2, ZenonT(30) DEF IngestNext, NextBatch, IngestEnds, StatEntry, KeepEntry, ApplyFails,
     Commit, CommitToClosed
<1> QED
  BY <1>1, <1>2, ZenonT(30) DEF Next, MdtAppend, Cancel, Crash, vars

(* A removal is applied only to a file that is gone. *)
LEMMA RemovedIsGone ==
  ASSUME Base, cpc = "apply", Removes(cur)
  PROVE  cur \in Indices /\ ~Alive(log[cur].fid)
BY Zenon DEF Base, RecordsWithinLog, Removes, Alive, Gone, RemoveKinds

(* A record that is reflected stays reflected (restat_entry replaces a row by a later stat). *)
LEMMA ReflectedStable ==
  ASSUME Base, StatRecent, [Next]_vars, NEW i \in Indices, Reflected(i)
  PROVE  Reflected(i)'
<1>1. /\ log'[i] = log[i] /\ log[i].fid \in Fids
      /\ Alive(log[i].fid)' => Alive(log[i].fid)
      /\ i \in Nat /\ catalog \in [Fids -> Nat] /\ cstat \in Nat
  <2>1. TypeOK /\ LogWellFormed
    BY Zenon DEF Base
  <2>2. log[i].fid \in Fids /\ i \in Nat
    BY <2>1, RecordType, Zenon
  <2>3. catalog \in [Fids -> Nat] /\ cstat \in Nat
    BY <2>1, Zenon DEF TypeOK
  <2> QED
    BY <2>1, <2>2, <2>3, AliveStable, Zenon
<1>2. CASE catalog' = catalog
  BY <1>1, <1>2, Zenon DEF Reflected
<1>3. CASE WriteEntry
  <2>1. /\ cstat # 0 => catalog[log[cur].fid] <= cstat
        /\ catalog' = IF cstat = 0 THEN catalog
                                   ELSE [catalog EXCEPT ![log[cur].fid] = cstat]
    BY <1>3, Zenon DEF WriteEntry, StatRecent
  <2>2. catalog'[log[i].fid] >= catalog[log[i].fid]
    BY <1>1, <2>1
  <2>3. catalog'[log[i].fid] \in Nat
    BY <1>1, <2>1, Zenon
  <2> QED
    BY <1>1, <2>2, <2>3 DEF Reflected
<1>4. CASE RemoveEntry
  <2>1. ~Alive(log[cur].fid) /\ catalog' = [catalog EXCEPT ![log[cur].fid] = 0]
    BY <1>4, RemovedIsGone, Zenon DEF RemoveEntry
  <2> QED
    BY <1>1, <2>1, Zenon DEF Reflected
<1> QED
  BY <1>2, <1>3, <1>4, CatalogStep, Zenon

(* A covered prefix of the log stays covered. *)
LEMMA CoveredStable ==
  ASSUME Base, StatRecent, [Next]_vars, NEW n \in Nat, n <= Len(log), Covered(n)
  PROVE  Covered(n)'
<1> SUFFICES ASSUME NEW i \in Indices', i <= n
             PROVE  Reflected(i)'
  BY Zenon DEF Covered
<1>1. i \in Indices
  BY LogGrows DEF Base, Indices
<1> QED
  BY <1>1, ReflectedStable, Zenon DEF Covered

(* A stat result held across the await stays newer than the row (restat_entry). *)
LEMMA StatRecentNext ==
  ASSUME StatReliable, Base, StatRecent, [Next]_vars
  PROVE  StatRecent'
<1> SUFFICES ASSUME cpc' = "write"
             PROVE  IF cstat' = 0 THEN ~Alive(log[cur].fid)'
                                  ELSE catalog'[log'[cur'].fid] <= cstat'
  BY Zenon DEF StatRecent
<1>0. TypeOK /\ LogWellFormed /\ RecordsWithinLog /\ PositionsWithinLog
  BY Zenon DEF Base
<1>1. CASE StatEntry
  <2>1. /\ cur \in Indices /\ log' = log /\ cur' = cur /\ catalog' = catalog
        /\ cstat' = IF Alive(log[cur].fid) THEN Len(log) ELSE 0
    BY <1>0, <1>1, Zenon DEF StatEntry, StatReliable, mdtVars, RecordsWithinLog
  <2>2. Len(log) \in Nat /\ Len(log) # 0 /\ log[cur].fid \in Fids
    BY <1>0, <2>1, RecordType
  <2>3. catalog[log[cur].fid] <= Len(log)
    BY <1>0, <2>2, Zenon DEF PositionsWithinLog
  <2>4. Alive(log[cur].fid)' <=> Alive(log[cur].fid)
    BY <2>1, Zenon DEF Alive, Known, Gone, Indices
  <2> QED
    BY <2>1, <2>2, <2>3, <2>4, Zenon
<1>2. CASE cpc = "write" /\ UNCHANGED <<cur, cstat, catalog>>
  <2>1. PICK c \in Indices : c = cur
    BY <1>0, <1>2, Zenon DEF RecordsWithinLog
  <2>2. log'[c] = log[c] /\ (Alive(log[c].fid)' => Alive(log[c].fid))
    BY <1>0, AliveStable, Zenon
  <2>3. Alive(log[c].fid)' <=> Alive(log[cur].fid)'
    BY <1>2, <2>1, Zenon DEF Alive, Known, Gone
  <2> QED
    BY <1>2, <2>1, <2>2, <2>3, Zenon DEF StatRecent
<1>3. ASSUME NEW g \in Listeners, ListenerNext(g) \/ Spawn(g)
      PROVE  cpc = "write" /\ UNCHANGED <<cur, cstat, catalog>>
  BY <1>3, ZenonT(30) DEF ListenerNext, Open, SeeCancel, Recv, EndDrain, Send, SendToClosed,
     KeepCheckpoint, PersistCursor, ClearChangelog, ClearFails, ListenerEnds, Spawn, ingestVars
<1>4. CASE IngestNext
  BY <1>1, <1>4, Zenon DEF IngestNext, NextBatch, Deliver, IngestEnds, WriteEntry, RemoveEntry,
     KeepEntry, ApplyFails, Commit, CommitToClosed, IngestReturns
<1> QED
  BY <1>2, <1>3, <1>4, Zenon DEF Next, MdtAppend, Cancel, Crash, vars, ingestVars

-----------------------------------------------------------------------------
(* The drain skips nothing that matters *)

(* No drain is under way at the start. *)
LEMMA DrainInit == Init => DrainComplete
BY Zenon DEF Init, DrainComplete, All

(* A drain passes over nothing but skipped and purged records (run_polling_loop). *)
LEMMA DrainNext ==
  ASSUME Base, DrainComplete, [Next]_vars
  PROVE  DrainComplete'
<1> DEFINE Draining(h) == pc[h] \in {"drain", "send"}
           Complete(h) == /\ seen[h] <= pos[h]
                          /\ \A i \in Indices : seen[h] < i /\ i <= pos[h] =>
                                i <= cleared \/ log[i].kind = "SKIP"
<1>1. /\ TypeOK /\ Len(log) \in Nat /\ cleared \in Nat /\ cleared' \in Nat
      /\ pc \in [Listeners -> ListenerPcs]
      /\ seen \in [Listeners -> Nat] /\ pos \in [Listeners -> Nat]
      /\ \A h \in Listeners : pos[h] <= Len(log)
  <2>1. TypeOK /\ TypeOK' /\ PositionsWithinLog
    BY TypeNext, Zenon DEF Base
  <2>2. cleared' \in Nat
    BY <2>1, Zenon DEF TypeOK
  <2>3. \A h \in Listeners : pos[h] <= Len(log)
    BY <2>1, Zenon DEF PositionsWithinLog
  <2>4. Len(log) \in Nat /\ cleared \in Nat
    BY <2>1 DEF TypeOK
  <2> QED
    BY <2>1, <2>2, <2>3, <2>4, Zenon DEF TypeOK
<1>2. cleared <= cleared'
  <2>1. ASSUME NEW g \in Listeners, ClearChangelog(g)
        PROVE  cleared <= cleared'
    BY <1>1, <2>1 DEF ClearChangelog, Larger, TypeOK
  <2>2. ASSUME NEW g \in Listeners, ListenerNext(g) \/ Spawn(g), ~ClearChangelog(g)
        PROVE  cleared = cleared'
    BY <2>2, ZenonT(30) DEF ListenerNext, Open, SeeCancel, Recv, EndDrain, Send, SendToClosed,
       KeepCheckpoint, PersistCursor, ClearFails, ListenerEnds, Spawn, mdtVars
  <2>3. ASSUME IngestNext
        PROVE  cleared' = cleared
    BY <2>3, ZenonT(30) DEF IngestNext, NextBatch, IngestEnds, StatEntry, WriteEntry, RemoveEntry,
       KeepEntry, ApplyFails, Commit, CommitToClosed, mdtVars
  <2>4. cleared' = cleared \/ \E g \in Listeners : ClearChangelog(g)
    BY <2>2, <2>3, Zenon DEF Next, MdtAppend, Cancel, Crash, vars, mdtVars
  <2> QED
    BY <1>1, <2>1, <2>4
<1>3. \A i \in Indices' : i \in Indices \/ i > Len(log)
  BY <1>1 DEF Indices
<1>4. \A i \in Indices : log'[i] = log[i] /\ i \in Nat
  BY AliveStable DEF Base, Indices
<1>5. ASSUME NEW h \in Listeners, Draining(h), seen'[h] = seen[h], pos'[h] = pos[h]
      PROVE  Complete(h)'
  <2>1. Complete(h)
    BY <1>5, Zenon DEF DrainComplete
  <2>2. seen[h] \in Nat /\ pos[h] \in Nat /\ pos[h] <= Len(log)
    BY <1>1, Zenon
  <2>3. ASSUME NEW i \in Indices', seen'[h] < i, i <= pos'[h]
        PROVE  i <= cleared' \/ log'[i].kind = "SKIP"
    <3>1. i \in Indices
      <4>1. i <= pos[h] /\ i \in Nat /\ i >= 1
        BY <1>5, <2>3 DEF Indices
      <4> QED
        BY <1>1, <2>2, <4>1 DEF Indices
    <3>2. i <= cleared \/ log[i].kind = "SKIP"
      BY <1>5, <2>1, <2>3, <3>1, Zenon
    <3>3. i \in Nat /\ log'[i] = log[i]
      BY <1>4, <3>1, Zenon
    <3>4. i <= cleared => i <= cleared'
      BY <1>1, <1>2, <3>3
    <3> QED
      BY <3>2, <3>3, <3>4, Zenon
  <2> QED
    BY <1>5, <2>1, <2>3, Zenon
<1>6. ASSUME NEW h \in Listeners, seen'[h] = pos'[h], pos'[h] \in Nat
      PROVE  Complete(h)'
  BY <1>1, <1>6 DEF Indices
<1>7. ASSUME NEW h \in Listeners, Draining(h)'
      PROVE  Complete(h)'
  <2>1. CASE UNCHANGED <<pc, seen, pos>>
    BY <1>5, <1>7, <2>1, ZenonT(30)
  <2>2. ASSUME NEW g \in Listeners, ListenerNext(g)
        PROVE  Complete(h)'
    <3>1. CASE g # h
      <4>1. pc'[h] = pc[h] /\ seen'[h] = seen[h] /\ pos'[h] = pos[h]
        BY <1>1, <2>2, <3>1, ZenonT(30) DEF ListenerNext, Open, SeeCancel, Recv, EndDrain, Send,
           SendToClosed, KeepCheckpoint, TakeAcks, PersistCursor, ClearChangelog, ClearFails,
           ListenerEnds, Return, Resume
      <4> QED
        BY <1>5, <1>7, <4>1, Zenon
    <3>2. CASE g = h /\ Open(g)
      BY <1>1, <1>6, <3>2, ZenonT(30) DEF Open
    <3>3. CASE g = h /\ Send(g)
      <4>1. pc[g] \in {"send", "flush"} /\ pc' = [pc EXCEPT ![g] = IF @ = "send" THEN "drain" ELSE "acks"]
            /\ UNCHANGED <<seen, pos>>
        BY <3>3, Zenon DEF Send
      <4>2. pc[g] = "send"
        BY <1>1, <1>7, <3>3, <4>1, Zenon
      <4> QED
        BY <1>5, <3>3, <4>1, <4>2, Zenon
    <3>4. CASE g = h /\ Recv(g)
      <4> DEFINE i == Larger(pos[g], cleared) + 1
      <4>1. /\ i \in Nat /\ i > pos[g] /\ i \in Indices
            /\ \A j \in Nat : j < i => j <= pos[g] \/ j <= cleared
        BY <1>1, <3>4, RecvFacts, Zenon
      <4>2. /\ pos' = [pos EXCEPT ![g] = i] /\ log' = log /\ cleared' = cleared
            /\ \/ log[i].kind = "SKIP" /\ seen' = seen
               \/ seen' = [seen EXCEPT ![g] = i]
        BY <3>4, ZenonT(30) DEF Recv, mdtVars
      <4>3. Complete(g)
        BY <3>4, Zenon DEF DrainComplete, Recv
      <4> HIDE DEF i
      <4>4. CASE seen' = [seen EXCEPT ![g] = i]
        BY <1>1, <1>6, <3>4, <4>1, <4>2, <4>4, Zenon
      <4>5. CASE log[i].kind = "SKIP" /\ seen' = seen
        <5>1. pos'[g] = i /\ seen'[g] = seen[g] /\ seen[g] \in Nat /\ pos[g] \in Nat
          BY <1>1, <4>2, <4>5, Zenon
        <5>2. ASSUME NEW j \in Indices, seen[g] < j, j <= i
              PROVE  j <= cleared \/ log[j].kind = "SKIP"
          <6>1. j \in Nat
            BY DEF Indices
          <6>2. CASE j = i
            BY <4>5, <6>2, Zenon
          <6>3. CASE j < i
            BY <4>1, <4>3, <5>2, <6>1, <6>3, Zenon
          <6>4. j = i \/ j < i
            BY <4>1, <5>2, <6>1
          <6> QED
            BY <6>2, <6>3, <6>4, Zenon
        <5>3. seen[g] <= pos[g]
          BY <4>3, Zenon
        <5>4. seen[g] <= i
          BY <4>1, <5>1, <5>3
        <5>5. Indices' = Indices /\ log' = log /\ cleared' = cleared
          BY <4>2, Zenon DEF Indices
        <5> QED
          BY <3>4, <5>1, <5>2, <5>4, <5>5, Zenon
      <4> QED
        BY <4>2, <4>4, <4>5, Zenon
    <3> QED
      <4>1. CASE g = h /\ ~Open(g) /\ ~Send(g) /\ ~Recv(g)
        <5>1. pc'[h] \notin {"drain", "send"}
          BY <1>1, <2>2, <4>1, Zenon DEF ListenerNext, SeeCancel, EndDrain,
             SendToClosed, KeepCheckpoint, TakeAcks, PersistCursor, ClearChangelog, ClearFails,
             ListenerEnds, Return, Resume
        <5> QED
          BY <1>7, <5>1, Zenon
      <4> QED
        BY <3>1, <3>2, <3>3, <3>4, <4>1, Zenon
  <2>3. ASSUME NEW g \in Listeners, Spawn(g)
        PROVE  Complete(h)'
    <3>1. h # g /\ pc'[h] = pc[h] /\ seen'[h] = seen[h] /\ pos' = pos
      BY <1>1, <1>7, <2>3, Zenon DEF Spawn
    <3> QED
      BY <1>5, <1>7, <3>1, Zenon
  <2>4. CASE Crash
    BY <1>7, <2>4, Zenon DEF Crash, All
  <2>5. CASE IngestNext
    BY <2>1, <2>5, Zenon DEF IngestNext, NextBatch, IngestEnds, StatEntry, WriteEntry, RemoveEntry,
       KeepEntry, ApplyFails, Commit, CommitToClosed, listenerVars
  <2> QED
    BY <2>1, <2>2, <2>3, <2>4, <2>5, ZenonT(30) DEF Next, MdtAppend, Cancel, vars, listenerVars
<1> QED
  BY <1>7, Zenon DEF DrainComplete

-----------------------------------------------------------------------------
(* Events are applied in order *)

(* The steps of a listener that the ingest loop does not notice. *)
Unnoticed ==
  /\ UNCHANGED <<gen, cpc, ready, cur, cstat>>
  /\ batch'[gen] = batch[gen] /\ out'[gen] = out[gen]
  /\ events'[gen] = events[gen] /\ seen'[gen] = seen[gen]
  /\ pc[gen] = "done" <=> pc'[gen] = "done"

(* Most listener steps change nothing that order and repair depend on. *)
LEMMA ListenerUnnoticed ==
  ASSUME Base, NEW g \in Listeners, ListenerNext(g), cpc # "down"
  PROVE  \/ Unnoticed
         \/ g = gen /\ (Recv(g) \/ EndDrain(g) \/ Send(g) \/ ListenerEnds(g))
<1>1. /\ pc \in [Listeners -> ListenerPcs] /\ gen \in Listeners
      /\ batch \in [Listeners -> SUBSET Nat] /\ out \in [Listeners -> SUBSET Nat]
      /\ events \in [Listeners -> Seq(SUBSET Nat)] /\ seen \in [Listeners -> Nat]
  BY Zenon DEF Base, TypeOK
<1>2. CASE g # gen
  BY <1>1, <1>2, Zenon DEF ListenerNext, Open, SeeCancel, Recv, EndDrain, Send, SendToClosed,
     KeepCheckpoint, TakeAcks, PersistCursor, ClearChangelog, ClearFails, ListenerEnds,
     Return, Resume, Unnoticed, ingestVars
<1>3. CASE g = gen
  <2>1. ~SendToClosed(g)
    BY <1>3, Zenon DEF SendToClosed, Attached
  <2> QED
    BY <1>1, <1>3, <2>1, Zenon DEF ListenerNext, Open, SeeCancel, KeepCheckpoint, TakeAcks,
       PersistCursor, ClearChangelog, ClearFails, Resume, AckPcs, ClearPcs, Unnoticed,
       ingestVars
<1> QED
  BY <1>2, <1>3, Zenon

(* Nothing is in flight at the start. *)
LEMMA OrderInit == Init => InOrder
BY Zenon DEF Init, InOrder

(* The members of all these sets are numbers. *)
LEMMA FlightType ==
  ASSUME Base
  PROVE  /\ Held \subseteq Nat /\ Channel \subseteq Nat /\ ready \subseteq Nat
         /\ cur \in Nat /\ seen[gen] \in Nat /\ gen \in Listeners
         /\ events[gen] \in Seq(SUBSET Nat) /\ pos[gen] \in Nat
<1>1. TypeOK
  BY Zenon DEF Base
<1>2. /\ gen \in Listeners /\ events[gen] \in Seq(SUBSET Nat)
      /\ batch[gen] \in SUBSET Nat /\ out[gen] \in SUBSET Nat
  BY <1>1, Zenon DEF TypeOK
<1>3. ready \subseteq Nat /\ cur \in Nat /\ seen[gen] \in Nat /\ pos[gen] \in Nat
  BY <1>1, Zenon DEF TypeOK
<1> QED
  BY <1>2, <1>3 DEF Held, Channel

(* A step that adds nothing to what is in flight keeps the order. *)
LEMMA OrderKept ==
  ASSUME InOrder, UNCHANGED <<gen, cpc, ready, cur>>, events'[gen] = events[gen],
         Held' \subseteq Held, Channel' = Channel,
         pc'[gen] # "done" => pc[gen] # "done" /\ seen'[gen] = seen[gen]
  PROVE  InOrder'
BY Zenon DEF InOrder

(* Steps of other listeners keep the order. *)
LEMMA OrderUnnoticed ==
  ASSUME InOrder, Unnoticed
  PROVE  InOrder'
<1>1. Held' = Held /\ Channel' = Channel
  BY DEF Unnoticed, Held, Channel
<1> QED
  BY <1>1, OrderKept, Zenon DEF Unnoticed

(* A record that is read comes after all in flight (Deduplicator::push). *)
LEMMA OrderRecv ==
  ASSUME Base, DrainComplete, InOrder, cpc # "down", Recv(gen)
  PROVE  InOrder'
<1> DEFINE i == Larger(pos[gen], cleared) + 1
           b == push(log, batch[gen], i)
<1>0. TypeOK /\ ControlState /\ gen \in Listeners
  BY Zenon DEF Base, TypeOK
<1>1. i \in Nat /\ i > pos[gen] /\ pos[gen] >= seen[gen]
  BY <1>0, RecvFacts, Zenon DEF DrainComplete, Recv
<1>2. out[gen] = {}
  BY <1>0, Zenon DEF ControlState, Recv
<1>3. b \subseteq batch[gen] \cup {i}
  BY PushBound
<1>4. /\ pc[gen] = "drain"
      /\ UNCHANGED <<gen, cpc, ready, cur, events>>
      /\ \/ UNCHANGED <<pc, seen, batch, out>>
         \/ /\ seen' = [seen EXCEPT ![gen] = i]
            /\ \/ /\ pc' = [pc EXCEPT ![gen] = "send"]
                  /\ batch' = [batch EXCEPT ![gen] = {}]
                  /\ out' = [out EXCEPT ![gen] = b]
               \/ /\ batch' = [batch EXCEPT ![gen] = b]
                  /\ UNCHANGED <<pc, out>>
  BY Zenon DEF Recv, ingestVars
<1> HIDE DEF i, b
<1>5. CASE UNCHANGED <<pc, seen, batch, out>>
  BY <1>4, <1>5 DEF InOrder, Held, Channel
<1>6. CASE seen' = [seen EXCEPT ![gen] = i]
  <2>1. /\ pc \in [Listeners -> ListenerPcs] /\ batch \in [Listeners -> SUBSET Nat]
        /\ out \in [Listeners -> SUBSET Nat] /\ seen \in [Listeners -> Nat]
    BY <1>0, Zenon DEF TypeOK
  <2>2. Channel' = Channel
    BY <1>4 DEF Channel
  <2>3. Held' \subseteq Held \cup {i}
    BY <1>0, <1>2, <1>3, <1>4, <1>6, <2>1, Zenon DEF Held
  <2>4. seen'[gen] = i
    BY <1>0, <1>6, <2>1, Zenon
  <2>5. \A m \in Held \cup Channel \cup ready \cup {cur} : m <= seen[gen] /\ m \in Nat
    BY <1>4, FlightType, Zenon DEF InOrder
  <2>6. \A m \in Held \cup Channel \cup ready \cup {cur} : m < i
    BY <1>1, <2>5, FlightType
  <2>7. \A m \in Held' : cur < m /\ \A n \in ready \cup Channel : n < m
    BY <2>3, <2>6, Zenon DEF InOrder
  <2>8. \A m \in Held' \cup Channel \cup ready \cup {cur} : m <= i
    BY <1>1, <2>3, <2>5, <2>6
  <2> QED
    BY <1>4, <2>2, <2>4, <2>7, <2>8 DEF InOrder
<1> QED
  BY <1>4, <1>5, <1>6, Zenon

(* A batch enters the channel behind those sent before (blocking_send). *)
LEMMA OrderSend ==
  ASSUME Base, InOrder, cpc # "down", Send(gen)
  PROVE  InOrder'
<1>0. ControlState /\ gen \in Listeners
  BY Zenon DEF Base, TypeOK
<1>1. batch[gen] = {} /\ Held = out[gen]
  BY <1>0, Zenon DEF Send, ControlState, Held
<1>2. /\ UNCHANGED <<gen, cpc, ready, cur, batch, seen>>
      /\ events'[gen] = Append(events[gen], out[gen])
      /\ out'[gen] = {} /\ pc[gen] # "done"
  BY <1>0, Zenon DEF Send, ingestVars, Base, TypeOK
<1>3. Held' = {}
  BY <1>1, <1>2, Zenon DEF Held
<1>4. /\ events[gen] \in Seq(SUBSET Nat) /\ out[gen] \in SUBSET Nat
      /\ Len(events[gen]) \in Nat
      /\ Len(events'[gen]) = Len(events[gen]) + 1
      /\ \A j \in 1..Len(events[gen]) : events'[gen][j] = events[gen][j]
      /\ events'[gen][Len(events[gen]) + 1] = out[gen]
  BY <1>0, <1>1, <1>2, FlightType
<1>5. Channel' = Channel \cup Held
  <2>1. \A j \in 1..Len(events'[gen]) : j \in 1..Len(events[gen]) \/ j = Len(events[gen]) + 1
    BY <1>4
  <2> QED
    BY <1>1, <1>2, <1>4, <2>1 DEF Channel
<1>6. ASSUME NEW j \in 1..Len(events'[gen]), NEW k \in 1..Len(events'[gen]), j < k,
             NEW m \in events'[gen][j], NEW n \in events'[gen][k]
      PROVE  m < n
  <2>1. j \in 1..Len(events[gen]) /\ events'[gen][j] = events[gen][j]
    BY <1>4, <1>6
  <2>2. CASE k \in 1..Len(events[gen])
    BY <1>4, <1>6, <2>1, <2>2, Zenon DEF InOrder
  <2>3. CASE k = Len(events[gen]) + 1
    <3>1. m \in Channel /\ n \in Held
      BY <1>1, <1>4, <1>6, <2>1, <2>3, Zenon DEF Channel
    <3> QED
      BY <3>1, Zenon DEF InOrder
  <2> QED
    BY <1>4, <2>2, <2>3
<1>7. /\ \A m \in Channel' : cur < m /\ \A n \in ready : n < m
      /\ \A m \in Channel' \cup ready \cup {cur} : m <= seen[gen]
  BY <1>2, <1>5, Zenon DEF InOrder
<1> QED
  BY <1>2, <1>3, <1>6, <1>7, Zenon DEF InOrder

(* The tail of a sequence. *)
LEMMA TailFacts ==
  ASSUME NEW S, NEW s \in Seq(S), s # <<>>
  PROVE  /\ Len(s) \in Nat /\ Len(Tail(s)) = Len(s) - 1
         /\ \A j \in 1..Len(Tail(s)) : Tail(s)[j] = s[j + 1]
<1>1. Len(s) \in Nat /\ Len(s) # 0
  OBVIOUS
<1>2. Len(Tail(s)) = Len(s) - 1
  BY <1>1
<1> QED
  BY <1>1, <1>2

(* The next batch is received before those behind it (LustreChangeSource::next_batch). *)
LEMMA OrderNextBatch ==
  ASSUME Base, InOrder, NextBatch
  PROVE  InOrder'
<1>0. /\ cpc = "recv" /\ cpc' = "apply"
      /\ UNCHANGED <<gen, batch, out, seen, pc>>
  BY Zenon DEF NextBatch, Deliver, listenerVars
<1>1. Held' = Held
  BY <1>0, Zenon DEF Held
<1>2. CASE ready # {}
  <2>1. PICK i \in ready : Deliver(ready, i)
    BY <1>2, Zenon DEF NextBatch
  <2>2. /\ cur' = i /\ ready' = ready \ {i} /\ events' = events
        /\ \A j \in ready : i <= j
    BY <1>2, <2>1, Zenon DEF NextBatch, Deliver
  <2>3. Channel' = Channel
    BY <1>0, <2>2, Zenon DEF Channel
  <2>4. \A m \in ready' : cur' < m
    BY <2>1, <2>2, FlightType
  <2> QED
    BY <1>0, <1>1, <2>1, <2>2, <2>3, <2>4 DEF InOrder
<1>3. CASE ready = {}
  <2>1. events[gen] # <<>> /\ events' = [events EXCEPT ![gen] = Tail(@)]
    BY <1>3, Zenon DEF NextBatch
  <2>2. PICK i \in Head(events[gen]) : Deliver(Head(events[gen]), i)
    BY <1>3, Zenon DEF NextBatch
  <2> DEFINE H == Head(events[gen])
  <2>3. cur' = i /\ ready' = H \ {i} /\ \A j \in H : i <= j
    BY <2>2, Zenon DEF Deliver
  <2>4. /\ H = events[gen][1] /\ 1 \in 1..Len(events[gen]) /\ H \subseteq Nat
        /\ events'[gen] = Tail(events[gen])
        /\ Len(events[gen]) \in Nat /\ Len(events'[gen]) = Len(events[gen]) - 1
        /\ \A j \in 1..Len(events'[gen]) : events'[gen][j] = events[gen][j + 1]
    <3>1. events[gen] \in Seq(SUBSET Nat) /\ events'[gen] = Tail(events[gen])
      BY <2>1, FlightType, Zenon DEF Base, TypeOK
    <3>2. H = events[gen][1] /\ 1 \in 1..Len(events[gen])
      BY <2>1, <3>1
    <3>3. H \subseteq Nat
      BY <3>1, <3>2
    <3>4. /\ Len(events[gen]) \in Nat /\ Len(events'[gen]) = Len(events[gen]) - 1
          /\ \A j \in 1..Len(events'[gen]) : events'[gen][j] = events[gen][j + 1]
      BY <2>1, <3>1, TailFacts, Zenon
    <3> QED
      BY <3>1, <3>2, <3>3, <3>4, Zenon
  <2>5. H \subseteq Channel /\ Channel' \subseteq Channel
    <3>1. \A j \in 1..Len(events'[gen]) : j + 1 \in 1..Len(events[gen])
      BY <2>4
    <3>2. gen' = gen
      BY <1>0, Zenon
    <3>3. H \subseteq Channel
      BY <2>4, Zenon DEF Channel
    <3>4. ASSUME NEW x \in Channel' PROVE x \in Channel
      <4>1. PICK j \in 1..Len(events'[gen]) : x \in events'[gen][j]
        BY <3>2, Zenon DEF Channel
      <4>2. x \in events[gen][j + 1]
        BY <2>4, <4>1, Zenon
      <4> QED
        BY <3>1, <4>1, <4>2, Zenon DEF Channel
    <3> QED
      BY <3>3, <3>4, Zenon
  <2>6. \A m \in H, n \in Channel' : m < n
    <3> SUFFICES ASSUME NEW m \in H, NEW j \in 1..Len(events'[gen]),
                        NEW n \in events'[gen][j]
                 PROVE  m < n
      BY <1>0 DEF Channel
    <3>1. j + 1 \in 1..Len(events[gen]) /\ n \in events[gen][j + 1] /\ 1 < j + 1
      BY <2>4
    <3> QED
      BY <1>0, <2>4, <3>1, Zenon DEF InOrder
  <2>7. ASSUME NEW j \in 1..Len(events'[gen]), NEW k \in 1..Len(events'[gen]), j < k,
               NEW m \in events'[gen][j], NEW n \in events'[gen][k]
        PROVE  m < n
    <3>1. /\ j + 1 \in 1..Len(events[gen]) /\ m \in events[gen][j + 1]
          /\ k + 1 \in 1..Len(events[gen]) /\ n \in events[gen][k + 1]
          /\ j + 1 < k + 1
      BY <2>4, <2>7
    <3> QED
      BY <1>0, <3>1, Zenon DEF InOrder
  <2>8. \A m \in ready' : cur' < m
    BY <2>2, <2>3, <2>4
  <2> HIDE DEF H
  <2>9. \A m \in Channel' : cur' < m /\ \A n \in ready' : n < m
    BY <2>2, <2>3, <2>6, Zenon DEF H
  <2>10. \A m \in Held' : cur' < m /\ \A n \in ready' \cup Channel' : n < m
    BY <1>0, <1>1, <2>2, <2>3, <2>5, Zenon DEF InOrder, H
  <2>11. pc'[gen'] # "done" =>
           \A m \in Held' \cup Channel' \cup ready' \cup {cur'} : m <= seen'[gen']
    BY <1>0, <1>1, <2>2, <2>3, <2>5, Zenon DEF InOrder, H
  <2> QED
    BY <1>0, <2>7, <2>8, <2>9, <2>10, <2>11, Zenon DEF InOrder
<1> QED
  BY <1>2, <1>3, Zenon

(* Every step keeps the order of the events in flight. *)
LEMMA OrderNext ==
  ASSUME Base, DrainComplete, InOrder, [Next]_vars
  PROVE  InOrder'
<1>1. CASE cpc' = "down"
  BY <1>1, Zenon DEF InOrder
<1>2. ASSUME NEW g \in Listeners, ListenerNext(g), cpc' # "down"
      PROVE  InOrder'
  <2>1. cpc # "down"
    BY <1>2, Zenon DEF ListenerNext, Open, SeeCancel, Recv, EndDrain, Send, SendToClosed,
       KeepCheckpoint, PersistCursor, ClearChangelog, ClearFails, ListenerEnds, ingestVars
  <2>2. CASE Unnoticed
    BY <2>2, OrderUnnoticed, Zenon
  <2>3. CASE g = gen /\ EndDrain(g)
    <3>1. /\ UNCHANGED <<gen, cpc, ready, cur, events, seen>>
          /\ batch'[gen] = {} /\ out'[gen] = batch[gen] /\ out[gen] = {}
          /\ pc[gen] # "done" /\ pc'[gen] # "done"
      BY <2>3, Zenon DEF EndDrain, ingestVars, Base, TypeOK, ControlState
    <3>2. Held' = Held /\ Channel' = Channel
      BY <3>1, ZenonT(30) DEF Held, Channel
    <3> QED
      BY <3>1, <3>2, OrderKept, Zenon
  <2>4. CASE g = gen /\ ListenerEnds(g)
    <3>1. /\ UNCHANGED <<gen, cpc, ready, cur, events>>
          /\ batch'[gen] = {} /\ out'[gen] = {} /\ pc'[gen] = "done"
      BY <2>4, Zenon DEF ListenerEnds, Return, ingestVars, Base, TypeOK
    <3>2. Held' = {} /\ Channel' = Channel
      BY <3>1 DEF Held, Channel
    <3> QED
      BY <3>1, <3>2, OrderKept, Zenon
  <2> QED
    BY <1>2, <2>1, <2>2, <2>3, <2>4, ListenerUnnoticed, OrderRecv, OrderSend, Zenon
<1>3. ASSUME NEW g \in Listeners, Spawn(g)
      PROVE  InOrder'
  <2>1. /\ gen' = g /\ ready' = {} /\ cur' = 0 /\ events'[g] = <<>>
        /\ batch'[g] = {} /\ out'[g] = {} /\ seen'[g] = cursor /\ cursor \in Nat
    BY <1>3, Zenon DEF Spawn, Base, ControlState, Attached, TypeOK
  <2>2. Held' = {} /\ Channel' = {} /\ Len(events'[g]) = 0
    BY <2>1 DEF Held, Channel
  <2> QED
    BY <2>1, <2>2 DEF InOrder
<1>4. ASSUME IngestNext, cpc' # "down", ~NextBatch
      PROVE  InOrder'
  <2>1. /\ cpc # "down" /\ (cur' = cur \/ cur' = 0)
        /\ UNCHANGED <<gen, ready, events, batch, out, seen, pc>>
    BY <1>4, Zenon DEF IngestNext, IngestEnds, StatEntry, WriteEntry, RemoveEntry, KeepEntry,
       ApplyFails, Commit, CommitToClosed, IngestReturns, listenerVars
  <2>2. Held' = Held /\ Channel' = Channel
    BY <2>1 DEF Held, Channel
  <2>3. \A m \in Held \cup Channel \cup ready : cur < m => cur' < m
    BY <2>1, FlightType
  <2>4. cur' <= cur
    BY <2>1, FlightType
  <2>5. pc[gen] # "done" => cur' <= seen[gen]
    BY <2>1, <2>4, FlightType DEF InOrder
  <2> QED
    BY <2>1, <2>2, <2>3, <2>5 DEF InOrder
<1>5. CASE UNCHANGED <<gen, cpc, ready, cur, cstat, batch, out, events, seen, pc>>
  BY <1>5, OrderUnnoticed, Zenon DEF Unnoticed
<1> QED
  BY <1>1, <1>2, <1>3, <1>4, <1>5, OrderNextBatch, Zenon
  DEF Next, MdtAppend, Cancel, Crash, vars, listenerVars, ingestVars

-----------------------------------------------------------------------------
(* What is read is reflected or will be *)

(* What push drops: events of a file that record i removes, and events     *)
(* that a pending one makes redundant.                                     *)
LEMMA PushKeeps ==
  ASSUME NEW L, NEW Q, NEW i
  PROVE  /\ \A m \in Q : \/ m \in push(L, Q, i)
                         \/ L[m].fid = L[i].fid /\ L[i].kind \in RemoveKinds
         /\ \/ i \in push(L, Q, i)
            \/ L[i].kind \in RemoveKinds
            \/ \E j \in push(L, Q, i) : L[j].fid = L[i].fid /\ L[j].kind \in RestatKinds
<1>1. should_cancel(L, Q, i) => L[i].kind \in RemoveKinds
  BY Zenon DEF should_cancel, LatestPartner, is_cancel_partner, RemoveKinds
<1>2. \A m \in LatestPartner(L, Q, i) : L[m].fid = L[i].fid
  BY Zenon DEF LatestPartner, QueueOf
<1>3. Dominating(L[i].kind) \subseteq RestatKinds
  BY Zenon DEF Dominating, RestatKinds
<1>4. is_masked(L, Q, i) =>
        \E j \in Q : L[j].fid = L[i].fid /\ L[j].kind \in RestatKinds
  BY <1>3, Zenon DEF is_masked, QueueOf
<1>5. CASE should_cancel(L, Q, i)
  BY <1>1, <1>2, <1>5, Zenon DEF push
<1>6. CASE ~should_cancel(L, Q, i) /\ is_masked(L, Q, i)
  <2>1. push(L, Q, i) = Q
    BY <1>6, Zenon DEF push
  <2> QED
    BY <1>4, <1>6, <2>1, Zenon
<1>7. CASE ~should_cancel(L, Q, i) /\ ~is_masked(L, Q, i)
  BY <1>7, Zenon DEF push
<1> QED
  BY <1>5, <1>6, <1>7, Zenon

(* The file of a removal is gone. *)
LEMMA RemovedReflected ==
  ASSUME NEW i \in Indices, NEW k, log[i].kind \in RemoveKinds, log[k].fid = log[i].fid
  PROVE  Reflected(k)
BY Zenon DEF Reflected, Alive, Gone

(* A record that is ignored needs no work. *)
LEMMA SkippedReflected ==
  ASSUME NEW k, log[k].kind = "SKIP"
  PROVE  Reflected(k)
BY Zenon DEF Reflected, DataKinds, CreateKinds, RestatKinds

(* A step that adds to what is in flight keeps every repair. *)
LEMMA RepairedKept ==
  ASSUME Base, StatRecent, ReadIsRepaired, [Next]_vars,
         Serving' => /\ Serving /\ gen' = gen /\ seen'[gen] = seen[gen]
                     /\ Flight \subseteq Flight'
                     /\ cpc' = "write" => cpc = "write" /\ cur' = cur /\ cstat' = cstat
  PROVE  ReadIsRepaired'
<1> SUFFICES ASSUME Serving', NEW i \in Indices', i <= seen'[gen']
             PROVE  Reflected(i)' \/ \E m \in Flight' : Repairs(m, i)'
  BY Zenon DEF ReadIsRepaired
<1>1. i \in Indices /\ i <= seen[gen]
  <2>1. Len(log) \in Nat /\ seen[gen] \in Nat /\ seen[gen] <= Len(log) /\ Len(log') \in Nat
    BY LogGrows, Zenon DEF Base, PositionsWithinLog, TypeOK
  <2> QED
    BY <2>1 DEF Indices
<1>2. CASE Reflected(i)
  BY <1>1, <1>2, ReflectedStable, Zenon
<1>3. CASE \E m \in Flight : Repairs(m, i)
  <2>1. PICK m \in Flight : Repairs(m, i)
    BY <1>3, Zenon
  <2>2. m \in Indices
    <3>1. RecordsWithinLog /\ gen \in Listeners
      BY FlightType, Zenon DEF Base
    <3>2. Held \subseteq Indices /\ Channel \subseteq Indices
      BY <3>1, Zenon DEF RecordsWithinLog, Held, Channel
    <3>3. ready \subseteq Indices /\ Applying \subseteq Indices
      BY <3>1, Zenon DEF RecordsWithinLog, Applying
    <3> QED
      BY <3>2, <3>3, Zenon DEF Flight
  <2>3. log'[m] = log[m] /\ log'[i] = log[i]
    BY <1>1, <2>2, AliveStable, Zenon DEF Base
  <2>4. Repairs(m, i)'
    BY <2>1, <2>3, Zenon DEF Repairs
  <2> QED
    BY <2>1, <2>4, Zenon
<1> QED
  BY <1>1, <1>2, <1>3, Zenon DEF ReadIsRepaired

(* What push drops is repaired by an event in flight (Deduplicator::push). *)
LEMMA RepairedRecv ==
  ASSUME Base, StatRecent, InOrder, DrainComplete, CheckpointsCovered, ReadIsRepaired,
         Serving, Recv(gen)
  PROVE  ReadIsRepaired'
<1> DEFINE i == Larger(pos[gen], cleared) + 1
           b == push(log, batch[gen], i)
<1>1. /\ i \in Indices /\ i \in Nat /\ i > pos[gen]
      /\ \A j \in Nat : j < i => j <= pos[gen] \/ j <= cleared
  BY FlightType, RecvFacts, Zenon DEF Base
<1>2. /\ pc[gen] = "drain" /\ out[gen] = {} /\ pos[gen] >= seen[gen]
      /\ gen \in Listeners /\ seen[gen] \in Nat /\ cur \in Nat /\ pos[gen] \in Nat
  BY FlightType, Zenon DEF Recv, Base, ControlState, DrainComplete
<1>3. /\ UNCHANGED <<log, catalog, gen, cpc, ready, cur, cstat, events>>
      /\ \/ UNCHANGED <<pc, seen, batch, out>>
         \/ /\ seen'[gen] = i
            /\ batch'[gen] \cup out'[gen] = b
  <2>1. /\ UNCHANGED <<log, catalog, gen, cpc, ready, cur, cstat, events>>
        /\ \/ UNCHANGED <<pc, seen, batch, out>>
           \/ /\ seen' = [seen EXCEPT ![gen] = i]
              /\ \/ /\ batch' = [batch EXCEPT ![gen] = {}]
                    /\ out' = [out EXCEPT ![gen] = b]
                 \/ /\ batch' = [batch EXCEPT ![gen] = b]
                    /\ out' = out
    BY Zenon DEF Recv, ingestVars, mdtVars
  <2>2. /\ seen \in [Listeners -> Nat] /\ batch \in [Listeners -> SUBSET Nat]
        /\ out \in [Listeners -> SUBSET Nat]
    BY Zenon DEF Base, TypeOK
  <2> HIDE DEF i, b
  <2> QED
    BY <1>2, <2>1, <2>2, Zenon
<1>4. CASE UNCHANGED <<pc, seen, batch, out>>
  <2>1. Held' = Held /\ Channel' = Channel /\ Applying' = Applying /\ ready' = ready
    BY <1>3, <1>4, Zenon DEF Held, Channel, Applying
  <2>2. Flight' = Flight
    BY <2>1, Zenon DEF Flight
  <2>3. [Next]_vars
    BY <1>2, Zenon DEF Next, ListenerNext
  <2> QED
    BY <1>3, <1>4, <2>2, <2>3, RepairedKept, Zenon
<1>5. CASE seen'[gen] = i /\ batch'[gen] \cup out'[gen] = b
  <2> SUFFICES ASSUME NEW k \in Indices, k <= i
               PROVE  Reflected(k) \/ \E m \in Flight' : Repairs(m, k)
    <3> HIDE DEF i, b
    <3>1. Indices' = Indices /\ seen'[gen'] = i
      BY <1>3, <1>5, Zenon DEF Indices
    <3>2. \A k \in Indices : Reflected(k) => Reflected(k)'
      BY <1>3, Zenon DEF Reflected, Alive, Known, Gone, Indices
    <3>3. \A m, k : Repairs(m, k) => Repairs(m, k)'
      BY <1>3, Zenon DEF Repairs
    <3> QED
      BY <3>1, <3>2, <3>3, Zenon DEF ReadIsRepaired
  <2>1. Flight' = b \cup Channel \cup ready \cup Applying
    <3> HIDE DEF i, b
    <3>1. Held' = b
      BY <1>3, <1>5, Zenon DEF Held
    <3>2. Channel' = Channel /\ Applying' = Applying /\ ready' = ready
      BY <1>3 DEF Channel, Applying
    <3> QED
      BY <3>1, <3>2, Zenon DEF Flight
  <2>2. Held = batch[gen]
    BY <1>2, Zenon DEF Held
  <2>3. k \in Nat
    BY DEF Indices
  <2>4. \A m \in batch[gen] : m <= seen[gen] /\ cur < m /\ m \in Nat
    BY <1>2, <2>2, FlightType, Zenon DEF InOrder, Serving
  <2>5. cur <= seen[gen]
    BY Zenon DEF InOrder, Serving
  <2> HIDE DEF i, b
  <2>6. CASE k <= seen[gen]
    <3>1. CASE Reflected(k)
      BY <3>1, Zenon
    <3>2. CASE \E m \in Flight : Repairs(m, k)
      <4>1. PICK m \in Flight : Repairs(m, k)
        BY <3>2, Zenon
      <4>2. CASE m \in b \/ m \notin batch[gen]
        BY <2>1, <2>2, <4>1, <4>2, Zenon DEF Flight
      <4>3. CASE log[m].fid = log[i].fid /\ log[i].kind \in RemoveKinds
        BY <1>1, <4>1, <4>3, RemovedReflected, Zenon DEF Repairs
      <4> QED
        BY <4>2, <4>3, PushKeeps, Zenon DEF b
    <3> QED
      BY <2>6, <3>1, <3>2, Zenon DEF ReadIsRepaired
  <2>7. CASE seen[gen] < k /\ k < i
    <3>1. k <= cleared \/ log[k].kind = "SKIP"
      BY <1>1, <1>2, <2>3, <2>7, Zenon DEF DrainComplete
    <3>2. ASSUME k <= cleared
          PROVE  Reflected(k)
      <4>1. cleared <= cursor /\ cleared \in Nat /\ cursor \in Nat
        BY Zenon DEF Base, PurgeInv, ClearedBehindCursor, TypeOK
      <4>2. k <= cursor
        BY <2>3, <3>2, <4>1
      <4> QED
        BY <4>2, Zenon DEF CheckpointsCovered, Covered
    <3> QED
      BY <3>1, <3>2, SkippedReflected, Zenon
  <2>8. CASE k = i
    <3>1. CASE i \in b
      <4>1. CASE log[i].kind \in DataKinds
        <5>1. Repairs(i, i)
          BY <1>1, <1>2, <2>5, <4>1 DEF Repairs
        <5> QED
          BY <2>1, <2>8, <3>1, <5>1, Zenon
      <4>2. CASE log[i].kind \notin DataKinds
        BY <2>8, <4>2, Zenon DEF Reflected
      <4> QED
        BY <4>1, <4>2, Zenon
    <3>2. CASE log[i].kind \in RemoveKinds
      BY <1>1, <2>8, <3>2, RemovedReflected, Zenon
    <3>3. ASSUME NEW j \in b, log[j].fid = log[i].fid, log[j].kind \in RestatKinds
          PROVE  \E m \in Flight' : Repairs(m, k)
      <4>1. j \in batch[gen] \cup {i}
        BY PushBound, Zenon DEF b
      <4>2. j <= i /\ cur # j
        BY <1>1, <1>2, <2>4, <2>5, <4>1
      <4>3. Repairs(j, k)
        BY <2>8, <3>3, <4>2, Zenon DEF Repairs, DataKinds
      <4> QED
        BY <2>1, <4>3, Zenon
    <3> QED
      BY <3>1, <3>2, <3>3, PushKeeps, Zenon DEF b
  <2>9. k <= seen[gen] \/ (seen[gen] < k /\ k < i) \/ k = i
    BY <1>1, <1>2, <2>3
  <2> QED
    BY <2>6, <2>7, <2>8, <2>9, Zenon
<1> QED
  BY <1>3, <1>4, <1>5, Zenon

(* What the source has unpacked stays in flight. *)
LEMMA FlightNextBatch ==
  ASSUME Base, NextBatch
  PROVE  Flight \subseteq Flight'
<1>1. /\ cpc = "recv" /\ cpc' = "apply" /\ UNCHANGED <<gen, batch, out>>
      /\ gen \in Listeners /\ events \in [Listeners -> Seq(SUBSET Nat)]
  BY Zenon DEF NextBatch, Deliver, listenerVars, Base, TypeOK
<1>2. Held' = Held /\ Applying = {} /\ Applying' = {cur'}
  BY <1>1, Zenon DEF Held, Applying
<1>3. CASE ready # {}
  <2>1. ready \subseteq ready' \cup {cur'} /\ events' = events
    BY <1>3, Zenon DEF NextBatch, Deliver
  <2>2. Channel' = Channel
    BY <1>1, <2>1, Zenon DEF Channel
  <2> QED
    BY <1>2, <2>1, <2>2, Zenon DEF Flight
<1>4. CASE ready = {}
  <2>1. /\ events[gen] # <<>> /\ events' = [events EXCEPT ![gen] = Tail(@)]
        /\ Head(events[gen]) \subseteq ready' \cup {cur'}
    BY <1>4, Zenon DEF NextBatch, Deliver
  <2>2. events[gen] \in Seq(SUBSET Nat) /\ events'[gen] = Tail(events[gen])
    BY <1>1, <2>1, Zenon
  <2>3. Head(events[gen]) = events[gen][1]
    BY <2>1, <2>2
  <2>4. /\ Len(events[gen]) \in Nat /\ Len(events'[gen]) = Len(events[gen]) - 1
        /\ \A j \in 1..Len(events'[gen]) : events'[gen][j] = events[gen][j + 1]
    BY <2>1, <2>2, TailFacts, Zenon
  <2>5. ASSUME NEW j \in 1..Len(events[gen]), NEW m \in events[gen][j]
        PROVE  m \in Flight'
    <3>1. CASE j = 1
      BY <1>2, <2>1, <2>3, <3>1, Zenon DEF Flight
    <3>2. CASE j # 1
      <4>1. j - 1 \in 1..Len(events'[gen]) /\ (j - 1) + 1 = j
        BY <2>4, <3>2
      <4>2. events'[gen][j - 1] = events[gen][j]
        BY <2>4, <4>1, Zenon
      <4> QED
        BY <1>1, <4>1, <4>2, Zenon DEF Flight, Channel
    <3> QED
      BY <3>1, <3>2, Zenon
  <2>6. Channel \subseteq Flight'
    BY <2>5, Zenon DEF Channel
  <2> QED
    BY <1>2, <1>4, <2>6, Zenon DEF Flight
<1> QED
  BY <1>3, <1>4, Zenon

(* When an event that updates a row is applied, the row is there: the      *)
(* creation of its file was applied before.                                *)
LEMMA RowPresent ==
  ASSUME Base, InOrder, ReadIsRepaired, Serving, cpc = "apply",
         log[cur].kind \in RestatKinds, Alive(log[cur].fid)
  PROVE  catalog[log[cur].fid] # 0
<1>1. cur \in Indices /\ cur <= seen[gen] /\ cur \in Nat /\ seen[gen] \in Nat
  BY FlightType, Zenon DEF Base, RecordsWithinLog, InOrder, Serving
<1>2. PICK c \in Indices : log[c].fid = log[cur].fid /\ log[c].kind \in CreateKinds
  BY <1>1, Zenon DEF Base, LogWellFormed
<1>3. c <= cur
  BY <1>1, <1>2, Zenon DEF Base, LogWellFormed
<1>4. c # cur
  BY <1>2, Zenon DEF CreateKinds, RestatKinds
<1>5. c \in Nat /\ c >= 1
  BY DEF Indices
<1>6. c <= seen[gen]
  BY <1>1, <1>3, <1>5
<1>7. ~ \E m \in Flight : Repairs(m, c)
  <2>1. \A m \in Flight : m \in Nat /\ cur <= m
    BY <1>1, FlightType DEF Flight, Applying, InOrder, Serving
  <2> QED
    BY <1>1, <1>3, <1>4, <1>5, <2>1 DEF Repairs
<1>8. Reflected(c)
  BY <1>6, <1>7, Zenon DEF ReadIsRepaired
<1>9. catalog[log[cur].fid] >= c
  BY <1>2, <1>8, Zenon DEF Reflected, DataKinds
<1>10. catalog[log[cur].fid] \in Nat
  BY <1>1, RecordType, Zenon DEF Base, TypeOK
<1> QED
  BY <1>5, <1>9, <1>10

(* Applying an event reflects what it was to repair (apply_event, restat_entry). *)
LEMMA RepairedApply ==
  ASSUME StatReliable, Base, StatRecent, InOrder, ReadIsRepaired, Serving,
         StatEntry \/ WriteEntry \/ RemoveEntry \/ KeepEntry
  PROVE  ReadIsRepaired'
<1>1. /\ UNCHANGED <<log, gen, seen, batch, out, events, ready, cur, pc>>
      /\ cpc' # "down" /\ cur \in Indices
  BY Zenon DEF StatEntry, WriteEntry, RemoveEntry, KeepEntry, mdtVars, listenerVars, Base,
     RecordsWithinLog
<1>2. [Next]_vars
  BY Zenon DEF Next, IngestNext
<1> SUFFICES ASSUME NEW i \in Indices, i <= seen[gen], ~Reflected(i)
             PROVE  Reflected(i)' \/ \E m \in Flight' : Repairs(m, i)'
  BY <1>1, <1>2, ReflectedStable, Zenon DEF ReadIsRepaired, Indices
<1>3. PICK m \in Flight : Repairs(m, i)
  BY Zenon DEF ReadIsRepaired
<1>4. Flight \ {cur} \subseteq Flight' /\ (cpc' = "write" => Flight = Flight')
  <2>1. Held' = Held /\ Channel' = Channel /\ ready' = ready
    BY <1>1 DEF Held, Channel
  <2>2. Applying \subseteq {cur} /\ (cpc' = "write" => Applying = Applying')
    BY <1>1, Zenon DEF Applying, StatEntry, WriteEntry, RemoveEntry, KeepEntry
  <2> QED
    BY <2>1, <2>2, Zenon DEF Flight
<1>5. CASE m # cur
  <2>1. Repairs(m, i)'
    BY <1>1, <1>3, <1>5, Zenon DEF Repairs
  <2> QED
    BY <1>4, <1>5, <2>1, Zenon
<1>6. CASE m = cur
  <2>1. /\ cur <= i /\ log[cur].fid = log[i].fid /\ log[cur].kind \in DataKinds
        /\ cpc = "write" => i <= cstat
    BY <1>3, <1>6, Zenon DEF Repairs
  <2>2. Alive(log[cur].fid) /\ i \in Nat /\ i <= Len(log) /\ i >= 1
    BY <2>1 DEF Reflected, Indices
  <2>3. CASE StatEntry
    <3>1. cstat' = Len(log) /\ cpc' = "write"
      BY <2>2, <2>3, Zenon DEF StatEntry, StatReliable
    <3>2. Repairs(m, i)'
      BY <1>1, <1>6, <2>1, <2>2, <3>1, Zenon DEF Repairs
    <3> QED
      BY <1>4, <3>1, <3>2, Zenon
  <2>4. CASE WriteEntry
    <3>1. cpc = "write" /\ cstat # 0
      BY <2>2, <2>4, Zenon DEF WriteEntry, StatRecent
    <3>2. catalog'[log[cur].fid] = cstat
      BY <1>1, <2>4, <3>1, RecordType, Zenon DEF WriteEntry, Base, TypeOK
    <3> QED
      BY <1>1, <2>1, <3>1, <3>2, Zenon DEF Reflected
  <2>5. CASE RemoveEntry
    BY <2>2, <2>5, RemovedIsGone, Zenon DEF RemoveEntry
  <2>6. CASE KeepEntry
    <3>1. log[cur].kind \in RestatKinds /\ catalog[log[cur].fid] = 0 /\ cpc = "apply"
      BY <2>1, <2>6, Zenon DEF KeepEntry, NeedsStat, DataKinds
    <3> QED
      BY <2>2, <3>1, RowPresent, Zenon
  <2> QED
    BY <2>3, <2>4, <2>5, <2>6, Zenon
<1> QED
  BY <1>5, <1>6, Zenon

(* What the listener flushes and sends stays in flight. *)
LEMMA FlightSend ==
  ASSUME Base, Send(gen)
  PROVE  Flight \subseteq Flight'
<1>1. /\ UNCHANGED <<gen, cpc, ready, cur, batch>> /\ gen \in Listeners
      /\ events'[gen] = Append(events[gen], out[gen])
      /\ events[gen] \in Seq(SUBSET Nat) /\ out[gen] \in SUBSET Nat
  BY Zenon DEF Send, ingestVars, Base, TypeOK
<1>2. /\ Len(events[gen]) \in Nat /\ Len(events'[gen]) = Len(events[gen]) + 1
      /\ \A j \in 1..Len(events[gen]) : events'[gen][j] = events[gen][j]
      /\ events'[gen][Len(events[gen]) + 1] = out[gen]
  BY <1>1
<1>3. out[gen] \subseteq Channel'
  <2>1. Len(events[gen]) + 1 \in 1..Len(events'[gen])
    BY <1>2
  <2> QED
    BY <1>1, <1>2, <2>1, Zenon DEF Channel
<1>4. Channel \subseteq Channel'
  <2>1. \A j \in 1..Len(events[gen]) : j \in 1..Len(events'[gen])
    BY <1>2
  <2> QED
    BY <1>1, <1>2, <2>1, Zenon DEF Channel
<1>5. Applying' = Applying /\ batch'[gen'] = batch[gen]
  BY <1>1, Zenon DEF Applying
<1> QED
  BY <1>1, <1>3, <1>4, <1>5, Zenon DEF Flight, Held

(* No listener is served at the start. *)
LEMMA RepairedInit == Init => ReadIsRepaired
BY Zenon DEF Init, ReadIsRepaired, Serving

(* Every step keeps what was read reflected or under repair. *)
LEMMA RepairedNext ==
  ASSUME StatReliable, Base, StatRecent, InOrder, DrainComplete, CheckpointsCovered,
         ReadIsRepaired, [Next]_vars
  PROVE  ReadIsRepaired'
<1>1. CASE ~Serving'
  BY <1>1, Zenon DEF ReadIsRepaired
<1>2. ASSUME Serving, UNCHANGED <<gen, cpc, ready, cur, cstat>>, seen'[gen] = seen[gen],
             batch'[gen] = batch[gen], out'[gen] = out[gen], events'[gen] = events[gen]
      PROVE  ReadIsRepaired'
  <2>1. Flight' = Flight
    BY <1>2 DEF Flight, Held, Channel, Applying
  <2> QED
    BY <1>2, <2>1, RepairedKept, Zenon
<1>3. ASSUME NEW g \in Listeners, ListenerNext(g), Serving'
      PROVE  ReadIsRepaired'
  <2>1. cpc # "down" /\ cpc' = cpc /\ gen' = gen
    BY <1>3, Zenon DEF ListenerNext, Open, SeeCancel, Recv, EndDrain, Send, SendToClosed, Serving,
       KeepCheckpoint, PersistCursor, ClearChangelog, ClearFails, ListenerEnds, ingestVars
  <2>2. CASE Unnoticed
    <3>1. pc[gen] # "done"
      BY <1>3, <2>1, <2>2, Zenon DEF Unnoticed, Serving
    <3> QED
      BY <1>2, <2>1, <2>2, <3>1, Zenon DEF Unnoticed, Serving
  <2>3. CASE g = gen /\ Recv(g)
    BY <2>1, <2>3, RepairedRecv, ZenonT(30) DEF Recv, Serving
  <2>4. CASE g = gen /\ EndDrain(g)
    <3>1. /\ UNCHANGED <<gen, cpc, ready, cur, cstat, events, seen>>
          /\ batch'[gen] = {} /\ out'[gen] = batch[gen] /\ out[gen] = {}
          /\ pc[gen] = "drain"
      BY <2>4, Zenon DEF EndDrain, ingestVars, Base, TypeOK, ControlState
    <3>2. Held' = Held
      BY <3>1, Zenon DEF Held
    <3>3. Channel' = Channel
      BY <3>1 DEF Channel
    <3>4. Applying' = Applying
      BY <3>1, Zenon DEF Applying
    <3>5. Flight' = Flight
      BY <3>1, <3>2, <3>3, <3>4, Zenon DEF Flight
    <3> QED
      BY <2>1, <3>1, <3>5, RepairedKept, Zenon DEF Serving
  <2>5. CASE g = gen /\ Send(g)
    <3>1. UNCHANGED <<gen, cpc, ready, cur, cstat, seen>> /\ pc[gen] # "done"
      BY <2>5, Zenon DEF Send, ingestVars
    <3> QED
      BY <2>1, <2>5, <3>1, FlightSend, RepairedKept, Zenon DEF Serving
  <2>6. CASE g = gen /\ ListenerEnds(g)
    BY <1>3, <2>6, Zenon DEF ListenerEnds, Return, Serving, ingestVars, Base, TypeOK
  <2> QED
    BY <1>3, <2>1, <2>2, <2>3, <2>4, <2>5, <2>6, ListenerUnnoticed, Zenon
<1>4. ASSUME NEW g \in Listeners, Spawn(g)
      PROVE  ReadIsRepaired'
  <2>1. gen' = g /\ seen'[g] = cursor /\ UNCHANGED <<log, catalog>>
    BY <1>4, Zenon DEF Spawn, mdtVars, Base, TypeOK
  <2> SUFFICES ASSUME NEW i \in Indices, i <= cursor
               PROVE  Reflected(i)'
    BY <2>1, Zenon DEF ReadIsRepaired, Indices
  <2>2. Reflected(i)
    BY Zenon DEF CheckpointsCovered, Covered
  <2> QED
    BY <2>2, ReflectedStable, Zenon
<1>5. ASSUME IngestNext, Serving'
      PROVE  ReadIsRepaired'
  <2>1. /\ ~IngestEnds /\ ~ApplyFails /\ ~CommitToClosed
        /\ Serving
    BY <1>5, ZenonT(30) DEF IngestNext, NextBatch, Deliver, StatEntry, WriteEntry, RemoveEntry, KeepEntry,
       Commit, IngestEnds, ApplyFails, CommitToClosed, IngestReturns, Serving, listenerVars
  <2>2. CASE NextBatch
    BY <2>1, <2>2, FlightNextBatch, RepairedKept, Zenon DEF NextBatch, Deliver, listenerVars
  <2>3. CASE Commit
    <3>1. /\ UNCHANGED <<gen, ready, events, seen, batch, out>>
          /\ cpc = "commit" /\ cpc' = "recv"
      BY <2>3, Zenon DEF Commit
    <3>2. Flight' = Flight
      BY <3>1 DEF Flight, Held, Channel, Applying
    <3> QED
      BY <2>1, <3>1, <3>2, RepairedKept, Zenon
  <2> QED
    BY <1>5, <2>1, <2>2, <2>3, RepairedApply, Zenon DEF IngestNext
<1>6. ASSUME Serving', UNCHANGED <<gen, cpc, ready, cur, cstat, batch, out, events, seen, pc>>
      PROVE  ReadIsRepaired'
  BY <1>2, <1>6, Zenon DEF Serving
<1>7. CASE Crash
  BY <1>1, <1>7, Zenon DEF Crash, Serving
<1> QED
  BY <1>1, <1>3, <1>4, <1>5, <1>6, <1>7, Zenon
  DEF Next, MdtAppend, Cancel, vars, listenerVars, ingestVars

-----------------------------------------------------------------------------
(* Every checkpoint covers what it should *)

(* All that is read before the event that is committed has been applied. *)
LEMMA CommitCovered ==
  ASSUME Base, InOrder, ReadIsRepaired, Commit
  PROVE  Covered(cur)
<1>1. cpc = "commit" /\ Serving
  BY Zenon DEF Commit, Serving
<1>2. \A m \in Flight : m \in Nat /\ cur < m
  BY <1>1, FlightType, Zenon DEF Flight, Applying, InOrder
<1>3. cur \in Nat /\ cur <= seen[gen] /\ seen[gen] \in Nat
  BY <1>1, FlightType, Zenon DEF InOrder, Serving
<1> SUFFICES ASSUME NEW i \in Indices, i <= cur
             PROVE  Reflected(i)
  BY Zenon DEF Covered
<1>4. i \in Nat /\ i <= seen[gen]
  BY <1>3 DEF Indices
<1>5. ~ \E m \in Flight : Repairs(m, i)
  BY <1>2, <1>3, <1>4 DEF Repairs
<1> QED
  BY <1>1, <1>4, <1>5, Zenon DEF ReadIsRepaired

(* The first checkpoint covers nothing. *)
LEMMA CoveredInit == Init => CheckpointsCovered
BY DEF Init, CheckpointsCovered, Covered, Indices, All

(* Every step keeps all checkpoints on their way covered (process_acks, commit). *)
LEMMA CoveredNext ==
  ASSUME Base, StatRecent, InOrder, ReadIsRepaired, CheckpointsCovered, [Next]_vars
  PROVE  CheckpointsCovered'
<1> DEFINE Sound(n) == n \in Nat /\ n <= Len(log) /\ Covered(n)
           SoundAt(h) == Sound(pend'[h]) /\ \A j \in 1..Len(acks'[h]) : Sound(acks'[h][j])
<1>1. /\ pend \in [Listeners -> Nat] /\ acks \in [Listeners -> Seq(Nat)]
      /\ cursor \in Nat /\ gen \in Listeners /\ cur \in Nat
  BY Zenon DEF Base, TypeOK
<1>2. /\ Sound(cursor) /\ Sound(0)
      /\ \A h \in Listeners :
           Sound(pend[h]) /\ \A j \in 1..Len(acks[h]) : Sound(acks[h][j])
  <2>1. Sound(0)
    BY LogGrows DEF Covered, Indices, Base
  <2>2. Sound(cursor)
    BY <1>1, Zenon DEF CheckpointsCovered, Base, PositionsWithinLog
  <2>3. ASSUME NEW h \in Listeners
        PROVE  Sound(pend[h]) /\ \A j \in 1..Len(acks[h]) : Sound(acks[h][j])
    BY <1>1 DEF CheckpointsCovered, Base, CheckpointsWithinLog
  <2> QED
    BY <2>1, <2>2, <2>3, Zenon
<1>3. ASSUME Sound(cursor'), \A h \in Listeners : SoundAt(h)
      PROVE  CheckpointsCovered'
  <2>1. ASSUME NEW n, Sound(n)
        PROVE  \A i \in Indices' : i <= n => Reflected(i)'
    <3>1. Covered(n)'
      BY <2>1, CoveredStable, Zenon
    <3> QED
      BY <3>1, Zenon DEF Covered
  <2>2. Covered(cursor)'
    BY <1>3, <2>1, Zenon DEF Covered
  <2>3. ASSUME NEW h \in Listeners
        PROVE  Covered(pend[h])' /\ \A j \in 1..Len(acks'[h]) : Covered(acks[h][j])'
    BY <1>3, <2>1, Zenon DEF Covered
  <2> QED
    BY <2>2, <2>3, Zenon DEF CheckpointsCovered
<1> HIDE DEF Sound
<1>4. ASSUME cursor' = cursor,
             \A h \in Listeners : /\ pend'[h] = pend[h] \/ Sound(pend'[h])
                                  /\ acks'[h] = acks[h] \/ acks'[h] = <<>>
      PROVE  CheckpointsCovered'
  <2>1. ASSUME NEW h \in Listeners
        PROVE  SoundAt(h)
    BY <1>2, <1>4
  <2> QED
    BY <1>2, <1>3, <1>4, <2>1, Zenon
<1>5. ASSUME NEW g \in Listeners, ListenerNext(g)
      PROVE  CheckpointsCovered'
  <2>1. CASE SendToClosed(g) \/ ListenerEnds(g) \/ ClearChangelog(g)
    <3>1. /\ pend' = [pend EXCEPT ![g] = 0] /\ cursor' = cursor
          /\ acks' = acks \/ acks' = [acks EXCEPT ![g] = <<>>]
      BY <2>1, Zenon DEF SendToClosed, ListenerEnds, Return, ClearChangelog
    <3> QED
      BY <1>1, <1>2, <1>4, <3>1, Zenon
  <2>2. CASE KeepCheckpoint(g) \/ PersistCursor(g)
    <3>1. PICK idx \in Checkpoints(g) :
            TakeAcks(g, idx) /\ (cursor' = cursor \/ cursor' = CommittedCursor(idx))
      BY <2>2, Zenon DEF KeepCheckpoint, PersistCursor
    <3>2. Sound(idx)
      BY <1>2, <3>1, Zenon DEF Checkpoints
    <3>3. acks' = [acks EXCEPT ![g] = <<>>] /\ pend' = [pend EXCEPT ![g] = idx]
      BY <3>1, Zenon DEF TakeAcks
    <3>4. Sound(cursor')
      BY <1>2, <3>1, <3>2, Zenon DEF CommittedCursor, Larger
    <3>5. ASSUME NEW h \in Listeners
          PROVE  SoundAt(h)
      BY <1>1, <1>2, <3>2, <3>3
    <3> QED
      BY <1>3, <3>4, <3>5, Zenon
  <2> QED
    BY <1>4, <1>5, <2>1, <2>2, Zenon DEF ListenerNext, Open, SeeCancel, Recv, EndDrain, Send,
       ClearFails
<1>6. ASSUME NEW g \in Listeners, Spawn(g)
      PROVE  CheckpointsCovered'
  <2>1. pend' = [pend EXCEPT ![g] = cursor] /\ UNCHANGED <<acks, cursor>>
    BY <1>6, Zenon DEF Spawn
  <2> QED
    BY <1>1, <1>2, <1>4, <2>1, Zenon
<1>7. CASE Commit
  <2>1. Sound(cur)
    <3>1. cur \in Indices /\ Len(log) \in Nat
      BY <1>7, LogGrows, Zenon DEF Commit, Base, RecordsWithinLog
    <3>2. cur <= Len(log)
      BY <3>1 DEF Indices
    <3> QED
      BY <1>1, <1>7, <3>2, CommitCovered, Zenon DEF Sound
  <2>2. acks' = [acks EXCEPT ![gen] = Append(@, cur)] /\ UNCHANGED <<pend, cursor>>
    BY <1>7, Zenon DEF Commit
  <2>3. ASSUME NEW h \in Listeners
        PROVE  SoundAt(h)
    <3>1. CASE h # gen
      BY <1>1, <1>2, <2>2, <3>1, Zenon
    <3>2. CASE h = gen
      <4>1. acks'[h] = Append(acks[h], cur) /\ acks[h] \in Seq(Nat)
        BY <1>1, <2>2, <3>2, Zenon
      <4>2. \A j \in 1..Len(acks'[h]) :
              \/ acks'[h][j] = cur
              \/ j \in 1..Len(acks[h]) /\ acks'[h][j] = acks[h][j]
        BY <1>1, <4>1
      <4> QED
        BY <1>2, <2>1, <2>2, <4>2, Zenon
    <3> QED
      BY <3>1, <3>2, Zenon
  <2> QED
    BY <1>2, <1>3, <2>2, <2>3, Zenon
<1>8. CASE IngestNext /\ ~Commit
  BY <1>4, <1>8, ZenonT(30) DEF IngestNext, NextBatch, IngestEnds, StatEntry, WriteEntry, RemoveEntry,
     KeepEntry, ApplyFails, CommitToClosed, listenerVars
<1>9. CASE Crash
  BY <1>2, <1>4, <1>9, Zenon DEF Crash, All
<1> QED
  BY <1>4, <1>5, <1>6, <1>7, <1>8, <1>9, Zenon DEF Next, MdtAppend, Cancel, vars, listenerVars

-----------------------------------------------------------------------------
(* The theorems.  They assume that a stat fails only for a file that is    *)
(* gone: stat_entry_by_fid takes every failure for a deleted file, so with *)
(* other failures the cursor does pass records that are not reflected.     *)

(* The inductive invariant and its parts. *)
LEMMA IInvBase == IInv <=> /\ Base /\ CheckpointsCovered /\ InOrder /\ DrainComplete
                           /\ StatRecent /\ ReadIsRepaired
BY Zenon DEF IInv, Base

(* The inductive invariant at the start. *)
LEMMA IInvInit == Init => IInv
BY IInvBase, BaseInit, CoveredInit, OrderInit, DrainInit, RepairedInit, Zenon
DEF Init, StatRecent

(* Every step keeps the inductive invariant. *)
LEMMA IInvNext == StatReliable /\ IInv /\ [Next]_vars => IInv'
<1> SUFFICES ASSUME StatReliable, IInv, [Next]_vars
             PROVE  IInv'
  BY Zenon
<1>1. /\ Base /\ CheckpointsCovered /\ InOrder /\ DrainComplete
      /\ StatRecent /\ ReadIsRepaired
  BY IInvBase, Zenon
<1>2. Base' /\ DrainComplete' /\ StatRecent' /\ InOrder'
  BY <1>1, BaseNext, DrainNext, StatRecentNext, OrderNext, Zenon
<1>3. CheckpointsCovered' /\ ReadIsRepaired'
  BY <1>1, CoveredNext, RepairedNext, Zenon
<1> QED
  BY <1>2, <1>3, Zenon DEF IInv, Base

(* The inductive invariant holds in every reachable state, whatever the    *)
(* crashes, store errors and zombie listeners.                             *)
THEOREM Inductive == StatReliable => (Spec => []IInv)
<1> SUFFICES ASSUME StatReliable
             PROVE  Spec => []IInv
  BY Zenon
<1>1. IInv /\ [Next]_vars => IInv'
  BY IInvNext, Zenon
<1> QED
  BY <1>1, IInvInit, PTL DEF Spec

(* The durable cursor never passes a record that the row of a live file    *)
(* does not reflect: process_acks persists only checkpoints of batches     *)
(* whose catalog effects are durable.                                      *)
THEOREM CursorCoversCatalog == StatReliable => (Spec => []FreshUpToCursor)
<1> SUFFICES ASSUME StatReliable
             PROVE  Spec => []FreshUpToCursor
  BY Zenon
<1>1. Spec => []IInv
  BY Inductive, Zenon
<1>2. IInv => FreshUpToCursor
  BY Zenon DEF IInv, CheckpointsCovered, FreshUpToCursor
<1> QED
  BY <1>1, <1>2, PTL

(* The MDT purges no record that the catalog does not reflect: the purge   *)
(* of process_acks follows the cursor, and the cursor follows the catalog. *)
THEOREM NoRecordLost == StatReliable => (Spec => []NothingLost)
<1> SUFFICES ASSUME StatReliable
             PROVE  Spec => []NothingLost
  BY Zenon
<1>1. Spec => []IInv
  BY Inductive, Zenon
<1>2. IInv => NothingLost
  <2> SUFFICES ASSUME IInv, NEW i \in 1..cleared
               PROVE  i \in Indices /\ Reflected(i)
    BY Zenon DEF NothingLost, Stream!NothingLost
  <2>1. /\ cleared <= cursor /\ cursor <= Len(log) /\ Covered(cursor)
        /\ cleared \in Nat /\ cursor \in Nat /\ Len(log) \in Nat
    BY DEF IInv, PurgeInv, ClearedBehindCursor, PositionsWithinLog, CheckpointsCovered,
       TypeOK
  <2> QED
    BY <2>1 DEF Indices, Covered
<1> QED
  BY <1>1, <1>2, PTL

-----------------------------------------------------------------------------
(* The pipeline implements the change stream *)

(* The initial states are initial states of the stream. *)
LEMMA StreamInitial == Init => Stream!StreamInit
BY DEF Init, Stream!StreamInit, Indices

(* The steps that move the cursor or purge the changelog. *)
LEMMA DurableStep ==
  ASSUME [Next]_vars
  PROVE  \/ UNCHANGED <<cursor, cleared>>
         \/ \E g \in Listeners : PersistCursor(g)
         \/ \E g \in Listeners : ClearChangelog(g)
<1>1. ASSUME NEW g \in Listeners, ListenerNext(g)
      PROVE  UNCHANGED <<cursor, cleared>> \/ PersistCursor(g) \/ ClearChangelog(g)
  BY <1>1, ZenonT(30) DEF ListenerNext, Open, SeeCancel, Recv, EndDrain, Send, SendToClosed,
     KeepCheckpoint, ClearFails, ListenerEnds, mdtVars
<1>2. CASE IngestNext
  BY <1>2, Zenon DEF IngestNext, NextBatch, IngestEnds, StatEntry, WriteEntry, RemoveEntry,
     KeepEntry, ApplyFails, Commit, CommitToClosed, mdtVars
<1> QED
  BY <1>1, <1>2, ZenonT(30) DEF Next, MdtAppend, Spawn, Cancel, Crash, vars, mdtVars

(* Every step is a step of the stream or leaves it alone. *)
LEMMA StreamStep ==
  ASSUME IInv, [Next]_vars, CheckpointsCovered', Base'
  PROVE  [Stream!StreamNext]_(Stream!streamVars)
<1> DEFINE R == {i \in Indices : Reflected(i)}
<1>1. /\ Base /\ StatRecent /\ Len(log) \in Nat /\ cursor \in Nat /\ cleared \in Nat
  <2>1. Base /\ StatRecent
    BY IInvBase, Zenon
  <2>2. TypeOK
    BY <2>1, Zenon DEF Base
  <2> QED
    BY <2>1, <2>2 DEF TypeOK
<1>2. R \subseteq 1..Len(log) /\ R' \subseteq 1..Len(log')
  BY Zenon DEF Indices
<1>3. R \subseteq R'
  <2> SUFFICES ASSUME NEW i \in Indices, Reflected(i)
               PROVE  i \in Indices' /\ Reflected(i)'
    BY Zenon
  <2> QED
    BY <1>1, LogGrows, ReflectedStable, Zenon DEF Base
<1>4. ASSUME NEW f \in Fids, NEW k \in Kinds, MdtAppend(f, k)
      PROVE  Stream!Produce
  <2>1. Len(log') = Len(log) + 1 /\ UNCHANGED <<cursor, cleared>>
    BY <1>1, <1>4, AppendFacts, Zenon DEF MdtAppend, Base
  <2> QED
    BY <1>2, <1>3, <2>1, Zenon DEF Stream!Produce
<1>5. CASE log' = log /\ UNCHANGED <<cursor, cleared>>
  BY <1>2, <1>3, <1>5, Zenon DEF Stream!StreamNext, Stream!Reflect
<1>6. ASSUME NEW g \in Listeners, PersistCursor(g)
      PROVE  Stream!Checkpoint
  <2>1. UNCHANGED <<log, cleared, catalog>>
    BY <1>6, Zenon DEF PersistCursor, mdtVars
  <2>2. R' = R
    BY <2>1, Zenon DEF Indices, Reflected, Alive, Known, Gone
  <2>3. cursor' \in Nat /\ cursor' >= cursor /\ cursor' <= Len(log)
    <3>1. TypeOK /\ TypeOK' /\ PositionsWithinLog'
      BY <1>1, Zenon DEF Base
    <3>2. cursor' \in Nat /\ cursor' <= Len(log')
      BY <3>1, Zenon DEF TypeOK, PositionsWithinLog
    <3> QED
      BY <1>1, <2>1, <3>1, <3>2, CursorStep
  <2>4. 1..cursor' \subseteq R'
    <3> SUFFICES ASSUME NEW i \in 1..cursor'
                 PROVE  i \in Indices' /\ Reflected(i)'
      BY Zenon
    <3>1. i \in Indices' /\ i <= cursor'
      BY <1>1, <2>1, <2>3 DEF Indices
    <3> QED
      BY <3>1, Zenon DEF CheckpointsCovered, Covered
  <2> HIDE DEF R
  <2>5. cursor' \in cursor..Len(log) /\ 1..cursor' \subseteq R
    BY <1>1, <2>2, <2>3, <2>4
  <2> QED
    BY <2>1, <2>2, <2>5, Zenon DEF Stream!Checkpoint, R
<1>7. ASSUME NEW g \in Listeners, ClearChangelog(g)
      PROVE  Stream!Purge
  <2>1. /\ UNCHANGED <<log, cursor, catalog>> /\ pc[g] \in ClearPcs
        /\ cleared' = cleared \/ cleared' = Larger(cleared, pend[g])
    BY <1>7, Zenon DEF ClearChangelog
  <2>2. R' = R
    BY <2>1, Zenon DEF Indices, Reflected, Alive, Known, Gone
  <2>3. pend[g] \in Nat /\ pend[g] <= cursor /\ cleared <= cursor
    BY <1>1, <2>1, Zenon DEF Base, PurgeInv, ClearedBehindCursor, TypeOK
  <2>4. cleared' \in cleared..cursor
    BY <1>1, <2>1, <2>3 DEF Larger
  <2> HIDE DEF R
  <2> QED
    BY <2>1, <2>2, <2>4, Zenon DEF Stream!Purge, R
<1> QED
  BY <1>4, <1>5, <1>6, <1>7, LogStep, DurableStep, Zenon DEF Stream!StreamNext

(* Every behaviour of changelog ingest is a behaviour of the abstract      *)
(* change stream: no crash, replay, dedup, late write or zombie listener   *)
(* lets the cursor or the purge run ahead of the catalog, and nothing that *)
(* was reflected is taken back.                                            *)
THEOREM PipelineImplementsStream == StatReliable => (Spec => ImplementsStream)
<1> SUFFICES ASSUME StatReliable
             PROVE  Spec => Stream!StreamSpec
  BY Zenon DEF ImplementsStream
<1>1. Spec => []IInv
  BY Inductive, Zenon
<1>2. IInv /\ IInv' /\ [Next]_vars => [Stream!StreamNext]_(Stream!streamVars)
  BY StreamStep, Zenon DEF IInv, Base
<1> QED
  BY <1>1, <1>2, StreamInitial, PTL DEF Spec, Stream!StreamSpec
=============================================================================
