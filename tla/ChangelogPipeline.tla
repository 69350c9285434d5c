------------------------- MODULE ChangelogPipeline -------------------------
(***************************************************************************)
(* Changelog ingest of one Lustre MDT, from the MDT's changelog to the     *)
(* catalog and back to the purge of the changelog:                         *)
(*                                                                         *)
(*   MDT log -> listener thread (lustre-changelog/src/listener.rs), with   *)
(*   its deduplicator and batcher -> bounded event channel ->              *)
(*   LustreChangeSource (rbh-change-source/src/lib.rs) -> ingest_loop      *)
(*   (rbh-daemon/src/changelog.rs) -> catalog;                             *)
(*   ingest_loop -> bounded ack channel -> process_acks in the listener -> *)
(*   cursor in MariaDB, then clear_changelog on the MDT.                   *)
(*                                                                         *)
(* The supervisor (rbh-daemon/src/lib.rs) starts a new listener whenever   *)
(* the ingest loop returns.  It does not wait for the old listener thread, *)
(* which stops only when it next sends to the closed event channel, so     *)
(* several listeners may be running; Listeners bounds how many.            *)
(*                                                                         *)
(* Data abstraction.  A record is a FID and a kind; its index is its       *)
(* position in log.  The attributes of a file change exactly when the MDT  *)
(* logs a record for it, so a stat is modelled by the length of log at     *)
(* that moment, and a catalog row by the length of log when the row's      *)
(* attributes were read (0: no row).  Row catalog[f] is as new as record i *)
(* iff catalog[f] >= i.  Names, parents and link counts are not kept here. *)
(***************************************************************************)
EXTENDS Dedup, Integers, Sequences, FiniteSets

CONSTANTS
  Fids,          \* file identifiers; the MDT never reuses one
  Kinds,         \* the record kinds the MDT logs
  MaxRec,        \* bound on the number of records
  ChannelBuffer, \* ListenerConfig.channel_buffer
  BatchSize,     \* BatcherConfig.flush_batch_size
  Listeners,     \* listener threads that may exist at one time
  Disturbances   \* what may go wrong, a subset of AllDisturbances

AllDisturbances ==
  {"crash", "apply", "stat", "recv", "persist", "clear", "einval", "cancel"}

ASSUME PipelineAssumption ==
  /\ Kinds \subseteq AllKinds
  /\ MaxRec \in Nat
  /\ ChannelBuffer \in Nat \ {0}
  /\ BatchSize \in Nat \ {0}
  /\ Disturbances \subseteq AllDisturbances

VARIABLES
  log,       \* the records the MDT has logged
  cleared,   \* records up to this index are purged
  cursor,    \* changelog_cursors.last_rec; 0: no row
  catalog,   \* for each FID, how recent its row is; 0: no row
  pc,        \* listener: where run_polling_loop is
  pos,       \* listener: last index read from the open handle
  seen,      \* listener: next_start - 1, the last index it batched
  batch,     \* listener: indices held by the deduplicator
  out,       \* listener: flushed batch waiting in blocking_send
  events,    \* event channel: a sequence of batches
  acks,      \* ack channel: a sequence of checkpoints
  pend,      \* AckState.pending; 0: None
  last,      \* AckState.last_cleared; 0: nothing cleared
  gen,       \* the listener whose handle the ingest loop holds
  cpc,       \* where ingest_loop is
  ready,     \* LustreChangeSource.ready
  cur,       \* LustreChangeSource.pending; 0: None
  cstat,     \* result of the last stat; 0: the stat failed
  cancelled  \* the cancellation token

mdtVars      == <<log, cleared>>
listenerVars == <<pc, pos, seen, batch, out, acks, pend, last>>
ingestVars   == <<gen, cpc, ready, cur, cstat>>
vars         == <<log, cleared, cursor, catalog, pc, pos, seen, batch, out,
                  events, acks, pend, last, gen, cpc, ready, cur, cstat,
                  cancelled>>

-----------------------------------------------------------------------------
Larger(a, b) == IF a >= b THEN a ELSE b

Indices  == 1..Len(log)
Known(f) == \E i \in Indices : log[i].fid = f /\ log[i].kind \in CreateKinds
Gone(f)  == \E i \in Indices : log[i].fid = f /\ log[i].kind \in RemoveKinds
Alive(f) == Known(f) /\ ~Gone(f)

(* The records after which a row must have been read again. *)
DataKinds == CreateKinds \cup RestatKinds

(* The ingest loop holds the receiving end of g's event channel. *)
Attached(g) == cpc # "down" /\ gen = g

ListenerPcs ==
  {"done", "top", "drain", "send", "flush", "acks", "clear",
   "lastAcks", "lastClear", "end"}
IngestPcs == {"down", "recv", "apply", "write", "commit"}

Record == [fid : Fids, kind : Kinds]

(* Every variable has its type: positions and checkpoints never go below   *)
(* zero, and the threads are at known places of their loops (listener.rs   *)
(* run_polling_loop, changelog.rs ingest_loop).                            *)
TypeOK ==
  /\ log \in Seq(Record)
  /\ cleared \in Nat
  /\ cursor \in Nat
  /\ catalog \in [Fids -> Nat]
  /\ pc \in [Listeners -> ListenerPcs]
  /\ pos \in [Listeners -> Nat]
  /\ seen \in [Listeners -> Nat]
  /\ batch \in [Listeners -> SUBSET Nat]
  /\ out \in [Listeners -> SUBSET Nat]
  /\ events \in [Listeners -> Seq(SUBSET Nat)]
  /\ acks \in [Listeners -> Seq(Nat)]
  /\ pend \in [Listeners -> Nat]
  /\ last \in [Listeners -> Nat]
  /\ gen \in Listeners
  /\ cpc \in IngestPcs
  /\ ready \in SUBSET Nat
  /\ cur \in Nat
  /\ cstat \in Nat
  /\ cancelled \in BOOLEAN

All(v) == [g \in Listeners |-> v]

Init ==
  /\ log = <<>>
  /\ cleared = 0
  /\ cursor = 0
  /\ catalog = [f \in Fids |-> 0]
  /\ pc = All("done")
  /\ pos = All(0)
  /\ seen = All(0)
  /\ batch = All({})
  /\ out = All({})
  /\ events = All(<<>>)
  /\ acks = All(<<>>)
  /\ pend = All(0)
  /\ last = All(0)
  /\ gen \in Listeners
  /\ cpc = "down"
  /\ ready = {}
  /\ cur = 0
  /\ cstat = 0
  /\ cancelled = FALSE

-----------------------------------------------------------------------------
(* The MDT.  A file is created once; its other records need a live file,   *)
(* except the close of a file that was unlinked while it was open.         *)

Count(f, k) == Cardinality({i \in Indices : log[i] = [fid |-> f, kind |-> k]})

FsAllows(f, k) ==
  CASE k \in CreateKinds -> ~ \E i \in Indices : log[i].fid = f
    [] k = "CLOSE"       -> Known(f)
    [] k = "RMDIR"       -> Alive(f) /\ Count(f, "MKDIR") = 1
    [] k = "UNLNK"       -> Alive(f) /\ Count(f, "HLINK") > Count(f, "UNLNK")
    [] k = "UNLNK_LAST"  -> /\ Alive(f) /\ Count(f, "MKDIR") = 0
                            /\ Count(f, "HLINK") = Count(f, "UNLNK")
    [] OTHER             -> Alive(f)

MdtAppend(f, k) ==
  /\ Len(log) < MaxRec
  /\ FsAllows(f, k)
  /\ log' = Append(log, [fid |-> f, kind |-> k])
  /\ UNCHANGED <<cleared, cursor, catalog, events, listenerVars, ingestVars,
                 cancelled>>

-----------------------------------------------------------------------------
(* The listener thread: run_polling_loop.                                  *)

(* The thread returns: its channel ends are dropped.  Batches that are in  *)
(* the event channel can still be received.                                *)
Return(g) ==
  /\ pc'    = [pc EXCEPT ![g] = "done"]
  /\ pos'   = [pos EXCEPT ![g] = 0]
  /\ seen'  = [seen EXCEPT ![g] = 0]
  /\ batch' = [batch EXCEPT ![g] = {}]
  /\ out'   = [out EXCEPT ![g] = {}]
  /\ acks'  = [acks EXCEPT ![g] = <<>>]
  /\ pend'  = [pend EXCEPT ![g] = 0]
  /\ last'  = [last EXCEPT ![g] = 0]

(* Fault: the handle is opened one record too far. *)
OpenPastNext(g) ==
  /\ pc[g] = "top"
  /\ ~cancelled
  /\ pc' = [pc EXCEPT ![g] = "drain"]
  /\ pos' = [pos EXCEPT ![g] = seen[g] + 1]
  /\ UNCHANGED <<mdtVars, cursor, catalog, seen, batch, out, events, acks,
                 pend, last, ingestVars, cancelled>>

(* Fault: the cancellation token is not checked. *)
OpenRegardless(g) ==
  /\ pc[g] = "top"
  /\ pc' = [pc EXCEPT ![g] = "drain"]
  /\ pos' = [pos EXCEPT ![g] = seen[g]]
  /\ UNCHANGED <<mdtVars, cursor, catalog, seen, batch, out, events, acks,
                 pend, last, ingestVars, cancelled>>

(* The top of the loop, not cancelled: open_changelog at next_start.  An   *)
(* open that fails sleeps and retries, which changes nothing.              *)
Open(g) ==
  /\ pc[g] = "top"
  /\ ~cancelled
  /\ pc' = [pc EXCEPT ![g] = "drain"]
  /\ pos' = [pos EXCEPT ![g] = seen[g]]
  /\ UNCHANGED <<mdtVars, cursor, catalog, seen, batch, out, events, acks,
                 pend, last, ingestVars, cancelled>>

(* The top of the loop, cancelled: the batcher is empty (it was flushed at *)
(* the end of the drain), so only the final process_acks is left.          *)
SeeCancel(g) ==
  /\ pc[g] = "top"
  /\ cancelled
  /\ pc' = [pc EXCEPT ![g] = "lastAcks"]
  /\ UNCHANGED <<mdtVars, cursor, catalog, pos, seen, batch, out, events, acks,
                 pend, last, ingestVars, cancelled>>

(* should_flush when its size is reached.  It may also answer yes for a    *)
(* smaller batch, whose flush interval has elapsed, but for no empty one.  *)
MustFlush(b) == Cardinality(b) >= BatchSize

(* recv_changelog returns the first record that is not purged.  A record   *)
(* that is ignored or does not parse moves nothing but the handle.  Any    *)
(* other one is pushed through the deduplicator; the batch is then flushed *)
(* when its size is reached or the flush interval has elapsed.             *)
Recv(g) ==
  LET i == Larger(pos[g], cleared) + 1
      b == push(log, batch[g], i)
  IN  /\ pc[g] = "drain"
      /\ i <= Len(log)
      /\ pos' = [pos EXCEPT ![g] = i]
      /\ \/ /\ log[i].kind = "SKIP"
            /\ UNCHANGED <<pc, seen, batch, out>>
         \/ /\ log[i].kind # "SKIP"
            /\ seen' = [seen EXCEPT ![g] = i]
            /\ \/ /\ b # {}
                  /\ pc' = [pc EXCEPT ![g] = "send"]
                  /\ batch' = [batch EXCEPT ![g] = {}]
                  /\ out' = [out EXCEPT ![g] = b]
               \/ /\ ~MustFlush(b)
                  /\ batch' = [batch EXCEPT ![g] = b]
                  /\ UNCHANGED <<pc, out>>
      /\ UNCHANGED <<mdtVars, cursor, catalog, events, acks, pend, last,
                     ingestVars, cancelled>>

(* Fault: what is left at the end of the drain waits for a full batch. *)
EndDrainHolding(g) ==
  /\ pc[g] = "drain"
  /\ Larger(pos[g], cleared) >= Len(log)
  /\ pc' = [pc EXCEPT ![g] = "acks"]
  /\ UNCHANGED <<mdtVars, cursor, catalog, pos, seen, batch, out, events, acks,
                 pend, last, ingestVars, cancelled>>

(* End of the drain, at EOF or at a recv error: what is left is flushed.   *)
EndDrain(g) ==
  /\ pc[g] = "drain"
  /\ Larger(pos[g], cleared) >= Len(log) \/ "recv" \in Disturbances
  /\ pc' = [pc EXCEPT ![g] = IF batch[g] = {} THEN "acks" ELSE "flush"]
  /\ batch' = [batch EXCEPT ![g] = {}]
  /\ out' = [out EXCEPT ![g] = batch[g]]
  /\ UNCHANGED <<mdtVars, cursor, catalog, pos, seen, events, acks, pend, last,
                 ingestVars, cancelled>>

(* blocking_send waits for room in the event channel. *)
Send(g) ==
  /\ pc[g] \in {"send", "flush"}
  /\ Attached(g)
  /\ Len(events[g]) < ChannelBuffer
  /\ events' = [events EXCEPT ![g] = Append(@, out[g])]
  /\ out' = [out EXCEPT ![g] = {}]
  /\ pc' = [pc EXCEPT ![g] = IF @ = "send" THEN "drain" ELSE "acks"]
  /\ UNCHANGED <<mdtVars, cursor, catalog, pos, seen, batch, acks, pend, last,
                 ingestVars, cancelled>>

(* The receiver is gone: the thread returns without processing the acks. *)
SendToClosed(g) ==
  /\ pc[g] \in {"send", "flush"}
  /\ ~Attached(g)
  /\ Return(g)
  /\ UNCHANGED <<mdtVars, cursor, catalog, events, ingestVars, cancelled>>

(* process_acks, first half: all acks are taken from the channel, and the  *)
(* largest checkpoint above last_cleared becomes the pending one.          *)
AckPcs == {"acks", "lastAcks"}

Checkpoints(g) ==
  {pend[g]} \cup {a \in {acks[g][j] : j \in 1..Len(acks[g])} : a > last[g]}

TakeAcks(g, idx) ==
  /\ pc[g] \in AckPcs
  /\ idx \in Checkpoints(g)
  /\ \A a \in Checkpoints(g) : a <= idx
  /\ acks' = [acks EXCEPT ![g] = <<>>]
  /\ pend' = [pend EXCEPT ![g] = idx]

(* After process_acks: sleep and go on, or return after the last call. *)
Resume(g) ==
  pc' = [pc EXCEPT ![g] = IF @ \in {"acks", "clear"} THEN "top" ELSE "end"]

(* No checkpoint to persist, or the cursor store rejected it: it is kept   *)
(* in AckState for the next call.                                          *)
KeepCheckpoint(g) ==
  /\ \E idx \in Checkpoints(g) :
       /\ TakeAcks(g, idx)
       /\ idx = 0 \/ "persist" \in Disturbances
  /\ Resume(g)
  /\ UNCHANGED <<mdtVars, cursor, catalog, pos, seen, batch, out, events, last,
                 ingestVars, cancelled>>

(* Faults: the cursor is overwritten; the cursor is not stored at all. *)
CursorOverwritten(idx) == idx
CursorNotStored(idx) == cursor

(* What MariaDbCursorStore::commit stores: GREATEST(last_rec, rec_id). *)
CommittedCursor(idx) == Larger(cursor, idx)

(* The cursor is durable before the MDT is asked to purge. *)
PersistCursor(g) ==
  /\ \E idx \in Checkpoints(g) :
       /\ TakeAcks(g, idx)
       /\ idx # 0
       /\ cursor' = CommittedCursor(idx)
  /\ pc' = [pc EXCEPT ![g] = IF @ = "acks" THEN "clear" ELSE "lastClear"]
  /\ UNCHANGED <<mdtVars, catalog, pos, seen, batch, out, events, last,
                 ingestVars, cancelled>>

ClearPcs == {"clear", "lastClear"}

(* Fault: the purge takes what was read for what was acked. *)
ClearRead(g) ==
  /\ pc[g] \in ClearPcs
  /\ cleared' = Larger(cleared, seen[g])
  /\ last' = [last EXCEPT ![g] = pend[g]]
  /\ pend' = [pend EXCEPT ![g] = 0]
  /\ Resume(g)
  /\ UNCHANGED <<log, cursor, catalog, pos, seen, batch, out, events, acks,
                 ingestVars, cancelled>>

(* process_acks, second half: clear_changelog.  On EINVAL the MDT purges   *)
(* nothing and the listener forgets the checkpoint all the same.           *)
ClearChangelog(g) ==
  /\ pc[g] \in ClearPcs
  /\ \/ cleared' = Larger(cleared, pend[g])
     \/ "einval" \in Disturbances /\ cleared' = cleared
  /\ last' = [last EXCEPT ![g] = pend[g]]
  /\ pend' = [pend EXCEPT ![g] = 0]
  /\ Resume(g)
  /\ UNCHANGED <<log, cursor, catalog, pos, seen, batch, out, events, acks,
                 ingestVars, cancelled>>

(* Any other error: the checkpoint is retained for retry. *)
ClearFails(g) ==
  /\ pc[g] \in ClearPcs
  /\ "clear" \in Disturbances
  /\ Resume(g)
  /\ UNCHANGED <<mdtVars, cursor, catalog, pos, seen, batch, out, events, acks,
                 pend, last, ingestVars, cancelled>>

(* The loop was left after a cancellation. *)
ListenerEnds(g) ==
  /\ pc[g] = "end"
  /\ Return(g)
  /\ UNCHANGED <<mdtVars, cursor, catalog, events, ingestVars, cancelled>>

-----------------------------------------------------------------------------
(* The ingest loop, with LustreChangeSource inside it.                     *)

(* ingest_loop returns: the source and its channel ends are dropped. *)
IngestReturns ==
  /\ cpc' = "down"
  /\ ready' = {}
  /\ cur' = 0
  /\ cstat' = 0
  /\ events' = [events EXCEPT ![gen] = <<>>]
  /\ UNCHANGED gen

(* Fault: the envelopes of a batch are handed out from its end. *)
DeliverLast(b, i) ==
  /\ i \in b
  /\ \A j \in b : j <= i
  /\ cur' = i
  /\ ready' = b \ {i}
  /\ cpc' = "apply"
  /\ UNCHANGED <<gen, cstat>>

(* next_batch hands out the envelopes of a received batch one at a time.   *)
(* Their order is that of the indices, so the next one is the smallest.    *)
Deliver(b, i) ==
  /\ i \in b
  /\ \A j \in b : i <= j
  /\ cur' = i
  /\ ready' = b \ {i}
  /\ cpc' = "apply"
  /\ UNCHANGED <<gen, cstat>>

NextBatch ==
  /\ cpc = "recv"
  /\ \/ /\ ready # {}
        /\ \E i \in ready : Deliver(ready, i)
        /\ UNCHANGED events
     \/ /\ ready = {}
        /\ events[gen] # <<>>
        /\ \E i \in Head(events[gen]) : Deliver(Head(events[gen]), i)
        /\ events' = [events EXCEPT ![gen] = Tail(@)]
  /\ UNCHANGED <<mdtVars, cursor, catalog, listenerVars, cancelled>>

(* The select of receive also ends the wait: the token fired, or the       *)
(* listener has returned and the channel is drained.                       *)
IngestEnds ==
  /\ cpc = "recv"
  /\ \/ cancelled
     \/ ready = {} /\ events[gen] = <<>> /\ pc[gen] = "done"
  /\ IngestReturns
  /\ UNCHANGED <<mdtVars, cursor, catalog, listenerVars, cancelled>>

(* apply_event.  Its first half looks the row up where the code does, and  *)
(* stats the file by FID.                                                  *)
NeedsStat(i) ==
  \/ log[i].kind \in CreateKinds
  \/ log[i].kind \in RestatKinds /\ catalog[log[i].fid] # 0
  \/ log[i].kind \in MoveKinds /\ catalog[log[i].fid] = 0

StatEntry ==
  /\ cpc = "apply"
  /\ NeedsStat(cur)
  /\ cstat' \in {IF Alive(log[cur].fid) THEN Len(log) ELSE 0}
                 \cup (IF "stat" \in Disturbances THEN {0} ELSE {})
  /\ cpc' = "write"
  /\ UNCHANGED <<mdtVars, cursor, catalog, events, listenerVars, gen, ready,
                 cur, cancelled>>

(* Its second half upserts what the stat returned.  A failed stat, for     *)
(* whatever reason, counts as a file that is gone: Ok(false).              *)
WriteEntry ==
  /\ cpc = "write"
  /\ catalog' = IF cstat = 0 THEN catalog
                             ELSE [catalog EXCEPT ![log[cur].fid] = cstat]
  /\ cstat' = 0
  /\ cpc' = "commit"
  /\ UNCHANGED <<mdtVars, cursor, events, listenerVars, gen, ready, cur,
                 cancelled>>

(* A directory goes with its RMDIR; a file goes with its last unlink       *)
(* unless its FID still resolves.                                          *)
Removes(i) ==
  \/ log[i].kind = "RMDIR"
  \/ log[i].kind = "UNLNK_LAST" /\ ~Alive(log[i].fid)

RemoveEntry ==
  /\ cpc = "apply"
  /\ Removes(cur)
  /\ catalog' = [catalog EXCEPT ![log[cur].fid] = 0]
  /\ cpc' = "commit"
  /\ UNCHANGED <<mdtVars, cursor, events, listenerVars, gen, ready, cur, cstat,
                 cancelled>>

(* The other events leave the attributes of the row as they are: they      *)
(* change names, the link count or sm_status, or nothing at all.           *)
KeepEntry ==
  /\ cpc = "apply"
  /\ ~NeedsStat(cur)
  /\ ~Removes(cur)
  /\ cpc' = "commit"
  /\ UNCHANGED <<mdtVars, cursor, catalog, events, listenerVars, gen, ready,
                 cur, cstat, cancelled>>

(* Fault: the error is logged and the loop goes on to the commit. *)
ApplyErrorIgnored ==
  /\ "apply" \in Disturbances
  /\ cpc \in {"apply", "write", "commit"}
  /\ cpc' = "commit"
  /\ UNCHANGED <<mdtVars, cursor, catalog, events, listenerVars, gen, ready,
                 cur, cstat, cancelled>>

(* An error of the store, before the write or (when the entry is           *)
(* classified) after it: the loop ends without a commit.                   *)
ApplyFails ==
  /\ "apply" \in Disturbances
  /\ cpc \in {"apply", "write", "commit"}
  /\ IngestReturns
  /\ UNCHANGED <<mdtVars, cursor, catalog, listenerVars, cancelled>>

(* source.commit waits for room in the ack channel; it is not inside the   *)
(* select that watches the cancellation token.                             *)
Commit ==
  /\ cpc = "commit"
  /\ pc[gen] # "done"
  /\ Len(acks[gen]) < ChannelBuffer
  /\ acks' = [acks EXCEPT ![gen] = Append(@, cur)]
  /\ cpc' = "recv"
  /\ cur' = 0
  /\ UNCHANGED <<mdtVars, cursor, catalog, events, pc, pos, seen, batch, out,
                 pend, last, gen, ready, cstat, cancelled>>

(* CommitChannelClosed: the listener has returned. *)
CommitToClosed ==
  /\ cpc = "commit"
  /\ pc[gen] = "done"
  /\ IngestReturns
  /\ UNCHANGED <<mdtVars, cursor, catalog, listenerVars, cancelled>>

-----------------------------------------------------------------------------
(* The supervisor and the process.                                         *)

(* Faults: the durable cursor is not a pending checkpoint of the new       *)
(* listener; the record at the cursor is read again.                       *)
SpawnWith(g, from, checkpoint) ==
  /\ cpc = "down"
  /\ ~cancelled
  /\ pc[g] = "done"
  /\ pc' = [pc EXCEPT ![g] = "top"]
  /\ seen' = [seen EXCEPT ![g] = from]
  /\ pend' = [pend EXCEPT ![g] = checkpoint]
  /\ gen' = g
  /\ cpc' = "recv"
  /\ UNCHANGED <<mdtVars, cursor, catalog, pos, batch, out, events, acks, last,
                 ready, cur, cstat, cancelled>>
SpawnWithoutPending(g) == SpawnWith(g, cursor, 0)
SpawnAtCursor(g) == SpawnWith(g, cursor - 1, cursor)

(* ChangelogListener::spawn and a new ingest loop: the listener resumes    *)
(* after the durable cursor and starts with that cursor as its pending     *)
(* checkpoint, so that the MDT is purged up to it.                         *)
Spawn(g) ==
  /\ cpc = "down"
  /\ ~cancelled
  /\ pc[g] = "done"
  /\ pc' = [pc EXCEPT ![g] = "top"]
  /\ seen' = [seen EXCEPT ![g] = cursor]
  /\ pend' = [pend EXCEPT ![g] = cursor]
  /\ gen' = g
  /\ cpc' = "recv"
  /\ UNCHANGED <<mdtVars, cursor, catalog, pos, batch, out, events, acks, last,
                 ready, cur, cstat, cancelled>>

Cancel ==
  /\ "cancel" \in Disturbances
  /\ ~cancelled
  /\ cancelled' = TRUE
  /\ UNCHANGED <<mdtVars, cursor, catalog, events, listenerVars, ingestVars>>

(* The daemon dies and is started again: MDT and MariaDB keep their state. *)
Crash ==
  /\ "crash" \in Disturbances
  /\ pc' = All("done")
  /\ pos' = All(0)
  /\ seen' = All(0)
  /\ batch' = All({})
  /\ out' = All({})
  /\ events' = All(<<>>)
  /\ acks' = All(<<>>)
  /\ pend' = All(0)
  /\ last' = All(0)
  /\ cpc' = "down"
  /\ ready' = {}
  /\ cur' = 0
  /\ cstat' = 0
  /\ cancelled' = FALSE
  /\ UNCHANGED <<mdtVars, cursor, catalog, gen>>

ListenerNext(g) ==
  \/ Open(g)
  \/ SeeCancel(g)
  \/ Recv(g)
  \/ EndDrain(g)
  \/ Send(g)
  \/ SendToClosed(g)
  \/ KeepCheckpoint(g)
  \/ PersistCursor(g)
  \/ ClearChangelog(g)
  \/ ClearFails(g)
  \/ ListenerEnds(g)

IngestNext ==
  \/ NextBatch
  \/ IngestEnds
  \/ StatEntry
  \/ WriteEntry
  \/ RemoveEntry
  \/ KeepEntry
  \/ ApplyFails
  \/ Commit
  \/ CommitToClosed

Next ==
  \/ \E f \in Fids, k \in Kinds : MdtAppend(f, k)
  \/ \E g \in Listeners : ListenerNext(g) \/ Spawn(g)
  \/ IngestNext
  \/ Cancel
  \/ Crash

Spec == Init /\ [][Next]_vars

-----------------------------------------------------------------------------
(* Properties                                                              *)

(* Record i needs no more work: it carries no attributes, its file no      *)
(* longer exists, or the row was read after it.                            *)
Reflected(i) ==
  log[i].kind \in DataKinds /\ Alive(log[i].fid) => catalog[log[i].fid] >= i

Covered(n) == \A i \in Indices : i <= n => Reflected(i)

(* The durable cursor never passes a record that a live file's row does    *)
(* not reflect, through crashes, replays, dedup, batching, failed writes   *)
(* and listeners that outlive their ingest loop: a restart resumes after   *)
(* the cursor (listener.rs spawn), so such a record would never be read.   *)
FreshUpToCursor == Covered(cursor)

(* The MDT is purged only behind the durable cursor: process_acks persists *)
(* first, so a crash between the two steps loses no record.                *)
ClearedBehindCursor == cleared <= cursor

(* No checkpoint moves the durable cursor back, although a listener that   *)
(* outlives its ingest loop may still hold older acks than its successor   *)
(* has already persisted (MariaDbCursorStore::commit).                     *)
CursorMonotone == [][cursor' >= cursor]_vars

(* The pipeline is an implementation of the abstract change stream.        *)
Stream == INSTANCE ChangeStream WITH
            produced  <- Len(log),
            reflected <- {i \in Indices : Reflected(i)}

(* Every step of the pipeline is a step of the change stream: the cursor   *)
(* passes only reflected records, purging stays behind the cursor, and no  *)
(* crash, replay or late write takes back what the catalog reflected.      *)
ImplementsStream == Stream!StreamSpec

(* The MDT purges no record before the catalog reflects it: "No events are *)
(* lost" (listener.rs), whatever fails between the MDT and the catalog.    *)
NothingLost == Stream!NothingLost

-----------------------------------------------------------------------------
(* Liveness.  The listener thread and the tasks of the daemon are          *)
(* scheduled (weak fairness of each one).  An operation that can fail and  *)
(* is retried succeeds if it is retried forever (strong fairness of the    *)
(* operation), and the daemon stops crashing some day.                     *)

Fairness ==
  /\ \A g \in Listeners :
       /\ WF_vars(ListenerNext(g))
       /\ SF_vars(Recv(g))
       /\ SF_vars(PersistCursor(g))
       /\ SF_vars(ClearChangelog(g))
  /\ WF_vars(IngestNext)
  /\ WF_vars(\E g \in Listeners : Spawn(g))
  /\ <>[][~Crash]_vars

LiveSpec == Spec /\ Fairness

(* Every record the MDT logs is in the end reflected in the catalog unless *)
(* the daemon is told to stop: none is stuck in the deduplicator, in a     *)
(* batch, in a channel or behind a record that is retried.                 *)
EveryRecordReflected ==
  \A i \in 1..MaxRec :
    Len(log) >= i ~> cancelled \/ (Len(log) >= i /\ Reflected(i))

(* What the cursor has passed is in the end purged from the MDT: a purge   *)
(* that a crash or an error interrupted is repeated by the next listener,  *)
(* which starts with the durable cursor as its pending checkpoint.         *)
CursorLeadsToPurge ==
  \A i \in 1..MaxRec : cursor >= i ~> cancelled \/ cleared >= i

(* After a cancellation every listener returns.                            *)
CancelStops == cancelled ~> \A g \in Listeners : pc[g] = "done"
=============================================================================
