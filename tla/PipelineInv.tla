---------------------------- MODULE PipelineInv ----------------------------
(***************************************************************************)
(* The inductive invariant behind the safety of ChangelogPipeline.         *)
(*                                                                         *)
(* FreshUpToCursor is not inductive: the cursor is raised to a checkpoint  *)
(* that was sent long before, possibly to a listener whose ingest loop is  *)
(* gone.  The invariant therefore says what every checkpoint on its way to *)
(* the cursor covers (CheckpointsCovered), and why the event being applied *)
(* is a sound checkpoint: whatever the listener has read and the catalog   *)
(* does not reflect yet is repaired by an event still in flight            *)
(* (ReadIsRepaired), and events in flight are ahead of it (InOrder).       *)
(***************************************************************************)
EXTENDS ChangelogPipeline

(* A file's first record is its creation, and it has only one. *)
LogWellFormed ==
  /\ \A i \in Indices :
       \E c \in Indices : log[c].fid = log[i].fid /\ log[c].kind \in CreateKinds
  /\ \A i, c \in Indices :
       log[c].fid = log[i].fid /\ log[c].kind \in CreateKinds => c <= i

(* Nothing is ahead of the changelog: neither positions and row versions,  *)
(* nor checkpoints, nor the records that are held anywhere.                *)
PositionsWithinLog ==
  /\ cursor <= Len(log)
  /\ cstat <= Len(log)
  /\ \A f \in Fids : catalog[f] <= Len(log)
  /\ \A g \in Listeners : seen[g] <= Len(log) /\ pos[g] <= Len(log)

CheckpointsWithinLog ==
  \A g \in Listeners :
    /\ pend[g] <= Len(log)
    /\ \A j \in 1..Len(acks[g]) : acks[g][j] <= Len(log)

RecordsWithinLog ==
  /\ \A g \in Listeners :
       /\ batch[g] \subseteq Indices
       /\ out[g] \subseteq Indices
       /\ \A j \in 1..Len(events[g]) : events[g][j] \subseteq Indices
  /\ ready \subseteq Indices
  /\ cpc \in {"apply", "write", "commit"} => cur \in Indices

(* A purge is requested only for a checkpoint that is durable. *)
PurgeInv ==
  /\ ClearedBehindCursor
  /\ \A g \in Listeners : pc[g] \in ClearPcs => pend[g] <= cursor

(* What control states say of the data: a listener that has returned holds *)
(* nothing, and an event channel without receiver is empty.                *)
ControlState ==
  /\ \A g \in Listeners :
       /\ pc[g] = "done" => /\ batch[g] = {} /\ out[g] = {}
                            /\ acks[g] = <<>> /\ pend[g] = 0
       /\ batch[g] # {} => pc[g] = "drain"
       /\ out[g] # {} <=> pc[g] \in {"send", "flush"}
       /\ ~Attached(g) => events[g] = <<>>
  /\ cpc = "down" => ready = {}
  /\ cpc \in {"down", "recv"} => cur = 0

(* Every checkpoint on its way to the cursor covers what it should. *)
CheckpointsCovered ==
  /\ Covered(cursor)
  /\ \A g \in Listeners :
       /\ Covered(pend[g])
       /\ \A j \in 1..Len(acks[g]) : Covered(acks[g][j])

(* The ingest loop holds the receiver of a listener that is running. *)
Serving == cpc # "down" /\ pc[gen] # "done"

(* The events on their way to the catalog: held by the listener, in the    *)
(* event channel, unpacked by the source, being applied.                   *)
Held     == batch[gen] \cup out[gen]
Channel  == UNION {events[gen][j] : j \in 1..Len(events[gen])}
Applying == IF cpc \in {"apply", "write"} THEN {cur} ELSE {}
Flight   == Held \cup Channel \cup ready \cup Applying

(* They are applied in the order of their indices. *)
InOrder ==
  cpc # "down" =>
    /\ \A m \in ready : cur < m
    /\ \A m \in Channel : cur < m /\ \A n \in ready : n < m
    /\ \A m \in Held : /\ cur < m
                       /\ \A n \in ready \cup Channel : n < m
    /\ \A j, k \in 1..Len(events[gen]) :
         j < k => \A m \in events[gen][j], n \in events[gen][k] : m < n
    /\ pc[gen] # "done" =>
         \A m \in Held \cup Channel \cup ready \cup {cur} : m <= seen[gen]

(* The drain passes over nothing but skipped and purged records. *)
DrainComplete ==
  \A g \in Listeners : pc[g] \in {"drain", "send"} =>
    /\ seen[g] <= pos[g]
    /\ \A i \in Indices :
         seen[g] < i /\ i <= pos[g] => i <= cleared \/ log[i].kind = "SKIP"

(* What a stat has returned is newer than the row, and a stat fails only   *)
(* for a file that is gone.                                                *)
StatRecent ==
  cpc = "write" => IF cstat = 0 THEN ~Alive(log[cur].fid)
                                ELSE catalog[log[cur].fid] <= cstat

(* Applying m will bring the row of its file up to record i. *)
Repairs(m, i) ==
  /\ m <= i
  /\ log[m].fid = log[i].fid
  /\ log[m].kind \in DataKinds
  /\ cpc = "write" /\ m = cur => i <= cstat

(* What the serving listener has read is reflected or will be. *)
ReadIsRepaired ==
  Serving =>
    \A i \in Indices :
      i <= seen[gen] => Reflected(i) \/ \E m \in Flight : Repairs(m, i)

(* The inductive invariant: every checkpoint on its way from ingest_loop   *)
(* to the cursor is covered by the catalog, because run_polling_loop hands *)
(* the records over in order and drops only those that another repairs.    *)
IInv ==
  /\ TypeOK
  /\ LogWellFormed
  /\ PositionsWithinLog
  /\ CheckpointsWithinLog
  /\ RecordsWithinLog
  /\ PurgeInv
  /\ ControlState
  /\ CheckpointsCovered
  /\ InOrder
  /\ DrainComplete
  /\ StatRecent
  /\ ReadIsRepaired
=============================================================================
