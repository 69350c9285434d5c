# robinhood-rs in TLA+

robinhood-rs keeps a MariaDB catalog of the files of Lustre and JuiceFS file systems up to
date, and runs policies (purge, archive, release, backup, alerts) on the entries of that
catalog. This development models how the catalog is filled, how policies are scheduled and
run, and what their actions do to files that users change at the same time. TLC checks the
models on small instances; TLAPS proves the properties that matter most for every instance.

## The system and its parts

| Part | Source | Modules |
|---|---|---|
| Changelog listener, batcher, cursor | `crates/lustre-changelog` | `ChangelogPipeline` |
| Deduplicator and event kinds | `crates/lustre-changelog` | `Dedup`, `DedupBatch` |
| Change sources | `crates/rbh-change-source` | `ChangelogPipeline` (Lustre), `JuiceFs` |
| Ingest loop | `crates/rbh-daemon/src/changelog.rs` | `ChangelogPipeline` (order), `LustreCatalog` (rows), `JuiceFs`, `Classifiers` |
| Supervisors, initial and baseline scans | `crates/rbh-daemon/src/lib.rs` | `ChangelogPipeline`, `Scan`, `JuiceFs` |
| HSM poller | `crates/rbh-daemon/src/hsm_poller.rs` | `LustreCatalog` |
| Threshold checker, pruner of schedules | `crates/rbh-daemon` | `Schedules`, `Triggers` |
| Catalog tables | `crates/rbh-entry-store` | `Catalog` |
| JuiceFS changelog agent (Go) | `agents/juicefs-changelog-agent` | `JuiceFs` |
| Policy runs and rate limiter | `crates/rbh-policy` | `PolicyRun`, `RateLimiter` |
| Triggers, validation, reconciliation | `crates/rbh-policy`, `crates/rbh-api` | `Triggers`, `Schedules` |
| Classifiers and predicates | `crates/rbh-policy`, `crates/rbh-predicate` | `Conditions`, `Classifiers`, `Predicates` |
| Purge, backup, alert, HSM actions | `crates/rbh-actions`, `crates/rbh-namespace` | `Actions` |
| File system scan | `crates/rbh-fs-scan` | `Scan` |

`PROJECT.json` lists every part with its status, every definition with the lines it models,
and the hazards of the code with the properties that cover them.

How the parts meet. The MDT (Lustre's metadata server) numbers its changelog records. A
listener thread reads them, drops redundant ones, and sends batches through a bounded channel
to the ingest loop, which applies one event at a time to the catalog and sends its index back
through a bounded ack channel. The listener writes the largest acked index to the cursor
table and only then lets the MDT purge. A JuiceFS volume is watched through an agent that
keeps the cursor in a file; its catalog starts from two scans. The HSM poller and the
classifiers write to the same rows as ingest. Policies are rows of a table; every change
reconciles an external scheduler with it, the threshold checker adds one-shot schedules, and
a run queries the catalog and acts on what it finds, which may be old by then.

## Modules

| Module | Content |
|---|---|
| `ChangeStream` | abstract specification: an at-least-once stream with a durable checkpoint |
| `ChangelogPipeline` | MDT, listeners, channels, ingest loop, supervisor of one MDT; implements `ChangeStream` |
| `PipelineInv` | the inductive invariant `IInv` of ingest |
| `Dedup`, `DedupBatch` | the deduplicator as operators; one batch of one file with and without it |
| `Catalog` | the tables of `store.rs` as operators, one per statement or transaction |
| `LustreCatalog` | changelog ingest and the HSM poller, statement by statement, on `Catalog` |
| `JuiceFs` | volume, agent, change source, baseline scans, ingest, on `Catalog`; implements `ChangeStream` |
| `Scan` | parallel walk, lookups, storing task; initial scan and API scan, on `Catalog` |
| `Actions` | purge, backup, alert, HSM executors against users and ingest, on `Catalog` |
| `RateLimiter`, `PolicyRun` | the token buckets; one policy run from validation to recorded result |
| `Triggers`, `Schedules` | trigger parser, validation and measures; handlers, boot, scheduler, checker, pruner |
| `Conditions` | the rules of a classifier: parsing a when expression, and its value on a row |
| `Predicates` | predicate trees, evaluated in memory and in SQL, on `Conditions` |
| `Classifiers` | definitions, cache, incremental and full runs, on `Conditions` |
| `MC...` | constants of the instances that TLC checks |
| `PipelineProofs` | proofs about `ChangelogPipeline` |
| `JuiceProofs`, `CatalogProofs` | proofs about `JuiceFs` and `LustreCatalog` |
| `PolicyProofs`, `ScheduleProofs` | proofs about `RateLimiter` and `PolicyRun`, and about `Schedules` |
| `ActionsProofs` | proofs about `Actions`: purges, and the catalog they share with ingest |
| `ScanProofs`, `ClassifierProofs` | proofs about `Scan` and about `Classifiers` |

`LustreCatalog`, `JuiceFs`, `Scan` and `Actions` compose their component with `Catalog` by
extending it. `PolicyRun` extends `RateLimiter`, `Schedules` extends `Triggers`, and
both `Classifiers` and `Predicates` extend `Conditions`. A variable `world`, chosen in the initial state and never changed,
selects the scenario of a behaviour: which operations happen, how many, and which faults.
One run thus covers several scenarios, and no scenario needs a module of its own.

An operator whose comment begins with "Fault" is a variant of the definition that follows it,
with one plausible mistake. No specification uses it. It shows that a property can fail.

### `ChangelogPipeline`

| Variable | Code |
|---|---|
| `log`, `cleared` | the changelog of the MDT and how far it is purged (external) |
| `cursor` | `changelog_cursors.last_rec` |
| `catalog[f]` | how long `log` was when the row of `f` was last statted; 0: no row |
| `pc`, `pos`, `seen` | position in `run_polling_loop`, last record read, `next_start - 1` |
| `batch`, `out` | the deduplicator's queues; a batch waiting in `blocking_send` |
| `events`, `acks` | the two `mpsc` channels, of `channel_buffer` each |
| `pend`, `last` | `AckState.pending`, `AckState.last_cleared` |
| `gen`, `cpc`, `ready`, `cur`, `cstat` | the listener being served, position in `ingest_loop`, `LustreChangeSource.ready` and `.pending`, the stat result held across the await |
| `cancelled` | the cancellation token |

The attributes of a file change only when the MDT logs a record for it, so the length of
`log` at the moment of a stat stands for what the stat returned. A row is up to date with
record `i` iff `catalog[f] >= i`.

- Listener: `Open`, `SeeCancel`, `Recv`, `EndDrain`, `Send`, `SendToClosed`, `ListenerEnds`
  are the steps of `run_polling_loop`. `KeepCheckpoint`, `PersistCursor`, `ClearChangelog`,
  `ClearFails` are the outcomes of `process_acks`; the cursor write and the purge are two
  steps, because a crash can fall between them.
- Ingest: `NextBatch`, `IngestEnds`, then `StatEntry` and `WriteEntry`, `RemoveEntry` or
  `KeepEntry` for `apply_event`, then `Commit` or `CommitToClosed`. `ApplyFails` is a store
  error at any point before the commit.
- Supervisor and process: `Spawn`, `Cancel`, `Crash` (which includes the restart).

`Disturbances` selects what may go wrong: a crash, a failed catalog write, a stat that fails
for a live file, a recv error, a rejected cursor write, a failed purge (kept for a retry, or
forgotten after EINVAL), a cancellation. The flush interval of the batcher is a free choice at
every record.

### `Catalog` and `LustreCatalog`

`db` has the tables: `entry` (rows with parent, name, links, `sm_status`), `edge` (names),
`stripe` and `removed`. `LustreCatalog` adds the file system (`link`, `hsm`), its `log`,
the durable `cursor`, the position of ingest and of the poller. An event is applied by the
same statements in the same order as in `apply_event` and the store methods it calls: a
rename is `Displace`, `RenameEdges`, `RenameRow`, `RenameEdge`; a patch of `sm_status` is a
read and a later write. Users, the poller and a crash come between any two of them. A rename
between MDTs is logged as two records that ingest sees in either order. The records reach
ingest in batches: `Flush` passes those up to a free choice of the last one through the
deduplicator (`Pushed`, on `push` of `Dedup`, one queue for each MDT), `Skip` passes over what it
dropped, and the cursor moves only with the last record left of a batch. After a crash a replay
is therefore cut into other batches than before. The history variable `unseen` collects the
objects with a row whose creation the deduplicator dropped. A link count is a `u32`:
`MoreLinks` saturates at `MaxLinks`, and a stat wraps around it (`LinkCount`).

### `JuiceFs`

The volume is one directory with its log. The agent has the cursor file and `delivered`; the
source has `open`, `next`, `last_acknowledged` and `pending`; the supervisor walks from
reading the baseline through the first scan, `Connect`, the second scan (`VerifyWalk`,
`Compare`) to ingest. `Ack`, with the outcomes of the agent's `Ack` and of the cursor file,
is the commit. Faults are a crash of the daemon, a restart of the agent, a lost answer, a
failed scan (`ScanFails`, in the first or in the verifying walk) and a refused reopening.

### `Scan`

Walkers take directories from a shared queue whose counter `pending` closes it. They read
names and look at each path again; lookups resolve its identity; the storing task writes
batches. Both channels are bounded. `task` is the supervisor (count, scan, repeat on errors,
ingest) or the API handler. Users rename and unlink meanwhile.

### `Actions`

A worker holds the row its query returned. A purge is `Resolve`, `VerifyPath`, `Capture` (the
rename to a new quarantine name out of `Asides`, a UUID in the code), `CheckCaptured`, then
`RemoveFile` or `Restore`, then the catalog update in two statements. The history variables
`cargo` and `fate` record what each quarantine name was drawn for and how its purge ended; the
purge of one worker may capture what another one has hidden. The HSM executors check the live state and submit a request
that the coordinator (external) takes up later. Ingest is kept as what it achieves for one
object. `LookupErrs` is a lookup that fails for a passing reason: `resolve_lustre` reports each
failed fid2path, path2fid and stat as `StalePath`, as does `resolve_juice_object` when no stat
succeeds, and a purge takes that for a file that is gone. `back` collects the files that came
back to a name they had left and those that such an error made a purge forget.

### `RateLimiter` and `PolicyRun`

A run goes through its checks, the query, the dispatch loop and the join. `worker`,
`attempt` and `running` follow each entry. The two dispatch loops differ in the order of
limiter and semaphore and in what a timeout does. The limiter counts in fractions of an action
or byte so that a tick of the clock refills exactly the rate.

### `Triggers` and `Schedules`

A trigger string is the record of what the parser tells apart. Requests run concurrently; the
write of the policy table and each scheduler call is a step. `SchedulerFails`, `DeleteFails` and
`BootErrs` are the calls that err: of the scheduler, of the policy table in a delete, and of the
file system table at boot, which makes a policy lose its schedules like one that does not fit. The
history variable `hit` collects the policies that such a failure, a crash, an overlapping request
or the removal by prefix has disturbed. The scheduler is an external
persistent table. The boot and the checker keep the set of policies they have listed and still
have to visit; `Foremost` takes them in the order of their ids, as the code's list is sorted.
`Leading` gives the ids that an id begins with, and so the schedules a name prefix matches.
`Radix` is the base in which ids are written into schedule names; base 2
lets policies 1 and 2 ("1" and "10") show what policies 1 and 10 do in the code.

### `Conditions`, `Predicates` and `Classifiers`

A when expression is a sequence of terms; it is parsed, at the time of each evaluation, into a
conjunction of comparisons, which is evaluated on a row. One evaluation reads the clock once; the
code reads it for every term, within the same moment.

Predicate trees grow from leaves of every kind and are evaluated on sample rows in memory and as
the SQL that is built from them, with NULL as a third truth value. A tag is a string or a number; its
key is cut at the dots, because `to_sql` puts it into a JSON path. LIKE knows an escape
character and `like_match` does not. A regular expression is a literal text that is searched for,
with a flag for each engine that says whether it accepts the syntax. `SameLeaf` names the leaves
on which the two evaluations differ by themselves; see the observations.

Classifiers are edited by handlers that reload a cache in two steps, read by ingest under a
lock, and run over the catalog page by page, up to `MaxEntries` rows. `now` is the clock, which
moves on between any two steps (`Tick`). `PatchReads` and `PatchWrites` are the other writers of
`sm_status`, which write an old copy of the row back. Failures end a reload, a batch of ingest, a
page or one update of a run. The history variable `asOf` is the time at which the rules were last
evaluated on an object, `since` that of the start of the last run, and `missed` collects the
objects which that run, or a writer since, may have left without their tags.

`Classifiers` needs no recursion, because a when expression is never nested; the recursive
operators stay in `Predicates`, which the proofs do not use.

## Runs

| Run | Shows |
|---|---|
| `crash` | `IInv`, `TypeOK`; `ClearedBehindCursor` and `CursorMonotone` with an old listener still at work; `FreshUpToCursor`: the cursor passes no record a live file's row lacks; `NothingLost`; `ImplementsStream` |
| `liveness` | `EveryRecordReflected`, `CursorLeadsToPurge`, `CancelStops` |
| `dedup` | `DedupKeepsRow`: dropping events, and converting them to changes and back, leaves the same row |
| `catalog` | `NoOrphans`, `EveryLinkFound`, `RowsAreLive`: names and rows converge to the file system, after a replay too; a row outlives its file only if its replayed creation was dropped by the deduplicator; `ReportsMatch`: without replays, du ends and the reports are right; `HsmConverges` |
| `juicefs` | `ReadyIsComplete`: a Ready baseline holds the whole namespace; `ImplementsStream`; `CatchesUpOrBlocked` |
| `scan` | `ScanEnds`; `ScanComplete`: a clean scan stored every name that kept its place; `ScannedIsReceived` |
| `actions` | `NothingElseLost`: a purge destroys nothing but its target; `HiddenIsReported`; `ConvergedWhenQuiet`: the catalog converges, except for files that came back or that a failed lookup made a purge forget; `HsmSettles` |
| `policy_run` | `RateHolds`, `CompletionBarrier`, `CapsHold`, `CountsAddUp`, `RunEnds`, for thirteen policies |
| `schedules` | `HealedByRestart`; `ScheduledAsStored`, for policies that nothing has disturbed; `HotPolicyFires`; `OneShotsPruned` |
| `classify` | `MemoryAgreesWithSql`, outside `SameLeaf`; `CacheIsStored`; `TagsFollowRules`: a row has the tags of its last evaluation, which is not older than the last full run |

Every module with a state has its type invariant `TypeOK`, checked by its run on its own or as
the first conjunct of another invariant. The comment
above each property says exactly what it claims and which histories it leaves out.

What some of them leave out, because the code does it:

- `ScheduledAsStored` excepts the policies in `hit`: a reconciliation that failed between removal
  and addition, two requests on one policy that overlapped, a removal by prefix. `HealedByRestart`
  is about these. An interval that wraps in `u64` is out of its sight, because it compares
  with the parsed trigger.
- `HotPolicyFires` needs a tick of the checker (`RBH_THRESHOLD_TICK_SECS`, 30 s unless set) that is
  shorter than the 300 s for which a checked trigger is passed over (`CheckSecs` > 1). Otherwise a
  policy whose measure fails is due, and ends the cycle, every time.
- `CacheIsStored` excepts two edits that overlapped and a list that failed, at the start of the
  daemon or in a reload, until the next edit (`stale`).
- `TagsFollowRules` excepts the rows in `missed`, and a row that ages into another rule keeps the
  tags of the rule that matched before.
- `ReportsMatch` speaks of logs that are not replayed. It would not find a cycle of directories
  that only a replay makes.

Two runs end in a counterexample: the code differs from what its text says.

| Run | What happens |
|---|---|
| `ack_deadlock` | The listener reads acks only after a drain. With a backlog larger than both channels it waits for room in the event channel while the ingest loop waits for room in the ack channel; neither sees the cancellation ("Cancellation is responsive", `listener.rs:47`). |
| `prefix_removal` | The schedules of a policy are found by the prefix `rbh.policy.<id>` of their names, so reconciling policy 1 also removes those of policy 10. `HealedByRestart` shows that a restart repairs it, because policies are visited in the order of their ids. |

### Bounds

- `MaxRec`, `world.max` and `world.ops` bound the operations: 3 to 5 records are a creation,
  two changes and a removal, or a swap of two names. `MaxLinks` stands for `u32::MAX`.
- Channels of 1 and batches of 1 or 2 make "full" and "partial" happen within such a log; the
  code's channel holds 32. Pages of 1 row (`Batch`, `PageSize`) make paging happen with two
  rows.
- `crash` has one file and two listeners, enough for an old one to overlap with its successor.
  With both busy the supervisor of the model waits; the code would start a third.
- `scan` has two walkers and two lookups on a tree of three objects; `actions` two workers on
  two objects and two names; `policy_run` three entries.
- `MaxClock` and `MaxIdle` make the clock finite; beyond them time no longer counts, and
  `RateHolds` speaks of the time before. `U64` is the modulus of interval arithmetic.
- `Budget`, `world.faults`, `world.crashes` and `world.errors` bound faults. Each is at least 1
  in some scenario.
- `MaxDepth` is 2: a conjunction, disjunction or negation of such trees over twenty leaves.
- `classify` has four rows, pages of two, a run that ends after three, and a clock that shows two
  times, between which a row ages into another rule.
- `catalog` cuts a log of up to five records into all batches.

Deadlock checking is off where a behaviour really ends: when the operations of a scenario are
used up, after a cancellation, at the end of a batch or a scan. It is on in `policy_run` and
`schedules`.

### Fairness

- `ChangelogPipeline`: weak fairness of each listener thread, of the ingest task and of the
  supervisor, which the operating system and tokio schedule. Strong fairness of reading, of
  the cursor write and of the purge: each is retried in a loop for ever, so the assumption is
  that an operation tried infinitely often succeeds once. Crashes end some day. `liveness`
  gives the channels room for the whole log; with smaller ones the cycle of `ack_deadlock`
  stops progress. Recv errors and the EINVAL outcome of a purge are in `crash` instead: after
  EINVAL the listener forgets its checkpoint, and the purge waits for the next ack.
- `LustreCatalog`: weak fairness of ingest and of the poller, two loops of their own tasks.
- `JuiceFs`: weak fairness of the supervisor loop, and of the end of the quiet period.
- `Scan`: weak fairness of each walker, each lookup and the storing task.
- `PolicyRun`: weak fairness of the dispatcher, of each worker and of time. An action is
  assumed to end; on the backend path the code itself waits for that without a limit.
- `Schedules`: weak fairness of requests under way, of boot, of each schedule that is due, of
  the pruner and of the checker.
- `Actions`: weak fairness of workers and of the coordinator. Strong fairness of the start of
  the archive and release policies, which their schedules repeat.

Nothing is assumed of users, requests, cancellations or faults.

## Proofs

The theorems hold for every value of the constants, under the named assumptions of the
modules: sets of objects and names are finite, `None` is none of them, rates and caps are
numbers, a scan visits every name. TLC evaluates each assumption in the runs.

| Theorem | Statement | Assumes |
|---|---|---|
| `TypeCorrect`, `PurgeBehindCursor`, `CursorNeverMovesBack` | `TypeOK`, `ClearedBehindCursor`, `CursorMonotone` of Lustre ingest | `PipelineAssumption` |
| `Inductive`, `CursorCoversCatalog`, `NoRecordLost` | `IInv`, `FreshUpToCursor`, `NothingLost` | also `StatReliable` |
| `PipelineImplementsStream` | Lustre ingest implements `ChangeStream` | also `StatReliable` |
| `CatalogHasNoOrphans` | `NoOrphans` of ingest and poller, types included | `CatalogAssumption`, `LustreAssumption` |
| `JuiceTypes` | `TypeOK` of `JuiceFs` | `CatalogAssumption`, `JuiceAssumption` |
| `JuiceFsImplementsStream`, `ReadyMeansComplete` | JuiceFS ingest implements `ChangeStream`; `ReadyIsComplete` | also `HasCursor` |
| `PurgeInvariant`, `NothingLost`, `HiddenReported` | `PurgeInv`, `NothingElseLost`, `HiddenIsReported` of purges | `CatalogAssumption`, `ActionsAssumption` |
| `CatalogConverges` | `ConvergedWhenQuiet`, types included | the same |
| `LimiterKeepsRate`, `RunKeepsRate` | `RateHolds` for any caller, and in a policy run | `RateAssumption`, `PolicyAssumption` |
| `BarrierHolds`, `RunKeepsCaps`, `RunCountsAddUp` | `CompletionBarrier`, `CapsHold`, `CountsAddUp` | `PolicyAssumption` |
| `ScanTypes`, `ScannedRowsReceived`, `ScansAreComplete` | `TypeOK`, `ScannedIsReceived`, `ScanComplete` of a scan | `CatalogAssumption`, `ScanAssumption` |
| `CacheFollowsStore`, `TagsFollow` | `CacheIsStored`, types included, and `TagsFollowRules` | `ClassifierAssumption` |
| `SchedulesInvariant`, `RestartHeals`, `SchedulesFollowPolicies` | `SchedInv`, `HealedByRestart`, `ScheduledAsStored` | `ScheduleAssumption`, `TriggerAssumption` |

`StatReliable`: a stat fails only for a file that is gone. `HasCursor`: the agent has a cursor
when it is first watched. Both are needed; see the observations.

The arguments:

- Purge of the changelog. A listener about to purge holds a checkpoint that is not above the
  cursor (`PurgeInv` of `PipelineProofs`), and the cursor never moves back because of
  `GREATEST`.
- Coverage. `FreshUpToCursor` is not inductive, because the cursor is raised to a checkpoint
  sent long before, perhaps to a listener whose loop is gone. `IInv` adds that every
  checkpoint on its way is covered (`CheckpointsCovered`); that everything the served listener
  has read is reflected or will be repaired by an event in flight (`ReadIsRepaired`), which is
  where the deduplicator must be right; that events in flight are applied in index order
  (`InOrder`); that a drain passes over nothing but skipped and purged records
  (`DrainComplete`); and that a stat result is newer than the row (`StatRecent`).
  `PipelineProofs` has first what the actions leave alone, then order and repair.
- Orphans. `NoOrphans` speaks of the tables between two statements, so it depends on what each
  writer still holds. `CatalogInv` of `CatalogProofs` adds that ingest and the poller hold rows
  of their own object at every step, and that the row of an object is there when a rename is
  about to write its edge: ingest has just written it, and the poller, the only other writer,
  removes no row.
- JuiceFS stream. `StreamInv` says where the stream stands: every record before the next one is
  applied except the pending one, and that one is applied when it is committed. So an ack,
  also one that moves the cursor file and then fails, never passes a record the catalog has
  not taken. Crashes and restarts move the stream back, never forward.
- JuiceFS baseline. A catalog that is behind, or ahead in some places because a scan saw the
  future of the stream, satisfies no simple equation. `ReadyInv` says that each edge is what
  the volume held at that place at *some* point of the log that is not before the records taken
  (`Sound`). A scan sees the present; a record that is applied moves its places to that record
  or leaves what came later; an UNLINK that finds another file leaves it alone for that reason.
  At the end of the log the only such point is the present, so the edges are the names.
  `Owned` adds the rows, with hard links as the exception.
- Purges of files. `NothingElseLost` needs to know what every quarantine name is for. `PurgeInv`
  of `ActionsProofs` says that a name is drawn once and holds what it was drawn for or nothing;
  that two workers never hold the same one; that a purge removes only what it has found to be
  its target; and that a purge which captured the hidden file of another one restores it there.
- Convergence. Where edges and rows differ from the namespace, ingest has a record of that
  object left (`CatalogInv` of `ActionsProofs`), or the object came back to a name it had
  left, or a purge could not look it up (`back`). A purge that finds its object gone, or has removed
  it, does not meet it again under the name whose edge it removes unless it came back, so workers
  half way do no harm.
- Rate. `RateHolds` says nothing of what the buckets hold. The `Ledger` says that what was
  granted, what a bucket holds and what it is due since its last refill never exceed what has
  flowed in; a bucket is never below zero, or below minus one entry for bytes.
- Barrier. `BarrierInv` adds that an entry in the queue is there once and has no worker, so
  spawning replaces no running action, and that a permit is held by every busy worker.
- Caps and counts. `CountInv` adds that each candidate is spawned, skipped or queued, that the
  volume spent is the sum of the sizes of what was spawned and of the entry at a gate, and that
  a worker about to try has an attempt left. The volume is a fold over a set.
- Schedules. `SchedInv` follows each request and the boot through the calls of one
  reconciliation while no other request is at its policy, and the boot through its list: a name
  prefix matches schedules of the same or of larger ids only, and those are still to be visited.

- Scan. `ScanComplete` speaks of the end of a scan only. `ScanInv` of `ScanProofs` says of every
  path that stays as it is, at every moment of a scan without errors, where it is (`Covered`):
  its row is stored; or it is in a batch; or an event for it is in a channel or in the hands of
  a lookup; or a directory on the way to it is queued or held by a walker that has not come
  past it. `Aimed` and `Truthful` add that what is walked under such a path, and what a row on
  its way says, is still so. The queue closes only when nothing is pending (`Queued`), so when
  the last event is out the first alternative is the only one left. `Tallied` counts the events
  in the same places; that gives `ScannedIsReceived`. The proof is by induction on steps
  for paths of any length.
- Classifiers. `Cached` says that the list a handler is about to put into the cache is what is
  stored, if edits did not overlap. `Passed` divides the rows under a run into those it has
  tagged, those in its page, and those at or after its offset. The last part is about ranks:
  a row that ingest inserts meanwhile moves other rows to higher ranks, never to lower ones, so no
  row slips past the offset; the rows beyond the limit are `missed` when the run ends. `Kept` says
  of the time after the run that ingest tags a row by the rules before anyone sees it settled, as
  of the time in `asOf`. Tagging a row does not change which rule matches it (`Alike`), because
  rules read no tags.

Two ways of reasoning about data recur. A recursive function or a fold is shown to satisfy its
equations from a function that does (`EntryIsObserved`, the sums of `PolicyProofs`, `Leading`).
What needs induction is proved from a least counterexample (`LeastElement`). Some modules
state what they use of finite sets as one definition (`Laws`, `LinksFit`), carry it as a
hypothesis, and prove it from the library before the theorems at their end; the lemmas before
are cheaper to check without the library in sight.

Only model-checked:

- All liveness properties: fairness and `ENABLED` are out of the prover's reach.
- `EveryLinkFound` and `RowsAreLive`: not true of every `world`; the scenarios of the run keep
  apart what the observations on hard links, CLOSE and moves across MDTs say of names.
- `ReportsMatch`: it compares counts over the rows with counts over the namespace, on top of
  `RowsAreLive`.
- `DedupKeepsRow`, `MemoryAgreesWithSql`: what recursive operators compute, on batches and on
  trees of any shape. That takes an induction over data.

A transient stat failure (`"stat"`) is in no run: only the theorems that do not assume
`StatReliable` cover it.

## Observations

What the models made visible beyond the two counterexamples. Most properties exclude these
histories by name; `PROJECT.json` lists them as hazards.

Lustre ingest:
- A created file gets its row, the daemon dies before the checkpoint is durable, the file is
  unlinked. On replay the pair cancels in the deduplicator and the row stays
  ("The zero-footprint pair is removed", `dedup.rs:9`). `RowsAreLive` excepts such rows and shows
  that there are no others.
- A file that is moved across MDTs is created, at the source, and unlinked there: the pair can
  cancel, and the RENME at the target, which is all that ingest then sees, writes no stripes
  (`store.rs:1256`), so the file is missing in the report by OST until the next scan.
- Any stat failure is taken for a deleted file; the record is committed without its effect.
- On a shutdown the ingest loop returns first; the listener then meets the closed channel and
  returns without its final acks. The records are replayed after the restart.
- A pending CLOSE masks the TRUNC whose handler alone refreshes the HSM state; the poller
  repairs it.
- A rename deletes all edges of an object and writes one, so a file with hard links loses its
  other names until their next record (`store.rs:1279`). The UNLNK of one of several names writes
  the edge of the name in the row again, which may be the one just removed (`changelog.rs:734`).
- A replayed CLOSE writes the name of its record with the parent of the row, so a file that has
  moved to another directory since gets its old name there (`changelog.rs:1396`).
- An initial scan interrupted by a crash is not repeated, because the catalog is no longer
  empty (`lib.rs:112`).
- A listener whose ingest loop has ended can still commit; `CursorMonotone` shows it harmless.

JuiceFS:
- Without a cursor, `Watch` starts at the tail. If the stream breaks before the first ack, the
  next `Watch` starts at a later tail and the records between are lost.
- A WRITE or SETATTR of a file deleted meanwhile cannot be resolved, so ingest ends and meets
  the same record for ever. `CatchesUpOrBlocked` admits this.
- A rescan and a replay of CREATE a, LINK b, UNLINK a removes the row of a file that still has
  the name b. A MOVE over an existing name leaves the row of the displaced file.
- The agent never reports a retention gap, so the code that would rescan is never reached.

Actions:
- Every failed lookup of the namespace adapter is a `StalePath` (`adapter.rs:182`, `:230`, `:238`,
  `:245`), which a purge takes for a file that is gone: it deletes the row and the edge of a live
  file although no record of it is left to be ingested. They come back when the
  file is renamed or scanned; other records of a file without a row are skipped.

Policies, scans and classifiers:
- Every parsed threshold has the low mark 0 and the wait 0, so neither the low watermark
  monitor nor the cooldown ever does anything.
- A rate limit of zero never refills, so `acquire` never returns. `RunEnds` is checked for
  limits above zero.
- Outside the backend path an action that timed out may still run when it is retried.
- The API scan counts an error of the walk twice, can report "Completed" with lost batches, and
  can write rows of files that ingest removed meanwhile. `ScanComplete` asks for no failures.
- A classifier clears the keys it manages only when some rule matches, so an entry that stops
  matching keeps its tags; `TagsFollowRules` speaks of entries that some rule matches.
- Two overlapping edits of classifiers can leave the older list in the cache, and a list that fails
  at the start leaves it empty (`lib.rs:86`).
- Rules with a relative time are evaluated when a row is ingested or run over. A row that ages
  into another rule keeps its tags until then.
- `patch_scoped_sm_status` writes back the whole row it has read: tags, sizes and times written
  meanwhile are undone, and a row removed meanwhile is there again (`store.rs:667`).
- A boot that cannot read the file system of a policy removes the schedules of the policy
  (`lib.rs:747`).
- In memory and in SQL the same leaf can have different values. A key with a dot, the form that
  `rbh-predicate/src/lib.rs:46` gives as its example, is a member of a member in the JSON path of
  SQL and is never found there (`sql.rs:100`, `:164`). A backslash escapes in LIKE only
  ("Callers must escape", `lib.rs:37`). A tag of another type than the value is converted in SQL
  and never matches in memory. A name that is not UTF-8 matches no regular expression in memory,
  and the two engines accept different syntax. `LOWER` leaves a binary name as it is, pools are
  compared without regard to case, overlong patterns match nothing in memory, a missing stripe
  count is 0 there, and a row in memory has no OSTs. NOT of a NULL selects nothing.

## Not modelled

- The blocking follow loop and the one-shot mode of the listener: the daemon starts neither.
- The low watermark monitor and the JuiceFS retention gap: unreachable, see above.
- Undelete, time series, aggregates other than those of `ReportsMatch`, migrations of the
  schema: sequential queries.
- Field decoding of changelog records, the FID codec, configuration loading, the command line
  client, config import, observability, authentication, the FFI binding: conversions and I/O
  without shared state.
- What external programs do: backup tools, alert delivery, migration commands.
- Reading the cursor and starting the listener are one step (`Spawn`); an older start only
  replays more.
- A record that does not parse is skipped, as in the code; its effect does not count as lost.
- The clock never goes back, and there is one classifier: several would be evaluated one after the
  other on the same rows.
- Regular expressions other than literal texts.
- Ingest loops of several MDTs side by side: `LustreCatalog` has the records of a rename between
  MDTs in both orders, applied by one loop with one cursor. That the MDT of the source alone
  replays its CREAT, which would give the row its old name back, is not in the model. Scans and Lustre ingest of the same file system do
  not run together in one model.
