----------------------------- MODULE PolicyRun -----------------------------
(***************************************************************************)
(* One run of an action policy (rbh-policy/src/task.rs): the checks before *)
(* the run, the candidate query, the dispatch loop with its volume cap,    *)
(* rate limiter and semaphore, the workers with their retries and          *)
(* timeouts, and the result that is recorded.                              *)
(*                                                                         *)
(* Purge, Alert and Backup run through dispatch_backend_action, the other  *)
(* kinds through dispatch_workers.  The two loops are the same up to the   *)
(* order of limiter and semaphore, the check of the token before the first *)
(* attempt, and what a timeout does: the backend path waits for the action *)
(* all the same, the other one drops its future, whose blocking call goes  *)
(* on in its thread.                                                       *)
(*                                                                         *)
(* The low watermark monitor is not modelled: parse_trigger gives every    *)
(* threshold the low mark 0, and maybe_spawn_low_watermark_monitor starts  *)
(* nothing then.  An action is its outcome; see Actions for what they do.  *)
(***************************************************************************)
EXTENDS RateLimiter, Sequences, FiniteSets, FiniteSetsExt, Functions

CONSTANTS
  Rows,     \* catalog rows by id: [size, nlink, age, tags, osts, pool, uid]
  Policies, \* the policies and requests a run may be started with
  Faults    \* subset of {"cancel", "store", "record"}

ASSUME PolicyAssumption ==
  /\ IsFiniteSet(DOMAIN Rows)
  /\ \A e \in DOMAIN Rows : Rows[e].size \in Sizes /\ Rows[e].nlink \in Nat
  /\ \A p \in Policies :
       /\ p.rate \in Limits
       /\ {p.nb_threads, p.max_count, p.max_attempts} \subseteq Nat
       /\ p.max_volume \in Nat \cup {None}

VARIABLES
  policy,    \* the policy and the request of this run
  pc,        \* where PolicyRunTask::run is
  queue,     \* candidates not dispatched yet
  cands,     \* the candidates of the query
  spent,     \* bytes dispatched
  skips,     \* entries skipped for their link count
  worker,    \* each entry's worker task
  attempt,   \* attempts the worker has begun
  running,   \* executions of the entry's action that have not ended
  unrecorded,\* entries whose timeout could not be recorded
  cancelled, \* the cancellation token
  outcome    \* what record_run is called with

runVars == <<policy, pc, queue, cands, spent, skips, worker, attempt, running,
             unrecorded, cancelled, outcome>>
vars == <<runVars, limiterVars>>

Ids == DOMAIN Rows

BackendKinds == {"Purge", "Alert", "Backup"}
Backend == policy.kind \in BackendKinds

Final  == {"success", "skipped", "failed"}
Active == {"start", "try", "exec", "late", "backoff"}

\* Types of the limiter, the dispatcher, the workers and the recorded result (task.rs).
TypeOK ==
  /\ LimiterTypeOK
  /\ policy \in Policies
  /\ pc \in {"begin", "query", "dispatch", "permit", "limit", "join", "end"}
  /\ queue \in Seq(Ids) /\ cands \in Seq(Ids)
  /\ spent \in Nat /\ skips \in Nat
  /\ worker \in [Ids -> Active \cup Final \cup {"none"}]
  /\ attempt \in [Ids -> Nat] /\ running \in [Ids -> Nat]
  /\ unrecorded \subseteq Ids
  /\ cancelled \in BOOLEAN
  /\ outcome \in {"none", "cancelled", "error", "misconfigured", "empty",
                  "success", "partial", "failed"}

Init ==
  /\ policy \in Policies
  /\ from_spec(policy.rate)
  /\ pc = "begin"
  /\ queue = <<>> /\ cands = <<>>
  /\ spent = 0 /\ skips = 0
  /\ worker = [e \in Ids |-> "none"]
  /\ attempt = [e \in Ids |-> 0]
  /\ running = [e \in Ids |-> 0]
  /\ unrecorded = {}
  /\ cancelled = FALSE
  /\ outcome = "none"

-----------------------------------------------------------------------------
(* Before the dispatch                                                     *)

End(o) == pc' = "end" /\ outcome' = o

(* A run that was cancelled before it began, one whose policy or           *)
(* filesystem is gone or no longer fit together, and one that goes on.     *)
(* The policy's enabled flag is not looked at.                             *)
Begin ==
  /\ pc = "begin"
  /\ \/ cancelled /\ End("cancelled")
     \/ ~cancelled /\ ~policy.valid /\ End("error")
     \/ ~cancelled /\ policy.valid /\ pc' = "query" /\ UNCHANGED outcome
  /\ UNCHANGED <<policy, queue, cands, spent, skips, worker, attempt, running,
                 unrecorded, cancelled, limiterVars>>

(* Tags(match_tags) AND TargetFilter::to_predicate, as the database        *)
(* evaluates them: a NULL pool matches no pool.  A group or a project is   *)
(* compared like a user.                                                   *)
to_predicate(t, r) ==
  CASE t.by = "fs"   -> TRUE
    [] t.by = "ost"  -> r.osts \cap t.osts # {}
    [] t.by = "pool" -> r.pool = t.pool
    [] t.by = "user" -> r.uid = t.uid

Selected(r) == policy.tags \subseteq r.tags /\ to_predicate(policy.target, r)

(* query_scoped_page with LIMIT max_count, ordered by the LRU column.      *)
Candidates ==
  LET M == {e \in Ids : Selected(Rows[e])}
      n == Least(policy.max_count, Cardinality(M))
  IN  {s \in [1..n -> M] :
         /\ IsInjective(s)
         /\ policy.lru =>
              /\ \A i, j \in 1..n : i < j => Rows[s[i]].age <= Rows[s[j]].age
              /\ \A e \in M \ Range(s), i \in 1..n : Rows[s[i]].age <= Rows[e].age}

(* Fault: a run with any success is reported as a success. *)
LabelAnySuccess(n, success, failed) ==
  IF n = 0 THEN "empty" ELSE IF success > 0 THEN "success" ELSE "failed"

(* finish_run *)
Label(n, success, failed) ==
  IF failed = 0 THEN (IF n = 0 THEN "empty" ELSE "success")
                ELSE (IF success > 0 THEN "partial" ELSE "failed")

(* Only a migration needs a configuration that validation does not demand. *)
make_executor == policy.kind = "Migration" => policy.executable

(* The candidates are there: a dry run of a backend kind ends at once, a   *)
(* migration without a command is misconfigured, any other run dispatches. *)
Query ==
  /\ pc = "query"
  /\ cands' \in Candidates
  /\ \/ /\ Backend /\ policy.dry_run
        /\ skips' = Len(cands')
        /\ End(Label(Len(cands'), 0, 0))
        /\ UNCHANGED queue
     \/ /\ ~Backend /\ ~policy.dry_run /\ ~make_executor
        /\ End("misconfigured")
        /\ UNCHANGED <<skips, queue>>
     \/ /\ IF Backend THEN ~policy.dry_run ELSE policy.dry_run \/ make_executor
        /\ pc' = "dispatch"
        /\ queue' = cands'
        /\ UNCHANGED <<skips, outcome>>
  /\ UNCHANGED <<policy, spent, worker, attempt, running, unrecorded,
                 cancelled, limiterVars>>

(* The query, or the backend's own lookup of the filesystem, fails. *)
QueryFails ==
  /\ pc = "query"
  /\ "store" \in Faults
  /\ End("error")
  /\ UNCHANGED <<policy, queue, cands, spent, skips, worker, attempt, running,
                 unrecorded, cancelled, limiterVars>>

-----------------------------------------------------------------------------
(* The dispatch loop                                                       *)

Head1 == Head(queue)
Hardlinked == policy.skip_hardlinked /\ Rows[Head1].nlink > 1

(* Fault: the volume is checked before the entry is counted. *)
OverVolumeLate == policy.max_volume # None /\ spent > policy.max_volume

OverVolume ==
  policy.max_volume # None /\ spent + Rows[Head1].size > policy.max_volume

Gates == IF Backend THEN <<"limit", "permit">> ELSE <<"permit", "limit">>

(* One round of the loop: stop, skip the entry, or take it. *)
Dispatch ==
  /\ pc = "dispatch"
  /\ \/ /\ queue # <<>> /\ ~cancelled => ~Hardlinked /\ OverVolume
        /\ pc' = "join"
        /\ UNCHANGED <<queue, spent, skips>>
     \/ /\ queue # <<>> /\ ~cancelled /\ Hardlinked
        /\ queue' = Tail(queue)
        /\ skips' = skips + 1
        /\ UNCHANGED <<pc, spent>>
     \/ /\ queue # <<>> /\ ~cancelled /\ ~Hardlinked /\ ~OverVolume
        /\ spent' = spent + Rows[Head1].size
        /\ pc' = Gates[1]
        /\ UNCHANGED <<queue, skips>>
  /\ UNCHANGED <<policy, cands, worker, attempt, running, unrecorded,
                 cancelled, outcome, limiterVars>>

(* The entry has passed a gate: it goes to the next one or is spawned. *)
Pass(gate) ==
  IF gate = Gates[1]
  THEN pc' = Gates[2] /\ UNCHANGED <<queue, worker>>
  ELSE /\ pc' = "dispatch"
       /\ queue' = Tail(queue)
       /\ worker' = [worker EXCEPT ![Head1] = IF Backend THEN "try" ELSE "start"]

Unlimited == ~HasTokens /\ ~HasBytes

(* The dispatcher is in RateLimiter::acquire, which it leaves when the     *)
(* limiter grants; without a limiter it passes.                            *)
Limit ==
  /\ pc = "limit"
  /\ IF Unlimited
     THEN Pass("limit") /\ UNCHANGED limiterVars
     ELSE IF want = None
     THEN Acquire(Rows[Head1].size) /\ UNCHANGED <<pc, queue, worker>>
     ELSE LimiterStep /\ IF want' = None THEN Pass("limit")
                                         ELSE UNCHANGED <<pc, queue, worker>>
  /\ UNCHANGED <<policy, cands, spent, skips, attempt, running, unrecorded,
                 cancelled, outcome>>

Concurrency == IF policy.nb_threads = 0 THEN 1 ELSE policy.nb_threads

(* acquire_owned of the semaphore *)
Permit ==
  /\ pc = "permit"
  /\ Cardinality({e \in Ids : worker[e] \in Active}) < Concurrency
  /\ Pass("permit")
  /\ UNCHANGED <<policy, cands, spent, skips, attempt, running, unrecorded,
                 cancelled, outcome, limiterVars>>

-----------------------------------------------------------------------------
(* A worker                                                                *)

workerFrame == <<policy, pc, queue, cands, spent, skips, cancelled, outcome,
                 limiterVars>>

Becomes(e, w) == worker' = [worker EXCEPT ![e] = w]

(* The first check of the token, on the executor path only. *)
Start(e) ==
  /\ worker[e] = "start"
  /\ Becomes(e, IF cancelled THEN "skipped" ELSE "try")
  /\ UNCHANGED <<attempt, running, unrecorded, workerFrame>>

(* An attempt begins unless the run was cancelled: then the backend path   *)
(* reports a skip, the executor path the last failure (or "no attempts").  *)
Try(e) ==
  /\ worker[e] = "try"
  /\ IF cancelled
     THEN /\ Becomes(e, IF Backend THEN "skipped" ELSE "failed")
          /\ UNCHANGED <<attempt, running>>
     ELSE /\ Becomes(e, "exec")
          /\ attempt' = [attempt EXCEPT ![e] = @ + 1]
          /\ running' = [running EXCEPT ![e] = @ + 1]
  /\ UNCHANGED <<unrecorded, workerFrame>>

Attempts == IF policy.max_attempts = 0 THEN 1 ELSE policy.max_attempts

(* What an attempt's result makes of the worker.  The backend reports      *)
(* failures it knows to be final; AlreadyMissing counts as a skip.         *)
After(e, result) ==
  CASE result = "success" -> "success"
    [] result = "skipped" -> "skipped"
    [] result = "fatal" -> "failed"
    [] result = "retry" -> IF attempt[e] < Attempts THEN "backoff" ELSE "failed"

Results == IF Backend THEN {"success", "skipped", "fatal", "retry"}
           ELSE IF policy.dry_run THEN {"skipped"}
           ELSE {"success", "skipped", "retry"}

(* The awaited execution ends. *)
Finish(e, result) ==
  /\ worker[e] \in {"exec", "late"}
  /\ result \in Results
  /\ running' = [running EXCEPT ![e] = @ - 1]
  /\ Becomes(e, After(e, result))
  /\ UNCHANGED <<attempt, unrecorded, workerFrame>>

(* Fault: the backend action is given up like any other future. *)
TimedOutDropped(e) ==
  /\ policy.timeout /\ worker[e] = "exec"
  /\ Becomes(e, After(e, "retry"))
  /\ UNCHANGED <<attempt, running, unrecorded, workerFrame>>

(* The timeout fires first.  Backend: the failure is recorded and the      *)
(* execution is still awaited; if it cannot be recorded the error returns  *)
(* at once and the spawned execution goes on unobserved.  Executors: the   *)
(* future is dropped, and a blocking call it was waiting for goes on.      *)
TimedOut(e) ==
  /\ policy.timeout
  /\ worker[e] = "exec"
  /\ \/ /\ Backend
        /\ Becomes(e, "late")
        /\ UNCHANGED <<running, unrecorded>>
     \/ /\ Backend /\ "record" \in Faults
        /\ Becomes(e, After(e, "retry"))
        /\ unrecorded' = unrecorded \cup {e}
        /\ UNCHANGED running
     \/ /\ ~Backend
        /\ Becomes(e, After(e, "retry"))
        /\ running' \in {running, [running EXCEPT ![e] = @ - 1]}
        /\ UNCHANGED unrecorded
  /\ UNCHANGED <<attempt, workerFrame>>

(* The sleep between two attempts is over. *)
Backoff(e) ==
  /\ worker[e] = "backoff"
  /\ Becomes(e, "try")
  /\ UNCHANGED <<attempt, running, unrecorded, workerFrame>>

Awaited(e) == IF worker[e] \in {"exec", "late"} THEN 1 ELSE 0

(* An execution nobody waits for any more ends. *)
StrayEnds(e) ==
  /\ running[e] > Awaited(e)
  /\ running' = [running EXCEPT ![e] = @ - 1]
  /\ UNCHANGED <<worker, attempt, unrecorded, workerFrame>>

Worker(e) ==
  \/ Start(e)
  \/ Try(e)
  \/ \E r \in Results : Finish(e, r)
  \/ TimedOut(e)
  \/ Backoff(e)

-----------------------------------------------------------------------------
With(w) == Cardinality({e \in Ids : worker[e] = w})

(* join_next until every worker has returned, then finish_run. *)
Join ==
  /\ pc = "join"
  /\ \A e \in Ids : worker[e] \notin Active
  /\ End(Label(Len(cands), With("success"), With("failed")))
  /\ UNCHANGED <<policy, queue, cands, spent, skips, worker, attempt, running,
                 unrecorded, cancelled, limiterVars>>

Cancel ==
  /\ "cancel" \in Faults
  /\ ~cancelled
  /\ cancelled' = TRUE
  /\ UNCHANGED <<policy, pc, queue, cands, spent, skips, worker, attempt,
                 running, unrecorded, outcome, limiterVars>>

Time == pc = "limit" /\ Tick /\ UNCHANGED runVars

(* The run is over and nothing is left of it. *)
Done == pc = "end" /\ (\A e \in Ids : running[e] = 0) /\ UNCHANGED vars

Next ==
  \/ Begin \/ Query \/ QueryFails \/ Dispatch \/ Limit \/ Permit \/ Join
  \/ \E e \in Ids : Worker(e) \/ StrayEnds(e)
  \/ Cancel
  \/ Time
  \/ Done

Spec == Init /\ [][Next]_vars

(* Tasks are scheduled, actions end, and time passes.                      *)
Fairness ==
  /\ WF_vars(Begin \/ Query \/ Dispatch \/ Limit \/ Permit \/ Join)
  /\ WF_vars(Time)
  /\ \A e \in Ids : WF_vars(Worker(e))

LiveSpec == Spec /\ Fairness

-----------------------------------------------------------------------------
SumOf(S) == MapThenSumSet(LAMBDA e : Rows[e].size, S)

(* On the backend path a timeout never lets two executions of one entry's  *)
(* action overlap, never lets more actions run at once than nb_threads,    *)
(* and leaves none behind when the run is over, unless the timeout could   *)
(* not even be recorded (execute_backend_action_with_completion_barrier).  *)
CompletionBarrier ==
  Backend =>
    /\ \A e \in Ids \ unrecorded : running[e] = Awaited(e)
    /\ pc = "end" => \A e \in Ids \ unrecorded : running[e] = 0
    /\ Cardinality({e \in Ids \ unrecorded : running[e] > 0}) <= Concurrency

(* The bytes of the entries whose action was started never exceed          *)
(* max_volume, and no entry with other names is touched under              *)
(* skip_hardlinked, whatever was retried (dispatch loops of task.rs).      *)
CapsHold ==
  LET started == {e \in Ids : attempt[e] > 0}
  IN  /\ policy.max_volume # None => SumOf(started) <= policy.max_volume
      /\ policy.skip_hardlinked => \A e \in started : Rows[e].nlink <= 1
      /\ Cardinality(started) <= policy.max_count
      /\ \A e \in Ids : attempt[e] <= Attempts

(* The result of a run counts every candidate exactly once unless the run  *)
(* was cancelled or stopped by its volume cap, and "success" or "empty"    *)
(* is never reported when an action failed (finish_run).                   *)
(* The types hold in every state.                                          *)
CountsAddUp ==
  TypeOK /\ (outcome \in {"empty", "success", "partial", "failed"} =>
    /\ With("success") + With("skipped") + With("failed") + skips + Len(queue)
         = Len(cands)
    /\ queue # <<>> => cancelled \/ policy.max_volume # None
    /\ outcome \in {"empty", "success"} <=> With("failed") = 0
    /\ outcome = "empty" <=> cands = <<>>)

(* Every run ends, also when entries are larger than the byte bucket of    *)
(* the limiter ("without starving an oversized entry forever",             *)
(* ratelimit.rs) and more entries are candidates than there are workers.   *)
RunEnds == <>(pc = "end")
=============================================================================
