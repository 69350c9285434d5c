----------------------------- MODULE Schedules -----------------------------
(***************************************************************************)
(* Policies and their schedules: the REST handlers that change policies or *)
(* start a run (rbh-api/src/handlers.rs), the policy table, the            *)
(* reconciliation of triggers with scheduler-rs (rbh-policy/src/           *)
(* reconcile.rs), the daemon's start with reconcile_all_policies, the      *)
(* threshold checker and the pruner of one-shot schedules.                 *)
(*                                                                         *)
(* The scheduler is external: a persistent table of named schedules that   *)
(* can be listed by name prefix, added to and removed from.  The name of a *)
(* schedule begins with "rbh.policy.<id>", so what matches the prefix of a *)
(* policy depends on how ids are written: Radix is 10 in the code.         *)
(*                                                                         *)
(* Requests are handled concurrently.  Each scheduler call is a step of    *)
(* its own, and so is the write of the policy table before or after it.    *)
(***************************************************************************)
EXTENDS Triggers, FiniteSets

CONSTANTS
  MaxId,      \* policy ids are 1..MaxId
  Radix,      \* the base ids are written in
  MaxReq,     \* bound on the requests made in one behaviour
  Budget,     \* crashes and failures of the scheduler or of the policy table
  Filesystems,\* the configurations the filesystem may have at a start
  Worlds      \* what surrounds the daemon: the definitions an earlier run left
              \* (by id), those that requests carry, the number of requests,
              \* the targets of manual runs, and what the checker measures

ASSUME ScheduleAssumption ==
  /\ MaxId \in Nat /\ Radix \in Nat \ {0, 1} /\ MaxReq \in Nat /\ Budget \in Nat
  /\ \A w \in Worlds : Len(w.stored) \in 0..MaxId /\ DOMAIN w.stored = 1..Len(w.stored)

VARIABLES
  fs,       \* the registered filesystem
  world,    \* one of Worlds
  policies, \* the policy table, by id
  next_id,  \* AUTO_INCREMENT
  scheds,   \* the scheduler's table
  phase,    \* "boot", "running" or "down"
  todo,     \* policies reconcile_all_policies still has to visit, as listed
  job,      \* what each request and the boot are doing
  made,     \* requests made
  budget,   \* failures still to come
  cycle,    \* policies the threshold cycle still has to visit, as listed
  due,      \* next_check, in ticks from now
  fresh,    \* history: nothing was asked and nothing failed since the boot
  hit       \* history: policies whose schedules were disturbed

vars == <<fs, world, policies, next_id, scheds, phase, todo, job, made, budget,
          cycle, due, fresh, hit>>

Ids    == 1..MaxId
Reqs   == 1..MaxReq
Boot   == 0
Agents == {Boot} \cup Reqs
None   == [name |-> ""]
Idle   == [pc |-> "idle"]

Row(i) == [id |-> i, def |-> policies[i]]

(* PolicyStore::list: the rows, visited in the order of their ids. *)
Listed == {Row(i) : i \in {j \in Ids : policies[j] # None}}

(* Fault: the policies are visited from the last one to the first. *)
Hindmost(S) == CHOOSE r \in S : \A q \in S : q.id <= r.id

Foremost(S) == CHOOSE r \in S : \A q \in S : r.id <= q.id

Enabled(def) == def # None /\ def.enabled

Fits(def) == validate_policy_for_filesystem(def, fs)

Accepted(def) == Fits(def) /\ validate_policy(def)

(* A schedule added by agent a.  Two pending one-shots that the checker    *)
(* added for the same policy and target count as one.  A schedule keeps    *)
(* its name when it is Completed.                                          *)
Sched(a, i, sort, spec, target) ==
  [by |-> a, owner |-> i, sort |-> sort, spec |-> spec, target |-> target,
   done |-> FALSE]
Name(s)      == Sched(s.by, s.owner, s.sort, s.spec, s.target)
Completed(s) == [Name(s) EXCEPT !.done = TRUE]

(* What an id begins with: its last digits are dropped one by one. *)
Leading[x \in 0..MaxId] == IF x = 0 THEN {} ELSE {x} \cup Leading[x \div Radix]

(* list_schedules_by_name_prefix("rbh.policy.<i>"): the ids that begin     *)
(* with the digits of i.                                                   *)
list_schedules_by_name_prefix(i) ==
  {Name(s) : s \in {x \in scheds : i \in Leading[x.owner]}}

Mains(i) == {s \in scheds : s.owner = i /\ s.sort = "main"}

(* The triggers of the schedules a policy should have.                     *)
Wanted(i) ==
  IF /\ Enabled(policies[i]) /\ Fits(policies[i])
     /\ TimeBased(parse_trigger(policies[i].trigger))
  THEN {parse_trigger(policies[i].trigger)} ELSE {}

Agrees(i) ==
  {s.spec : s \in Mains(i)} = Wanted(i) /\ Cardinality(Mains(i)) <= 1

(* The tables as an earlier run of the daemon left them: policies created  *)
(* one after the other and reconciled.                                     *)
Init ==
  /\ fs \in Filesystems /\ world \in Worlds
  /\ LET p == world.stored IN
       /\ next_id = Len(p) + 1
       /\ policies = [i \in Ids |-> IF i \in DOMAIN p THEN p[i] ELSE None]
  /\ scheds = {Sched(Boot, i, "main", parse_trigger(policies[i].trigger), Fs) :
                 i \in {j \in Ids : Wanted(j) # {}}}
  /\ phase = "down" /\ todo = {}
  /\ job = [a \in Agents |-> Idle]
  /\ made = 0 /\ budget = Budget
  /\ cycle = {} /\ due = [i \in Ids |-> 0]
  /\ fresh = TRUE /\ hit = {}

-----------------------------------------------------------------------------
(* Reconciliation                                                          *)

InFlight(i) == {a \in Agents : job[a] # Idle /\ job[a].id = i}

Becomes(a, pc) == job' = [job EXCEPT ![a].pc = pc]
Finished(a)    == job' = [job EXCEPT ![a] = Idle]

(* remove_policy_schedule, first call *)
ListSchedules(a) ==
  /\ job[a].pc = "list"
  /\ job' = [job EXCEPT ![a] = [@ EXCEPT !.pc = "remove",
                                         !.found = list_schedules_by_name_prefix(job[a].id)]]
  /\ UNCHANGED <<fs, world, policies, next_id, scheds, phase, todo, made, budget,
                 cycle, due, fresh, hit>>

Without(R) == {s \in scheds : Name(s) \notin R}

(* The other policies that lose a schedule when R is removed for policy i, *)
(* and the requests on policies I, which from now on have met another one. *)
Robbed(i, R)  == {s.owner : s \in {r \in R : r.sort = "main" /\ r.owner # i}}
Disturbed(I) ==
  [a \in Agents |-> IF job[a] # Idle /\ job[a].id \in I
                      THEN [job[a] EXCEPT !.alone = FALSE] ELSE job[a]]

(* Fault: a disabled policy is scheduled like any other. *)
AfterRemoveDisabledToo(j) ==
  IF j.op = "delete" THEN "row"
  ELSE IF TimeBased(parse_trigger(j.def.trigger)) THEN "add" ELSE "end"

(* remove_policy_schedule, the removals; then what its caller does next: a *)
(* delete goes on to the policy table, reconcile_triggers stops for a      *)
(* disabled policy and for a threshold, and adds a schedule otherwise.     *)
AfterRemove(j) ==
  CASE j.op = "delete" -> "row"
    [] j.op = "reconcile" /\ j.def.enabled /\ TimeBased(parse_trigger(j.def.trigger)) -> "add"
    [] OTHER -> "end"

RemoveSchedules(a) ==
  /\ job[a].pc = "remove"
  /\ LET I == Robbed(job[a].id, job[a].found)
     IN  /\ hit' = hit \cup I
         /\ job' = [Disturbed(I) EXCEPT ![a].pc = AfterRemove(job[a])]
  /\ scheds' = Without(job[a].found)
  /\ UNCHANGED <<fs, world, policies, next_id, phase, todo, made, budget, cycle,
                 due, fresh>>

AddSchedule(a) ==
  /\ job[a].pc = "add"
  /\ scheds' = scheds \cup
       {Sched(a, job[a].id, "main", parse_trigger(job[a].def.trigger), Fs)}
  /\ Becomes(a, "end")
  /\ UNCHANGED <<fs, world, policies, next_id, phase, todo, made, budget, cycle,
                 due, fresh, hit>>

(* A scheduler call fails: some of the removals may have happened.  The    *)
(* handlers log the error and answer as if all was well; a delete ignores  *)
(* it and goes on.                                                         *)
SchedulerFails(a) ==
  /\ job[a].pc \in {"list", "remove", "add"}
  /\ budget > 0 /\ budget' = budget - 1
  /\ \E R \in SUBSET job[a].found :
       /\ scheds' = Without(R)
       /\ LET I == {job[a].id} \cup Robbed(job[a].id, R)
          IN  /\ hit' = hit \cup I
              /\ job' = [Disturbed(I) EXCEPT
                           ![a] = IF @.op = "delete"
                                    THEN [@ EXCEPT !.pc = "row", !.alone = FALSE]
                                    ELSE Idle]
  /\ fresh' = FALSE
  /\ UNCHANGED <<fs, world, policies, next_id, phase, todo, made, cycle, due>>

(* The request answers.  A reconciliation that met no other request on its *)
(* policy has set its schedules right.                                     *)
Answer(a) ==
  /\ job[a].pc = "end"
  /\ Finished(a)
  /\ hit' = IF job[a].alone THEN hit \ {job[a].id} ELSE hit \cup {job[a].id}
  /\ UNCHANGED <<fs, world, policies, next_id, scheds, phase, todo, made, budget,
                 cycle, due, fresh>>

-----------------------------------------------------------------------------
(* The handlers                                                            *)

(* Agent a turns to policy i. *)
Turn(i, op, def, alone) ==
  [id |-> i, op |-> op, pc |-> "list", def |-> def, found |-> {}, alone |-> alone]
Begins(a, i, op, def) ==
  job' = [Disturbed({i}) EXCEPT ![a] = Turn(i, op, def, InFlight(i) = {})]

Request(n) ==
  /\ phase = "running"
  /\ made < world.reqs /\ n = made + 1 /\ made' = n
  /\ fresh' = FALSE

(* PolicyStore::create and PolicyStore::update; the latter answers 404 for *)
(* a row that is not there.                                                *)
StoreCreate(def) ==
  /\ next_id \in Ids
  /\ policies' = [policies EXCEPT ![next_id] = def]
  /\ next_id' = next_id + 1
StoreUpdate(i, def) ==
  /\ policies[i] # None
  /\ policies' = [policies EXCEPT ![i] = def]

create_policy(n, def) ==
  /\ Request(n)
  /\ Accepted(def)
  /\ StoreCreate(def)
  /\ Begins(n, next_id, "reconcile", def)
  /\ UNCHANGED <<fs, world, scheds, phase, todo, budget, cycle, due, hit>>

update_policy(n, i, def) ==
  /\ Request(n)
  /\ Accepted(def)
  /\ StoreUpdate(i, def)
  /\ Begins(n, i, "reconcile", def)
  /\ UNCHANGED <<fs, world, next_id, scheds, phase, todo, budget, cycle, due, hit>>

delete_policy(n, i) ==
  /\ Request(n)
  /\ Begins(n, i, "delete", None)
  /\ UNCHANGED <<fs, world, policies, next_id, scheds, phase, todo, budget, cycle,
                 due, hit>>

(* PolicyStore::delete; a row that is not there is answered with 404. *)
DeleteRow(a) ==
  /\ job[a].pc = "row"
  /\ policies' = [policies EXCEPT ![job[a].id] = None]
  /\ Becomes(a, "end")
  /\ UNCHANGED <<fs, world, next_id, scheds, phase, todo, made, budget, cycle, due,
                 fresh, hit>>

(* PolicyStore::delete errs: the row stays, without the schedules that the *)
(* request has removed.                                                    *)
DeleteFails(a) ==
  /\ job[a].pc = "row"
  /\ budget > 0 /\ budget' = budget - 1
  /\ Finished(a)
  /\ hit' = hit \cup {job[a].id} /\ fresh' = FALSE
  /\ UNCHANGED <<fs, world, policies, next_id, scheds, phase, todo, made, cycle, due>>

(* The enabled flag is not looked at. *)
run_policy_now(n, i, target) ==
  /\ Request(n)
  /\ policies[i] # None /\ Fits(policies[i])
  /\ validate_target_for_filesystem(target, fs)
  /\ scheds' = scheds \cup {Sched(n, i, "manual", [tag |-> "immediate"], target)}
  /\ UNCHANGED <<fs, world, policies, next_id, phase, todo, job, budget, cycle, due,
                 hit>>

(* A request that is answered with an error and changes nothing. *)
Refused(n) ==
  /\ Request(n)
  /\ \/ \E def \in world.defs : ~Accepted(def)
     \/ \E i \in Ids : policies[i] # None => ~Fits(policies[i])
  /\ UNCHANGED <<fs, world, policies, next_id, scheds, phase, todo, job, budget,
                 cycle, due, hit>>

-----------------------------------------------------------------------------
(* Start and stop of the daemon                                            *)

Start ==
  /\ phase = "down"
  /\ phase' = "boot"
  /\ fs' \in Filesystems
  /\ \/ todo' = Listed /\ fresh' = TRUE /\ UNCHANGED <<budget, hit>>
     \/ /\ budget > 0 /\ budget' = budget - 1
        /\ todo' = {} /\ fresh' = FALSE /\ hit' = Ids
  /\ UNCHANGED <<world, policies, next_id, scheds, job, made, cycle, due>>

(* reconcile_all_policies: a disabled policy is passed over, and one that  *)
(* no longer fits its filesystem loses its schedules.                      *)
BootNext ==
  /\ phase = "boot" /\ job[Boot] = Idle /\ todo # {}
  /\ LET r  == Foremost(todo)
         op == IF Fits(r.def) THEN "reconcile" ELSE "reject"
     IN  /\ IF Enabled(r.def) THEN Begins(Boot, r.id, op, r.def) ELSE UNCHANGED job
         /\ todo' = todo \ {r}
  /\ UNCHANGED <<fs, world, policies, next_id, scheds, phase, made, budget, cycle,
                 due, fresh, hit>>

(* The filesystem of the next policy cannot be read: the policy is taken   *)
(* for one that does not fit and loses its schedules.                      *)
BootErrs ==
  /\ phase = "boot" /\ job[Boot] = Idle /\ todo # {}
  /\ budget > 0 /\ budget' = budget - 1
  /\ LET r == Foremost(todo)
     IN  /\ Enabled(r.def)
         /\ job' = [job EXCEPT ![Boot] = Turn(r.id, "reject", r.def, FALSE)]
         /\ todo' = todo \ {r}
         /\ hit' = hit \cup {r.id}
  /\ fresh' = FALSE
  /\ UNCHANGED <<fs, world, policies, next_id, scheds, phase, made, cycle, due>>

OneShots == {"manual", "threshold"}
Prunable == {s \in scheds : s.sort \in OneShots /\ s.done}

BootEnds ==
  /\ phase = "boot" /\ job[Boot] = Idle /\ todo = {}
  /\ scheds' = scheds \ Prunable
  /\ phase' = "running"
  /\ UNCHANGED <<fs, world, policies, next_id, todo, job, made, budget, cycle, due,
                 fresh, hit>>

(* The daemon dies.  Only the two tables survive. *)
Crash ==
  /\ phase # "down"
  /\ budget > 0 /\ budget' = budget - 1
  /\ phase' = "down" /\ todo' = {}
  /\ hit' = hit \cup {job[a].id : a \in {b \in Agents : job[b] # Idle}}
                \cup {r.id : r \in todo}
  /\ job' = [a \in Agents |-> Idle]
  /\ cycle' = {} /\ due' = [i \in Ids |-> 0]
  /\ UNCHANGED <<fs, world, policies, next_id, scheds, made, fresh>>

-----------------------------------------------------------------------------
(* The scheduler and the pruner                                            *)

(* A one-shot schedule runs its policy and is marked Completed. *)
RunOneShot(i, sort) ==
  /\ phase = "running"
  /\ \E s \in scheds :
       /\ s.owner = i /\ s.sort = sort /\ ~s.done
       /\ scheds' = (scheds \ {s}) \cup {Completed(s)}
  /\ UNCHANGED <<fs, world, policies, next_id, phase, todo, job, made, budget,
                 cycle, due, fresh, hit>>

(* Fault: only the schedules of manual runs are pruned. *)
PruneManual ==
  /\ phase = "running"
  /\ Prunable # {}
  /\ scheds' = scheds \ {s \in Prunable : s.sort = "manual"}
  /\ UNCHANGED <<fs, world, policies, next_id, phase, todo, job, made, budget,
                 cycle, due, fresh, hit>>

prune_threshold_schedules ==
  /\ phase = "running"
  /\ Prunable # {}
  /\ scheds' = scheds \ Prunable
  /\ UNCHANGED <<fs, world, policies, next_id, phase, todo, job, made, budget,
                 cycle, due, fresh, hit>>

-----------------------------------------------------------------------------
(* The threshold checker                                                   *)

(* A tick passes and one_cycle lists the policies.  Those it passes over   *)
(* without a measure can be told from the list: the filesystem does not    *)
(* change and next_check is the checker's own.                             *)
CycleBegins ==
  /\ phase = "running" /\ cycle = {}
  /\ due' = [i \in Ids |-> IF due[i] > 0 THEN due[i] - 1 ELSE 0]
  /\ cycle' = {r \in Listed : /\ r.def.enabled /\ Fits(r.def)
                              /\ decode_threshold(parse_trigger(r.def.trigger)) # Pass
                              /\ due'[r.id] = 0}
  /\ UNCHANGED <<fs, world, policies, next_id, scheds, phase, todo, job, made,
                 budget, fresh, hit>>

(* Fault: a trigger whose measure fails is due again at once. *)
NextCheckOnSuccess(i, params, m) ==
  [due EXCEPT ![i] = IF m.is = "abort" THEN 0 ELSE params.check_interval]

(* next_check is set before the measure is taken. *)
NextCheck(i, params, m) == [due EXCEPT ![i] = params.check_interval]

(* The measure and what follows: an error of the catalog ends the cycle, a *)
(* fired threshold adds a one-shot schedule.  post_trigger_wait_secs is 0  *)
(* in every parsed trigger, so no threshold is ever in its cooldown.       *)
Evaluate ==
  /\ cycle # {}
  /\ LET r == Foremost(cycle)
         params == decode_threshold(parse_trigger(r.def.trigger))
         m == Measure(params, world.usage)
     IN  /\ due' = NextCheck(r.id, params, m)
         /\ cycle' = IF m.is = "abort" THEN {} ELSE cycle \ {r}
         /\ \/ /\ m.is = "fire"
               /\ scheds' = scheds \cup
                    {Sched(Boot, r.id, "threshold", [tag |-> "immediate"], m.target)}
               /\ UNCHANGED budget
            \/ /\ m.is = "fire" /\ budget > 0 /\ budget' = budget - 1
               /\ UNCHANGED scheds
            \/ m.is # "fire" /\ UNCHANGED <<scheds, budget>>
  /\ UNCHANGED <<fs, world, policies, next_id, phase, todo, job, made, fresh, hit>>

-----------------------------------------------------------------------------

Reconcile(a) ==
  /\ job[a] # Idle
  /\ ListSchedules(a) \/ RemoveSchedules(a) \/ AddSchedule(a) \/ DeleteRow(a) \/ Answer(a)

Handler ==
  \E n \in Reqs :
    \/ \E def \in world.defs : create_policy(n, def)
    \/ \E def \in world.defs, i \in Ids : update_policy(n, i, def)
    \/ \E i \in Ids : delete_policy(n, i)
    \/ \E i \in Ids, t \in world.targets : run_policy_now(n, i, t)
    \/ Refused(n)

Fails(a) == SchedulerFails(a) \/ DeleteFails(a)

Daemon == Start \/ BootNext \/ BootEnds

Checker == CycleBegins \/ Evaluate

Next ==
  \/ Handler
  \/ \E a \in Agents : Reconcile(a) \/ (job[a] # Idle /\ Fails(a))
  \/ Daemon \/ BootErrs \/ Crash
  \/ \E i \in Ids, sort \in OneShots : RunOneShot(i, sort)
  \/ prune_threshold_schedules
  \/ Checker

Spec == Init /\ [][Next]_vars

(* Handlers, the scheduler, the pruner and the checker are tasks of the    *)
(* runtime and sooner or later take their next step, and the scheduler     *)
(* runs every schedule that is due; requests and failures need not come.   *)
Fairness ==
  /\ WF_vars(Daemon \/ \E a \in Agents : Reconcile(a))
  /\ \A i \in Ids, sort \in OneShots : WF_vars(RunOneShot(i, sort))
  /\ WF_vars(prune_threshold_schedules)
  /\ WF_vars(Checker)

LiveSpec == Spec /\ Fairness

-----------------------------------------------------------------------------
(* Properties                                                              *)

(* Every variable has its type; ids are never handed out twice.            *)
TypeOK ==
  /\ fs \in Filesystems /\ world \in Worlds
  /\ policies \in [Ids -> world.defs \cup Range(world.stored) \cup {None}]
  /\ next_id \in 1..(MaxId + 1)
  /\ \A i \in Ids : i >= next_id => policies[i] = None
  /\ \A s \in scheds : s.owner \in Ids /\ s.sort \in OneShots \cup {"main"}
  /\ phase \in {"boot", "running", "down"}
  /\ made \in 0..MaxReq /\ budget \in 0..Budget
  /\ due \in [Ids -> 0..CheckSecs]
  /\ hit \subseteq Ids /\ fresh \in BOOLEAN

(* A start of the daemon sets the schedules of all enabled policies right, *)
(* whatever a crash, a failed call or two overlapping requests have left,  *)
(* and although reconciling policy 1 removes the schedules of policy 10:   *)
(* the policies are visited in the order of their ids.                     *)
HealedByRestart ==
  phase = "running" /\ fresh =>
    \A i \in Ids : Enabled(policies[i]) => Agrees(i)

(* While the daemon runs, the schedules of a policy are what its stored    *)
(* definition asks for.  Excepted is what `hit' collects: a call for the   *)
(* policy failed, the daemon died on it, requests on it overlapped, or a   *)
(* policy whose id is a prefix of its id was reconciled.                   *)
(* The types hold in every state.                                          *)
ScheduledAsStored ==
  /\ TypeOK
  /\ phase = "running" => \A i \in Ids \ hit : InFlight(i) = {} => Agrees(i)

(* Reconciling or deleting a policy removes no schedule of another one.    *)
OnlyOwnSchedules ==
  [][\A a \in Agents : job[a] # Idle /\ job[a].pc = "remove" /\ job'[a] # job[a] =>
       \A s \in scheds : s.owner # job[a].id => s \in scheds']_vars

Hot(i) ==
  /\ phase = "running" /\ Enabled(policies[i]) /\ Fits(policies[i])
  /\ LET params == decode_threshold(parse_trigger(policies[i].trigger))
     IN  params # Pass /\ Measure(params, world.usage).is = "fire"

(* An enabled policy whose measure is above its mark is run, even if the   *)
(* check of another policy fails in every cycle.  This needs a tick of the *)
(* checker (RBH_THRESHOLD_TICK_SECS, 30 s unless set) that is shorter than *)
(* the 300 s for which a checked trigger is passed over, so CheckSecs > 1: *)
(* otherwise the failing check is due, and ends the cycle, every time.     *)
HotPolicyFires ==
  \A i \in Ids : Hot(i) ~> ~Hot(i) \/ \E s \in scheds : s.owner = i /\ s.sort = "threshold"

Pending(i, sort) == \E s \in scheds : s.owner = i /\ s.sort = sort /\ ~s.done

(* One-shot schedules do not pile up: each is run and pruned, or removed   *)
(* with its policy.                                                        *)
OneShotsPruned ==
  /\ \A i \in Ids, sort \in OneShots : Pending(i, sort) ~> ~Pending(i, sort)
  /\ Prunable # {} ~> Prunable = {}
=============================================================================
