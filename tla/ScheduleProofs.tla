--------------------------- MODULE ScheduleProofs ---------------------------
(***************************************************************************)
(* The schedules of the policies are what the policy table asks for:       *)
(* HealedByRestart and ScheduledAsStored of Schedules, for every set of    *)
(* policies, every base their ids are written in, any number of requests   *)
(* and failures.                                                           *)
(*                                                                         *)
(* Neither is inductive.  The invariant follows each agent through the     *)
(* calls of one reconciliation (Stage), as long as no other agent has met  *)
(* it on its policy (Alone), and the boot through the list of policies     *)
(* (Booted): what it removes by name prefix belongs to the policy it is at *)
(* or to one with a larger id, which it has still to visit.                *)
(***************************************************************************)
EXTENDS Schedules, TLAPS

Waits(i) == Row(i) \in todo
Live(a)  == job[a] # Idle

Ops  == {"reconcile", "reject", "delete"}
Pcs  == {"list", "remove", "add", "row", "end"}

(* What an agent does: nothing, or all of one policy's reconciliation. *)
JobOK(j) ==
  \/ j = Idle
  \/ /\ j = [id |-> j.id, op |-> j.op, pc |-> j.pc, def |-> j.def, found |-> j.found,
             alone |-> j.alone]
     /\ j.id \in Ids /\ j.op \in Ops /\ j.pc \in Pcs /\ j.alone \in BOOLEAN
     /\ j.pc = "row" => j.op = "delete"
     /\ \A s \in j.found : s.owner \in Ids /\ j.id <= s.owner

(* Where the agents, the list of the boot and the list of the checker are  *)
(* in each phase.                                                          *)
Shapes ==
  /\ job = [a \in Agents |-> job[a]] /\ \A a \in Agents : JobOK(job[a])
  /\ \A n \in Reqs : made < n => ~Live(n)
  /\ \A r \in todo : r = Row(r.id) /\ r.id \in Ids /\ r.def # None
  /\ \A r \in cycle : r.id \in Ids /\ decode_threshold(parse_trigger(r.def.trigger)) # Pass
  /\ phase = "down" => (\A a \in Agents : ~Live(a)) /\ todo = {} /\ cycle = {}
  /\ phase = "boot" => /\ \A n \in Reqs : ~Live(n)
                       /\ Live(Boot) => job[Boot].op # "delete"
                       /\ cycle = {}
  /\ phase = "running" => ~Live(Boot) /\ todo = {} /\ (fresh => \A a \in Agents : ~Live(a))

(* How far an undisturbed agent has come with its policy. *)
Stage(j) ==
  LET i == j.id IN
  /\ j.op # "delete" => policies[i] = j.def /\ j.def # None
  /\ j.op = "reconcile" => Fits(j.def)
  /\ j.op = "reject" => ~Fits(j.def)
  /\ j.pc = "remove" => \A s \in Mains(i) : Name(s) \in j.found
  /\ j.pc = "add" => /\ j.op = "reconcile" /\ j.def.enabled
                     /\ TimeBased(parse_trigger(j.def.trigger))
                     /\ Mains(i) = {}
  /\ j.pc = "row" => j.op = "delete" /\ Mains(i) = {}
  /\ j.pc = "end" => Agrees(i)

(* An agent that has met no other one on its policy is alone there. *)
Alone ==
  \A a \in Agents : Live(a) /\ job[a].alone => InFlight(job[a].id) = {a} /\ Stage(job[a])

(* A policy that nothing has disturbed and nobody is working on has its    *)
(* schedules; if it is enabled, once the boot has visited it.              *)
Right ==
  \A i \in Ids \ hit :
    InFlight(i) = {} /\ (Enabled(policies[i]) => phase # "down" /\ ~Waits(i)) => Agrees(i)

(* The boot: what it has visited has its schedules, and all that comes     *)
(* after the policy it is at is still to be visited.                       *)
Booted ==
  fresh /\ phase # "down" =>
    /\ \A i \in Ids : Enabled(policies[i]) /\ ~Waits(i) /\ InFlight(i) = {} => Agrees(i)
    /\ \A i, k \in Ids : Waits(i) /\ i < k /\ policies[k] # None => Waits(k)
    /\ phase = "boot" /\ Live(Boot) =>
         /\ job[Boot].alone
         /\ \A k \in Ids : job[Boot].id < k /\ policies[k] # None => Waits(k)

(* The inductive invariant. *)
SchedInv == TypeOK /\ Shapes /\ Alone /\ Right /\ Booted

-----------------------------------------------------------------------------
(* What the proofs use of finite sets and numbers.  LawsHold proves it     *)
(* from the library, whose theorems are stated only there.                 *)
Laws ==
  /\ \A T : T \subseteq Nat /\ T # {} => \E m \in T : \A n \in T : m <= n
  /\ Cardinality({}) = 0
  /\ \A x : Cardinality({x}) = 1

(* Every set of natural numbers that is not empty has a least element. *)
LEMMA LeastElement ==
  ASSUME Laws, NEW T, T \subseteq Nat, T # {}
  PROVE  \E m \in T : \A n \in T : m <= n
  BY Zenon DEF Laws

(* g drops the last digits of the ids up to n. *)
Drops(g, n) ==
  g = [x \in 0..n |-> IF x = 0 THEN {} ELSE {x} \cup g[x \div Radix]]

(* Dropping the last digit of an id makes it smaller. *)
LEMMA Smaller ==
  ASSUME NEW x \in Nat \ {0}
  PROVE  x \div Radix \in Nat /\ x \div Radix < x
  BY ScheduleAssumption

(* There is such a function. *)
LEMMA LeadingExists ==
  ASSUME Laws
  PROVE  \E g : Drops(g, MaxId)
  <1> DEFINE Good(n) == \E g : Drops(g, n)
             bad     == {n \in Nat : ~Good(n)}
  <1>1. Good(0)
    <2> DEFINE g == [x \in 0..0 |-> {}]
    <2>1. \A x \in 0..0 : x = 0
      OBVIOUS
    <2>2. g = [x \in 0..0 |-> IF x = 0 THEN {} ELSE {x} \cup g[x \div Radix]]
      BY <2>1, Zenon
    <2>3. Drops(g, 0)
      BY <2>2, Zenon DEF Drops
    <2>4. QED
      BY <2>3, Zenon
  <1>2. ASSUME NEW n \in Nat, Good(n) PROVE Good(n + 1)
    <2>1. PICK g : Drops(g, n)
      BY <1>2, Zenon
    <2> DEFINE drop(x) == IF x = 0 THEN {} ELSE {x} \cup g[x \div Radix]
               h == [x \in 0..(n + 1) |-> drop(x)]
    <2>2. \A x \in 0..n : x \in 0..(n + 1) /\ g[x] = drop(x)
      <3>1. g = [x \in 0..n |-> drop(x)]
        BY <2>1, Zenon DEF Drops
      <3> HIDE DEF drop
      <3>2. \A x \in 0..n : g[x] = drop(x)
        BY <3>1, Zenon
      <3>3. QED
        BY <3>2
    <2>3. \A x \in 0..(n + 1) : x # 0 => x \div Radix \in 0..n
      <3> SUFFICES ASSUME NEW x \in 0..(n + 1), x # 0 PROVE x \div Radix \in 0..n
        BY Zenon
      <3>1. x \div Radix \in Nat /\ x \div Radix < x
        BY Smaller
      <3>2. QED
        BY <3>1
    <2>4. \A x \in 0..(n + 1) : x # 0 => h[x \div Radix] = g[x \div Radix]
      BY <2>2, <2>3, Zenon
    <2>5. \A x \in 0..(n + 1) : drop(x) = IF x = 0 THEN {} ELSE {x} \cup h[x \div Radix]
      BY <2>4, Zenon
    <2>6. Drops(h, n + 1)
      BY <2>5, Zenon DEF Drops
    <2>7. QED
      BY <2>6, Zenon
  <1> HIDE DEF Good
  <1>3. bad = {}
    <2> SUFFICES ASSUME bad # {} PROVE FALSE
      BY Zenon
    <2>1. PICK m \in bad : \A n \in bad : m <= n
      BY LeastElement, Zenon
    <2>2. m # 0
      BY <1>1, <2>1, Zenon
    <2>3. m - 1 \in Nat /\ ~(m <= m - 1) /\ (m - 1) + 1 = m
      BY <2>2
    <2>4. m - 1 \notin bad
      BY <2>1, <2>3, Zenon
    <2>5. Good((m - 1) + 1)
      BY <1>2, <2>3, <2>4, Zenon
    <2>6. QED
      BY <2>3, <2>5, Zenon
  <1>4. QED
    BY <1>3, ScheduleAssumption, Zenon DEF Good

(* The id of a policy begins with itself and with nothing larger: listing  *)
(* the schedules of a policy by prefix finds its own, and otherwise only   *)
(* those of policies with larger ids (remove_policy_schedule).             *)
LEMMA LeadingFacts ==
  ASSUME Laws
  PROVE  \A x \in Ids : x \in Leading[x] /\ Leading[x] \subseteq 1..x
  <1>1. Drops(Leading, MaxId)
    <2> DEFINE D(g) == Drops(g, MaxId)
    <2>1. \E g : D(g)
      BY LeadingExists, Zenon
    <2>2. Leading = CHOOSE g : D(g)
      BY Zenon DEF Leading, Drops
    <2> HIDE DEF D
    <2>3. D(Leading)
      BY <2>1, <2>2, Zenon
    <2>4. QED
      BY <2>3, Zenon DEF D
  <1>2. \A x \in 0..MaxId : Leading[x] = IF x = 0 THEN {} ELSE {x} \cup Leading[x \div Radix]
    BY <1>1, Zenon DEF Drops
  <1> DEFINE bad == {x \in 0..MaxId : ~(Leading[x] \subseteq 1..x)}
  <1>3. bad = {}
    <2> SUFFICES ASSUME bad # {} PROVE FALSE
      BY Zenon
    <2>0. bad \subseteq Nat
      BY ScheduleAssumption
    <2>1. PICK m \in bad : \A n \in bad : m <= n
      BY <2>0, LeastElement, Zenon
    <2>2. m \in 0..MaxId /\ m \in Nat /\ ~(Leading[m] \subseteq 1..m)
      BY ScheduleAssumption
    <2>3. m # 0
      BY <1>2, <2>2, Zenon
    <2> DEFINE k == m \div Radix
    <2>4. k \in Nat /\ k < m
      BY <2>2, <2>3, Smaller, Zenon
    <2>5. Leading[m] = {m} \cup Leading[k]
      BY <1>2, <2>2, <2>3, Zenon
    <2> HIDE DEF k
    <2>6. Leading[k] \subseteq 1..k
      <3>1. k \in 0..MaxId /\ ~(m <= k)
        BY <2>2, <2>4, ScheduleAssumption
      <3>2. k \notin bad
        BY <2>1, <3>1, Zenon
      <3>3. QED
        BY <3>1, <3>2, Zenon
    <2>7. QED
      BY <2>2, <2>3, <2>4, <2>5, <2>6
  <1>4. ASSUME NEW x \in Ids PROVE x \in Leading[x] /\ Leading[x] \subseteq 1..x
    <2>1. x \in 0..MaxId /\ x # 0
      BY ScheduleAssumption DEF Ids
    <2>2. x \in Leading[x]
      BY <1>2, <2>1, Zenon
    <2>3. Leading[x] \subseteq 1..x
      BY <1>3, <2>1, Zenon
    <2>4. QED
      BY <2>2, <2>3, Zenon
  <1>5. QED
    BY <1>4, Zenon

(* The foremost of some rows is one of them, and none comes before it. *)
LEMMA ForemostFacts ==
  ASSUME Laws, NEW S, S # {}, \A r \in S : r.id \in Nat
  PROVE  Foremost(S) \in S /\ \A q \in S : Foremost(S).id <= q.id
  <1> DEFINE ids == {r.id : r \in S}
  <1>1. PICK m \in ids : \A n \in ids : m <= n
    BY LeastElement, Zenon
  <1>2. PICK r \in S : r.id = m
    BY <1>1, Zenon
  <1>3. \A q \in S : r.id <= q.id
    BY <1>1, <1>2, Zenon
  <1>4. QED
    BY <1>3, Zenon DEF Foremost

-----------------------------------------------------------------------------
(* What a step leaves alone                                                *)

(* Whether the schedules of a policy are right depends on its main         *)
(* schedules, its definition and the filesystem only.                      *)
LEMMA AgreesSame ==
  ASSUME NEW i, fs' = fs, Mains(i)' = Mains(i), policies'[i] = policies[i]
  PROVE  /\ Agrees(i)' <=> Agrees(i)
         /\ Enabled(policies[i])' <=> Enabled(policies[i])
         /\ Row(i)' = Row(i)
  <1>1. Wanted(i)' = Wanted(i) /\ Row(i)' = Row(i)
    BY Zenon DEF Wanted, Fits, Row
  <1>2. QED
    BY <1>1, Zenon DEF Agrees

(* No schedule agrees with none wanted. *)
LEMMA NoneAgrees ==
  ASSUME Laws, NEW M, M = {}
  PROVE  {s.spec : s \in M} = {} /\ Cardinality(M) <= 1
  <1>1. {s.spec : s \in M} = {}
    BY Zenon
  <1>2. Cardinality(M) = 0
    BY Zenon DEF Laws
  <1>3. QED
    BY <1>1, <1>2

(* A single schedule agrees with the trigger it was made from. *)
LEMMA OneAgrees ==
  ASSUME Laws, NEW s, NEW M, M = {s}
  PROVE  {x.spec : x \in M} = {s.spec} /\ Cardinality(M) <= 1
  <1>1. {x.spec : x \in M} = {s.spec}
    BY Zenon
  <1>2. Cardinality(M) = 1
    BY Zenon DEF Laws
  <1>3. QED
    BY <1>1, <1>2

(* Steps that touch no agent, no policy and no main schedule. *)
LEMMA QuietKeeps ==
  ASSUME SchedInv, TypeOK', Shapes', fresh' => fresh,
         UNCHANGED <<fs, policies, job, phase, todo, hit>>,
         \A i \in Ids : Mains(i)' = Mains(i)
  PROVE  SchedInv'
  <1>1. \A i \in Ids : /\ Agrees(i)' <=> Agrees(i)
                       /\ InFlight(i)' = InFlight(i) /\ (Waits(i)' <=> Waits(i))
    BY AgreesSame, Zenon DEF InFlight, Waits, Row
  <1>2. \A a \in Agents : Live(a)' <=> Live(a)
    BY Zenon DEF Live
  <1>3. ASSUME NEW a \in Agents, Live(a), Stage(job[a]) PROVE Stage(job[a])'
    <2>1. job[a].id \in Ids
      BY <1>3, Zenon DEF SchedInv, Shapes, JobOK, Live
    <2>2. Mains(job[a].id)' = Mains(job[a].id) /\ (Agrees(job[a].id)' <=> Agrees(job[a].id))
      BY <1>1, <2>1, Zenon
    <2>3. QED
      BY <1>3, <2>2, Zenon DEF Stage, Fits
  <1>4. Alone'
    BY <1>1, <1>2, <1>3, Zenon DEF SchedInv, Alone, InFlight
  <1>5. Right'
    BY <1>1, Zenon DEF SchedInv, Right
  <1>6. Booted'
    <2>1. Live(Boot)' <=> Live(Boot)
      BY Zenon DEF Live
    <2>2. QED
      BY <1>1, <2>1, Zenon DEF SchedInv, Booted
  <1>7. QED
    BY <1>4, <1>5, <1>6, Zenon DEF SchedInv

(* A step of agent a that touches the policies I at most: whoever is alone *)
(* on another one stays so, and what was right there stays right.          *)
LEMMA OthersKeep ==
  ASSUME SchedInv, NEW a \in Agents, NEW I, fs' = fs,
         \A i \in Ids \ I : Mains(i)' = Mains(i) /\ policies'[i] = policies[i],
         \A b \in Agents \ {a} :
           /\ Live(b)' <=> Live(b)
           /\ Live(b) => /\ job'[b].id = job[b].id
                         /\ job'[b].alone => job'[b] = job[b] /\ job[b].id \notin I,
         Live(a) => job[a].id \in I, Live(a)' => job'[a].id \in I
  PROVE  /\ \A i \in Ids \ I : /\ InFlight(i)' = InFlight(i)
                               /\ Agrees(i)' <=> Agrees(i)
                               /\ Row(i)' = Row(i)
         /\ \A b \in Agents \ {a} :
              Live(b)' /\ job'[b].alone => InFlight(job[b].id)' = {b} /\ Stage(job[b])'
  <1>1. \A i \in Ids \ I : (Agrees(i)' <=> Agrees(i)) /\ Row(i)' = Row(i)
    BY AgreesSame, Zenon
  <1>2. ASSUME NEW i \in Ids \ I PROVE InFlight(i)' = InFlight(i)
    BY DEF InFlight, Live
  <1>3. ASSUME NEW b \in Agents \ {a}, Live(b)', job'[b].alone
        PROVE  InFlight(job[b].id)' = {b} /\ Stage(job[b])'
    <2>1. Live(b) /\ job'[b] = job[b] /\ job[b].id \in Ids \ I /\ job[b].alone
      BY <1>3, Zenon DEF SchedInv, Shapes, JobOK, Live
    <2>2. InFlight(job[b].id) = {b} /\ Stage(job[b])
      BY <2>1, Zenon DEF SchedInv, Alone
    <2> DEFINE i == job[b].id
    <2>3. InFlight(i)' = {b}
      BY <1>2, <2>1, <2>2, ZenonT(30) DEF InFlight
    <2>4. Mains(i)' = Mains(i) /\ policies'[i] = policies[i] /\ (Agrees(i)' <=> Agrees(i))
      BY <1>1, <2>1, Zenon
    <2>5. Stage(job[b])'
      BY <2>1, <2>2, <2>4, Zenon DEF Stage, Fits
    <2>6. QED
      BY <2>1, <2>3, <2>5, Zenon
  <1>4. QED
    BY <1>1, <1>2, <1>3, Zenon

-----------------------------------------------------------------------------
(* One-shot schedules, the pruner and the checker                          *)

(* The fields of a new schedule, and of one that is marked Completed. *)
LEMMA SchedFields ==
  ASSUME NEW a, NEW i, NEW sort, NEW spec, NEW target
  PROVE  /\ Sched(a, i, sort, spec, target).owner = i
         /\ Sched(a, i, sort, spec, target).sort = sort
         /\ Sched(a, i, sort, spec, target).spec = spec
  BY Zenon DEF Sched

(* A schedule keeps owner and sort in its name and when it is Completed. *)
LEMMA NameFields ==
  ASSUME NEW s
  PROVE  /\ Name(s).owner = s.owner /\ Name(s).sort = s.sort
         /\ Completed(s).owner = s.owner /\ Completed(s).sort = s.sort
  BY Zenon DEF Name, Completed, Sched

(* What the step of an agent or of the checker shows of the phase. *)
LEMMA PhaseFacts ==
  ASSUME SchedInv
  PROVE  /\ Boot \in Agents /\ Reqs \subseteq Agents /\ Agents = {Boot} \cup Reqs /\ Boot \notin Reqs
         /\ \A a \in Agents : Live(a) => phase # "down" /\ (phase = "boot" => a = Boot)
         /\ \A a \in Agents : Live(a) /\ phase = "running" => a \in Reqs /\ ~fresh
         /\ cycle # {} => phase = "running"
         /\ phase \in {"boot", "running", "down"}
  <1>1. Boot \in Agents /\ Reqs \subseteq Agents /\ Agents = {Boot} \cup Reqs /\ Boot \notin Reqs
    BY ScheduleAssumption DEF Boot, Agents, Reqs
  <1>2. phase \in {"boot", "running", "down"}
    BY Zenon DEF SchedInv, TypeOK
  <1>3. QED
    BY <1>1, <1>2, Zenon DEF SchedInv, Shapes

(* A manual run, and a request that is refused. *)
LEMMA RunNowKeeps ==
  ASSUME SchedInv, NEW n \in Reqs,
         Refused(n) \/ \E i \in Ids, t \in world.targets : run_policy_now(n, i, t)
  PROVE  SchedInv'
  <1>0. /\ phase = "running" /\ n = made + 1 /\ made' = n /\ fresh' = FALSE
        /\ UNCHANGED <<fs, world, policies, next_id, phase, todo, job, budget, cycle, due, hit>>
        /\ TypeOK /\ Shapes
    BY Zenon DEF Refused, run_policy_now, Request, SchedInv
  <1>1. /\ \A s \in scheds' : s.owner \in Ids /\ s.sort \in OneShots \cup {"main"}
        /\ \A k \in Ids : Mains(k)' = Mains(k)
    <2>1. CASE UNCHANGED scheds
      BY <1>0, <2>1, Zenon DEF TypeOK, Mains
    <2>2. CASE \E i \in Ids, t \in world.targets :
                 scheds' = scheds \cup {Sched(n, i, "manual", [tag |-> "immediate"], t)}
      <3>1. PICK i \in Ids, t \in world.targets :
                 scheds' = scheds \cup {Sched(n, i, "manual", [tag |-> "immediate"], t)}
        BY <2>2, Zenon
      <3>2. PICK new : new = Sched(n, i, "manual", [tag |-> "immediate"], t)
        BY Zenon
      <3>3. scheds' = scheds \cup {new} /\ new.owner = i /\ new.sort = "manual"
        BY <3>1, <3>2, SchedFields
      <3>4. QED
        BY <1>0, <3>3, Zenon DEF TypeOK, Mains, OneShots
    <2>3. QED
      BY <2>1, <2>2, Zenon DEF Refused, run_policy_now
  <1>2. TypeOK'
    <2>1. made' \in 0..MaxReq
      BY <1>0, ScheduleAssumption DEF Reqs
    <2>2. QED
      BY <1>0, <1>1, <2>1, Zenon DEF TypeOK
  <1>3. Shapes'
    <2>1. \A k \in Reqs : made' < k => ~Live(k)
      BY <1>0, ScheduleAssumption DEF Shapes, Reqs, TypeOK
    <2>2. ~Live(Boot)
      BY <1>0, Zenon DEF Shapes
    <2>3. QED
      BY <1>0, <2>1, <2>2, Zenon DEF Shapes, Live, Row
  <1>4. QED
    BY <1>0, <1>1, <1>2, <1>3, QuietKeeps, Zenon

(* One-shot schedules are run and pruned. *)
LEMMA OneShotKeeps ==
  ASSUME SchedInv,
         \/ \E i \in Ids, sort \in OneShots : RunOneShot(i, sort)
         \/ prune_threshold_schedules
  PROVE  SchedInv'
  <1>0. /\ UNCHANGED <<fs, world, policies, next_id, phase, todo, job, made, budget,
                       cycle, due, fresh, hit>>
        /\ TypeOK /\ Shapes
    BY Zenon DEF RunOneShot, prune_threshold_schedules, SchedInv
  <1>1. /\ \A s \in scheds' : s.owner \in Ids /\ s.sort \in OneShots \cup {"main"}
        /\ \A k \in Ids : Mains(k)' = Mains(k)
    <2>1. CASE prune_threshold_schedules
      BY <1>0, <2>1, Zenon DEF prune_threshold_schedules, Prunable, TypeOK, Mains, OneShots
    <2>2. CASE \E i \in Ids, sort \in OneShots : RunOneShot(i, sort)
      <3>1. PICK s \in scheds : s.sort \in OneShots /\ scheds' = (scheds \ {s}) \cup {Completed(s)}
        BY <2>2, Zenon DEF RunOneShot
      <3>2. PICK new : new = Completed(s)
        BY Zenon
      <3>3. scheds' = (scheds \ {s}) \cup {new} /\ new.owner = s.owner /\ new.sort = s.sort
        BY <3>1, <3>2, NameFields, Zenon
      <3>4. QED
        BY <1>0, <3>1, <3>3, Zenon DEF TypeOK, Mains, OneShots
    <2>3. QED
      BY <2>1, <2>2, Zenon
  <1>2. TypeOK' /\ Shapes'
    BY <1>0, <1>1, Zenon DEF TypeOK, Shapes, Live, Row
  <1>3. QED
    BY <1>0, <1>1, <1>2, QuietKeeps, Zenon

(* The threshold checker adds one-shot schedules only. *)
LEMMA CheckerKeeps ==
  ASSUME Laws, SchedInv, Checker
  PROVE  SchedInv'
  <1>0. /\ UNCHANGED <<fs, world, policies, next_id, phase, todo, job, made, fresh, hit>>
        /\ TypeOK /\ Shapes
    BY Zenon DEF Checker, CycleBegins, Evaluate, SchedInv
  <1>00. CheckSecs \in Nat
    BY TriggerAssumption, Zenon
  <1>1. /\ \A s \in scheds' : s.owner \in Ids /\ s.sort \in OneShots \cup {"main"}
        /\ \A k \in Ids : Mains(k)' = Mains(k)
        /\ due' \in [Ids -> 0..CheckSecs] /\ budget' \in 0..Budget
        /\ \A r \in cycle' : r.id \in Ids /\ decode_threshold(parse_trigger(r.def.trigger)) # Pass
        /\ phase = "running"
    <2>1. CASE CycleBegins
      <3>1. UNCHANGED <<scheds, budget>> /\ phase = "running"
        BY <2>1, Zenon DEF CycleBegins
      <3>2. due' \in [Ids -> 0..CheckSecs]
        BY <1>0, <1>00, <2>1 DEF CycleBegins, TypeOK
      <3>3. \A r \in cycle' : r.id \in Ids /\ decode_threshold(parse_trigger(r.def.trigger)) # Pass
        BY <2>1 DEF CycleBegins, Listed, Row
      <3>4. QED
        BY <1>0, <3>1, <3>2, <3>3, Zenon DEF TypeOK, Mains
    <2>2. CASE Evaluate
      <3> DEFINE r == Foremost(cycle)
                 params == decode_threshold(parse_trigger(r.def.trigger))
                 m == Measure(params, world.usage)
      <3>1. r \in cycle /\ r.id \in Ids /\ params # Pass
        <4>1. cycle # {} /\ \A q \in cycle : q.id \in Nat
          BY <1>0, <2>2, ScheduleAssumption DEF Evaluate, Shapes, Ids
        <4>2. r \in cycle
          BY <4>1, ForemostFacts, Zenon
        <4>3. QED
          BY <1>0, <4>2, Zenon DEF Shapes
      <3>2. params.check_interval = CheckSecs
        BY <3>1, Zenon DEF decode_threshold
      <3>3. due' = [due EXCEPT ![r.id] = params.check_interval]
        BY <2>2, Zenon DEF Evaluate, NextCheck
      <3>4. due' \in [Ids -> 0..CheckSecs]
        <4> HIDE DEF r, params
        <4>1. QED
          BY <1>0, <1>00, <3>1, <3>2, <3>3 DEF TypeOK
      <3>5. cycle' \subseteq cycle
        BY <2>2, Zenon DEF Evaluate
      <3>6. phase = "running"
        BY <2>2, PhaseFacts, Zenon DEF Evaluate
      <3>7. /\ scheds' = scheds \/ scheds' = scheds \cup
                 {Sched(Boot, r.id, "threshold", [tag |-> "immediate"], m.target)}
            /\ budget' = budget \/ (budget > 0 /\ budget' = budget - 1)
        BY <2>2, Zenon DEF Evaluate
      <3>8. PICK new : new = Sched(Boot, r.id, "threshold", [tag |-> "immediate"], m.target)
        BY Zenon
      <3>9. new.owner = r.id /\ new.sort = "threshold"
        BY <3>8, SchedFields
      <3>10. scheds' = scheds \/ scheds' = scheds \cup {new}
        BY <3>7, <3>8, Zenon
      <3> HIDE DEF r, params, m
      <3>11. /\ \A s \in scheds' : s.owner \in Ids /\ s.sort \in OneShots \cup {"main"}
             /\ \A k \in Ids : Mains(k)' = Mains(k)
        BY <1>0, <3>1, <3>9, <3>10, Zenon DEF TypeOK, Mains, OneShots
      <3>12. budget' \in 0..Budget
        BY <1>0, <3>7, ScheduleAssumption DEF TypeOK
      <3>13. QED
        BY <1>0, <3>4, <3>5, <3>6, <3>11, <3>12, Zenon DEF Shapes
    <2>3. QED
      BY <2>1, <2>2, Zenon DEF Checker
  <1>2. TypeOK'
    BY <1>0, <1>1, Zenon DEF TypeOK
  <1>3. Shapes'
    BY <1>0, <1>1, Zenon DEF Shapes, Live, Row
  <1>4. QED
    BY <1>0, <1>1, <1>2, <1>3, QuietKeeps, Zenon

-----------------------------------------------------------------------------
(* The first state: the daemon is down, and the policies that want no      *)
(* schedule have none.                                                     *)
LEMMA SchedStarts ==
  ASSUME Laws, Init
  PROVE  SchedInv
  <1>1. \A a \in Agents : job[a] = Idle
    BY Zenon DEF Init
  <1>2. \A s \in scheds : s.owner \in Ids /\ s.sort = "main" /\ Wanted(s.owner) # {}
    <2>1. ASSUME NEW s \in scheds PROVE s.owner \in Ids /\ s.sort = "main" /\ Wanted(s.owner) # {}
      <3>1. PICK i \in {j \in Ids : Wanted(j) # {}} :
              s = Sched(Boot, i, "main", parse_trigger(policies[i].trigger), Fs)
        BY Zenon DEF Init
      <3>2. s.owner = i /\ s.sort = "main"
        BY <3>1, SchedFields, SMTT(30)
      <3>3. QED
        BY <3>1, <3>2, Zenon
    <2>2. QED
      BY <2>1, Zenon
  <1>3. TypeOK
    <2> DEFINE p == world.stored
    <2>1. /\ next_id = Len(p) + 1 /\ Len(p) \in 0..MaxId /\ DOMAIN p = 1..Len(p)
          /\ policies = [i \in Ids |-> IF i \in DOMAIN p THEN p[i] ELSE None]
      BY ScheduleAssumption, Zenon DEF Init
    <2>2. policies \in [Ids -> world.defs \cup Range(world.stored) \cup {None}]
      BY <2>1, Zenon DEF Range
    <2>3. next_id \in 1..(MaxId + 1) /\ \A i \in Ids : i >= next_id => policies[i] = None
      BY <2>1, ScheduleAssumption DEF Ids
    <2>4. made \in 0..MaxReq /\ budget \in 0..Budget /\ due \in [Ids -> 0..CheckSecs]
      BY ScheduleAssumption, TriggerAssumption DEF Init
    <2>5. QED
      BY <1>2, <2>2, <2>3, <2>4, Zenon DEF Init, TypeOK
  <1>4. Shapes
    <2>1. phase = "down" /\ todo = {} /\ cycle = {} /\ job = [a \in Agents |-> Idle]
      BY Zenon DEF Init
    <2>2. job = [a \in Agents |-> job[a]]
      BY <2>1, Zenon
    <2>3. Reqs \subseteq Agents
      BY Zenon DEF Agents
    <2>4. QED
      BY <1>1, <2>1, <2>2, <2>3, Zenon DEF Shapes, Live, JobOK
  <1>5. Alone /\ Booted
    BY <1>1, Zenon DEF Alone, Booted, Live, Init
  <1>6. Right
    <2> SUFFICES ASSUME NEW i \in Ids, ~Enabled(policies[i]) PROVE Agrees(i)
      BY Zenon DEF Right, Init
    <2>1. Wanted(i) = {}
      BY Zenon DEF Wanted
    <2>2. Mains(i) = {}
      BY <1>2, <2>1, Zenon DEF Mains
    <2>3. QED
      BY <2>1, <2>2, NoneAgrees, Zenon DEF Agrees
  <1>7. QED
    BY <1>3, <1>4, <1>5, <1>6, Zenon DEF SchedInv

-----------------------------------------------------------------------------
(* The steps of an agent                                                   *)

(* Being met by another request changes nothing of an agent but that it is *)
(* no longer alone.                                                        *)
LEMMA DisturbedFacts ==
  ASSUME Shapes, NEW I, NEW b \in Agents
  PROVE  /\ JobOK(Disturbed(I)[b])
         /\ Disturbed(I)[b] # Idle <=> Live(b)
         /\ Live(b) => /\ Disturbed(I)[b].id = job[b].id /\ Disturbed(I)[b].op = job[b].op
                       /\ Disturbed(I)[b].alone => Disturbed(I)[b] = job[b] /\ job[b].id \notin I
         /\ (Live(b) => job[b].id \notin I) => Disturbed(I)[b] = job[b]
  <1>1. JobOK(job[b])
    BY Zenon DEF Shapes
  <1>2. Disturbed(I)[b] = IF Live(b) /\ job[b].id \in I THEN [job[b] EXCEPT !.alone = FALSE]
                          ELSE job[b]
    BY Zenon DEF Disturbed, Live
  <1>3. CASE ~(Live(b) /\ job[b].id \in I)
    BY <1>1, <1>2, <1>3, Zenon DEF Live
  <1>4. CASE Live(b) /\ job[b].id \in I
    <2> DEFINE j == job[b]
               k == [id |-> j.id, op |-> j.op, pc |-> j.pc, def |-> j.def, found |-> j.found,
                     alone |-> FALSE]
    <2>1. /\ j = [id |-> j.id, op |-> j.op, pc |-> j.pc, def |-> j.def, found |-> j.found,
                  alone |-> j.alone]
          /\ j.id \in Ids /\ j.op \in Ops /\ j.pc \in Pcs /\ j.alone \in BOOLEAN
          /\ j.pc = "row" => j.op = "delete"
          /\ \A s \in j.found : s.owner \in Ids /\ j.id <= s.owner
      BY <1>1, <1>4, Zenon DEF JobOK, Live
    <2>2. Disturbed(I)[b] = k
      <3>1. Disturbed(I)[b] = [j EXCEPT !.alone = FALSE]
        BY <1>2, <1>4, Zenon
      <3>2. QED
        BY <2>1, <3>1, ZenonT(30)
    <2>3. JobOK(k) /\ k # Idle
      BY <2>1, Zenon DEF JobOK, Idle, Pcs
    <2>4. QED
      BY <1>4, <2>2, <2>3, SMTT(30)
  <1>5. QED
    BY <1>3, <1>4, Zenon

(* An agent takes a step of its reconciliation and disturbs the agents on  *)
(* the policies J.                                                         *)
LEMMA AgentFrame ==
  ASSUME SchedInv, NEW a \in Agents, Live(a), NEW J, NEW j, JobOK(j),
         j # Idle => j.id = job[a].id /\ j.op = job[a].op,
         job' = [Disturbed(J) EXCEPT ![a] = j],
         UNCHANGED <<phase, todo, cycle, made>>,
         policies' = policies \/ phase = "running", fresh' => fresh
  PROVE  /\ Shapes' /\ job'[a] = j
         /\ \A b \in Agents \ {a} :
              /\ Live(b)' <=> Live(b)
              /\ Live(b) => /\ job'[b].id = job[b].id
                            /\ job'[b].alone => /\ job'[b] = job[b]
                                                /\ job[b].id \notin J \cup {job[a].id}
  <1>1. /\ job'[a] = j /\ \A b \in Agents \ {a} : job'[b] = Disturbed(J)[b]
        /\ job' = [b \in Agents |-> job'[b]]
    <2>1. Disturbed(J) = [b \in Agents |-> Disturbed(J)[b]]
      BY Zenon DEF Disturbed
    <2>2. QED
      BY <2>1, Zenon
  <1>2. \A b \in Agents \ {a} :
          /\ JobOK(job'[b]) /\ (Live(b)' <=> Live(b))
          /\ Live(b) => /\ job'[b].id = job[b].id /\ job'[b].op = job[b].op
                        /\ job'[b].alone => job'[b] = job[b] /\ job[b].id \notin J
    BY <1>1, DisturbedFacts DEF SchedInv, Live
  <1>3. ASSUME NEW b \in Agents \ {a}, Live(b), job'[b].alone PROVE job[b].id # job[a].id
    <2>1. InFlight(job[b].id) = {b}
      BY <1>2, <1>3, Zenon DEF SchedInv, Alone
    <2>2. a \notin InFlight(job[b].id)
      BY <2>1, Zenon
    <2>3. QED
      BY <2>2, Zenon DEF InFlight, Live
  <1>4. Shapes'
    <2>1. \A b \in Agents : JobOK(job'[b])
      BY <1>1, <1>2, Zenon
    <2>2. \A b \in Agents : Live(b)' => Live(b)
      BY <1>2, Zenon
    <2>3. Live(Boot)' => job'[Boot].op = job[Boot].op
      BY <1>1, <1>2, PhaseFacts, Zenon DEF Live
    <2>4. \A r \in todo' : r = Row(r.id)' /\ r.id \in Ids /\ r.def # None
      BY Zenon DEF SchedInv, Shapes, Row
    <2>5. phase = "running" => ~Live(Boot) /\ todo = {} /\ (fresh => \A b \in Agents : ~Live(b))
      BY Zenon DEF SchedInv, Shapes
    <2>6. /\ \A r \in cycle : r.id \in Ids /\ decode_threshold(parse_trigger(r.def.trigger)) # Pass
          /\ \A n \in Reqs : made < n => ~Live(n)
          /\ phase = "down" => (\A b \in Agents : ~Live(b)) /\ todo = {} /\ cycle = {}
          /\ phase = "boot" => /\ \A n \in Reqs : ~Live(n)
                               /\ Live(Boot) => job[Boot].op # "delete"
                               /\ cycle = {}
      BY Zenon DEF SchedInv, Shapes
    <2>7. Boot \in Agents /\ Reqs \subseteq Agents
      BY PhaseFacts, Zenon
    <2>8. QED
      BY <1>1, <2>1, <2>2, <2>3, <2>4, <2>5, <2>6, <2>7, Zenon DEF Shapes
  <1>5. QED
    BY <1>1, <1>2, <1>3, <1>4, Zenon

(* Such a step keeps the invariant if it touches the schedules and the     *)
(* rows of its own policy and of J only, marks J as hit, and leaves its    *)
(* own policy at the stage it claims; while the boot runs undisturbed, J   *)
(* comes after the policy it is at.                                        *)
LEMMA AgentKeeps ==
  ASSUME SchedInv, NEW a \in Agents, Live(a), NEW own, own = job[a].id,
         NEW J, NEW j, JobOK(j),
         j # Idle => j.id = own /\ j.op = job[a].op,
         job' = [Disturbed(J) EXCEPT ![a] = j],
         UNCHANGED <<fs, phase, todo, cycle, made>>,
         policies' = policies \/ phase = "running", fresh' => fresh,
         TypeOK',
         \A i \in Ids \ (J \cup {own}) : Mains(i)' = Mains(i) /\ policies'[i] = policies[i],
         J \subseteq hit', hit \ {own} \subseteq hit',
         j # Idle /\ j.alone => job[a].alone /\ Stage(j)',
         j = Idle => own \in hit' \/ Agrees(own)',
         fresh' => /\ \A k \in J : own < k
                   /\ IF j = Idle THEN Agrees(own)' ELSE j.alone
  PROVE  SchedInv'
  <1> DEFINE I == J \cup {own}
  <1>1. /\ Shapes' /\ job'[a] = j
        /\ \A b \in Agents \ {a} :
              /\ Live(b)' <=> Live(b)
              /\ Live(b) => /\ job'[b].id = job[b].id
                            /\ job'[b].alone => job'[b] = job[b] /\ job[b].id \notin I
    <2>1. j # Idle => j.id = job[a].id /\ j.op = job[a].op
      BY ZenonT(30)
    <2>2. /\ Shapes' /\ job'[a] = j
          /\ \A b \in Agents \ {a} :
               /\ Live(b)' <=> Live(b)
               /\ Live(b) => /\ job'[b].id = job[b].id
                             /\ job'[b].alone => /\ job'[b] = job[b]
                                                 /\ job[b].id \notin J \cup {job[a].id}
      BY <2>1, AgentFrame, ZenonT(30)
    <2>3. QED
      BY <2>2, ZenonT(30)
  <1>2. own \in I /\ own \in Ids /\ (Live(a)' <=> j # Idle) /\ (Live(a)' => job'[a].id = own)
    BY <1>1, ZenonT(30) DEF SchedInv, Shapes, JobOK, Live
  <1>3. \A i \in Ids \ I : Mains(i)' = Mains(i) /\ policies'[i] = policies[i]
    BY ZenonT(30)
  <1> HIDE DEF I
  <1>4. /\ \A i \in Ids \ I : /\ InFlight(i)' = InFlight(i)
                              /\ Agrees(i)' <=> Agrees(i)
                              /\ Row(i)' = Row(i)
        /\ \A b \in Agents \ {a} :
             Live(b)' /\ job'[b].alone => InFlight(job[b].id)' = {b} /\ Stage(job[b])'
    BY <1>1, <1>2, <1>3, OthersKeep, Zenon
  <1>5. \A i \in Ids \ I : /\ Waits(i)' <=> Waits(i)
                           /\ Enabled(policies[i])' <=> Enabled(policies[i])
    BY <1>3, <1>4, ZenonT(30) DEF Waits
  <1>6. Live(a)' => a \in InFlight(own)'
    BY <1>2, ZenonT(30) DEF InFlight, Live
  <1>7. Alone'
    <2> SUFFICES ASSUME NEW b \in Agents, Live(b)', job'[b].alone
                 PROVE  InFlight(job[b].id)' = {b} /\ Stage(job[b])'
      BY Zenon DEF Alone
    <2>1. CASE b # a
      <3>1. job'[b] = job[b]
        BY <1>1, <2>1, Zenon
      <3>2. QED
        BY <1>4, <2>1, <3>1, Zenon
    <2>2. CASE b = a
      <3>1. j # Idle /\ j.alone /\ job[a].alone /\ Stage(j)'
        BY <1>1, <1>2, <2>2, Zenon
      <3>2. InFlight(own) = {a}
        BY <3>1, Zenon DEF SchedInv, Alone
      <3>3. InFlight(own)' = {a}
        <4>1. \A c \in Agents : Live(c)' /\ job'[c].id = own => c = a
          BY <1>1, <3>2, SMTT(30) DEF InFlight, Live
        <4>2. QED
          BY <1>6, <1>2, <2>2, <4>1, Zenon DEF InFlight, Live
      <3>4. QED
        BY <1>1, <1>2, <2>2, <3>1, <3>3, Zenon
    <2>3. QED
      BY <2>1, <2>2, ZenonT(30)
  <1>8. Right'
    <2> SUFFICES ASSUME NEW i \in Ids \ hit', InFlight(i)' = {},
                        Enabled(policies[i])' => phase' # "down" /\ ~Waits(i)'
                 PROVE  Agrees(i)'
      BY Zenon DEF Right
    <2>1. CASE i \in I
      <3>1. i = own
        BY <2>1, Zenon DEF I
      <3>2. j = Idle
        BY <1>2, <1>6, <3>1, Zenon
      <3>3. QED
        BY <3>1, <3>2, Zenon
    <2>2. CASE i \notin I
      <3>1. i \notin hit
        BY <2>2, ZenonT(30) DEF I
      <3>2. InFlight(i) = {} /\ (Enabled(policies[i]) => phase # "down" /\ ~Waits(i))
        BY <1>4, <1>5, <2>2, ZenonT(30)
      <3>3. Agrees(i)
        BY <3>1, <3>2, ZenonT(30) DEF SchedInv, Right
      <3>4. QED
        BY <1>4, <2>2, <3>3, ZenonT(30)
    <2>3. QED
      BY <2>1, <2>2, Zenon
  <1>9. Booted'
    <2> SUFFICES ASSUME fresh', phase' # "down" PROVE Booted'
      BY ZenonT(30) DEF Booted
    <2>1. fresh /\ phase = "boot" /\ a = Boot /\ job[a].alone
      BY PhaseFacts, ZenonT(30) DEF SchedInv, Booted
    <2>2. policies' = policies
      BY <2>1, Zenon
    <2>3. \A i \in Ids : /\ Waits(i)' <=> Waits(i)
                         /\ Enabled(policies[i])' <=> Enabled(policies[i])
      BY <2>2, Zenon DEF Waits, Row
    <2>4. \A k \in Ids : own < k /\ policies[k] # None => Waits(k)
      BY <2>1, Zenon DEF SchedInv, Booted
    <2>5. ASSUME NEW i \in Ids, Enabled(policies[i])', ~Waits(i)', InFlight(i)' = {}
          PROVE  Agrees(i)'
      <3>1. Enabled(policies[i]) /\ ~Waits(i) /\ policies[i] # None
        BY <2>3, <2>5, Zenon DEF Enabled
      <3>2. i \notin J
        BY <2>4, <3>1, Zenon
      <3>3. CASE i = own
        <4>1. j = Idle
          BY <1>2, <1>6, <2>5, <3>3, ZenonT(30)
        <4>2. QED
          BY <3>3, <4>1, Zenon
      <3>4. CASE i # own
        <4>1. i \notin I
          BY <3>2, <3>4, ZenonT(30) DEF I
        <4>2. InFlight(i) = {}
          BY <1>4, <2>5, <4>1, Zenon
        <4>3. Agrees(i)
          BY <2>1, <3>1, <4>2, ZenonT(30) DEF SchedInv, Booted
        <4>4. QED
          BY <1>4, <4>1, <4>3, Zenon
      <3>5. QED
        BY <3>3, <3>4, Zenon
    <2>6. \A i, k \in Ids : Waits(i)' /\ i < k /\ policies'[k] # None => Waits(k)'
      BY <2>1, <2>2, <2>3, ZenonT(30) DEF SchedInv, Booted
    <2>7. Live(Boot)' => /\ job'[Boot].alone
                         /\ \A k \in Ids : job'[Boot].id < k /\ policies'[k] # None => Waits(k)'
      BY <1>1, <1>2, <2>1, <2>2, <2>3, <2>4, SMTT(30)
    <2>8. QED
      BY <2>5, <2>6, <2>7, ZenonT(30) DEF Booted
  <1>10. QED
    BY <1>1, <1>7, <1>8, <1>9, Zenon DEF SchedInv

(* With nobody disturbed, only the agent's own job changes. *)
LEMMA DisturbedNone ==
  ASSUME Shapes
  PROVE  Disturbed({}) = job
  <1>1. \A b \in Agents : Disturbed({})[b] = job[b]
    BY Zenon DEF Disturbed
  <1>2. Disturbed({}) = [b \in Agents |-> Disturbed({})[b]]
    BY Zenon DEF Disturbed
  <1>3. job = [b \in Agents |-> job[b]]
    BY Zenon DEF Shapes
  <1>4. QED
    BY <1>1, <1>2, <1>3, Zenon

(* The same for a step that disturbs nobody: agent a, at policy own, goes  *)
(* on to j.                                                                *)
Solo(a, own, j) ==
  /\ own = job[a].id /\ JobOK(j) /\ (j # Idle => j.id = own /\ j.op = job[a].op)
  /\ job' = [job EXCEPT ![a] = j]
  /\ UNCHANGED <<fs, phase, todo, cycle, made>>
  /\ policies' = policies \/ phase = "running"
  /\ fresh' => fresh
  /\ TypeOK'
  /\ \A i \in Ids \ {own} : Mains(i)' = Mains(i) /\ policies'[i] = policies[i]
  /\ hit \ {own} \subseteq hit'
  /\ j # Idle /\ j.alone => job[a].alone /\ Stage(j)'
  /\ j = Idle => own \in hit' \/ Agrees(own)'
  /\ fresh' => IF j = Idle THEN Agrees(own)' ELSE j.alone

(* Such a step keeps the invariant. *)
LEMMA SoloKeeps ==
  ASSUME SchedInv, NEW a \in Agents, Live(a), NEW own, NEW j, Solo(a, own, j)
  PROVE  SchedInv'
  <1>0. PICK J : J = {}
    BY ZenonT(30)
  <1>1. /\ own = job[a].id /\ JobOK(j) /\ (j # Idle => j.id = own /\ j.op = job[a].op)
        /\ UNCHANGED <<fs, phase, todo, cycle, made>>
        /\ policies' = policies \/ phase = "running"
        /\ fresh' => fresh
        /\ TypeOK'
        /\ hit \ {own} \subseteq hit'
        /\ j # Idle /\ j.alone => job[a].alone /\ Stage(j)'
        /\ j = Idle => own \in hit' \/ Agrees(own)'
    BY Zenon DEF Solo
  <1>2. job' = [Disturbed(J) EXCEPT ![a] = j]
    BY <1>0, DisturbedNone, Zenon DEF SchedInv, Solo
  <1>3. /\ \A i \in Ids \ (J \cup {own}) : Mains(i)' = Mains(i) /\ policies'[i] = policies[i]
        /\ J \subseteq hit'
        /\ fresh' => /\ \A k \in J : own < k
                     /\ IF j = Idle THEN Agrees(own)' ELSE j.alone
    BY <1>0, Zenon DEF Solo
  <1>4. QED
    BY <1>1, <1>2, <1>3, AgentKeeps, Zenon

(* The record o of an agent at work. *)
AtWork(o) ==
  /\ o = [id |-> o.id, op |-> o.op, pc |-> o.pc, def |-> o.def, found |-> o.found,
          alone |-> o.alone]
  /\ o.id \in Ids /\ o.op \in Ops /\ o.pc \in Pcs /\ o.alone \in BOOLEAN
  /\ o.pc = "row" => o.op = "delete"
  /\ \A s \in o.found : s.owner \in Ids /\ o.id <= s.owner

(* Its next record, at another place and with other findings. *)
Moved(o, pc, found) ==
  [id |-> o.id, op |-> o.op, pc |-> pc, def |-> o.def, found |-> found, alone |-> o.alone]

(* The records of agents that are at work are as JobOK describes. *)
LEMMA WorkFacts ==
  ASSUME SchedInv, NEW a \in Agents, Live(a)
  PROVE  AtWork(job[a])
  BY ZenonT(30) DEF SchedInv, Shapes, JobOK, Live, AtWork

(* Moving on keeps the form of the record. *)
LEMMA MovedFacts ==
  ASSUME NEW o, AtWork(o), NEW pc \in Pcs, pc = "row" => o.op = "delete",
         NEW found, \A s \in found : s.owner \in Ids /\ o.id <= s.owner
  PROVE  JobOK(Moved(o, pc, found)) /\ Moved(o, pc, found) # Idle
  BY Zenon DEF AtWork, Moved, JobOK, Idle

(* What a step writes into the record of its agent. *)
LEMMA MovedIs ==
  ASSUME NEW o, AtWork(o), NEW pc
  PROVE  [o EXCEPT !.pc = pc] = Moved(o, pc, o.found)
  BY DEF AtWork, Moved

(* And what the listing of the schedules writes into it. *)
LEMMA FoundIs ==
  ASSUME NEW o, AtWork(o), NEW pc, NEW found
  PROVE  [[o EXCEPT !.pc = pc] EXCEPT !.found = found] = Moved(o, pc, found)
  <1>1. [o EXCEPT !.pc = pc] = Moved(o, pc, o.found)
    BY MovedIs, Zenon
  <1>2. [Moved(o, pc, o.found) EXCEPT !.found = found] = Moved(o, pc, found)
    BY DEF Moved
  <1>3. QED
    BY <1>1, <1>2, Zenon

(* The part of the stage of an agent that does not depend on its place. *)
Footing(o) ==
  /\ o.op # "delete" => policies[o.id] = o.def /\ o.def # None
  /\ o.op = "reconcile" => Fits(o.def)
  /\ o.op = "reject" => ~Fits(o.def)

(* An undisturbed agent stays on its footing while the filesystem and the  *)
(* row of its policy stay the same.                                        *)
LEMMA FootingKeeps ==
  ASSUME SchedInv, NEW a \in Agents, Live(a), NEW o, o = job[a], o.alone,
         fs' = fs, o.op # "delete" => policies'[o.id] = policies[o.id]
  PROVE  Stage(o) /\ Footing(o) /\ Footing(o)'
  <1>1. Stage(o)
    BY Zenon DEF SchedInv, Alone
  <1>2. QED
    BY <1>1, ZenonT(30) DEF Stage, Footing, Fits

(* remove_policy_schedule lists what begins with the name of the policy:   *)
(* all its own schedules, and those of policies with larger ids.           *)
LEMMA ListKeeps ==
  ASSUME Laws, SchedInv, NEW a \in Agents, Live(a), ListSchedules(a)
  PROVE  SchedInv'
  <1>0. PICK o, f, pc : /\ o = job[a] /\ f = list_schedules_by_name_prefix(o.id)
                        /\ pc = "remove" /\ pc \in Pcs
    BY Zenon DEF Pcs
  <1> DEFINE k == Moved(o, pc, f)
  <1>1. AtWork(o) /\ o.id \in Ids
    BY <1>0, WorkFacts, Zenon DEF AtWork
  <1>2. \A s \in f : s.owner \in Ids /\ o.id <= s.owner
    <2>1. ASSUME NEW s \in f PROVE s.owner \in Ids /\ o.id <= s.owner
      <3>1. PICK x \in scheds : s = Name(x) /\ o.id \in Leading[x.owner]
        BY <1>0, Zenon DEF list_schedules_by_name_prefix
      <3>2. s.owner = x.owner /\ x.owner \in Ids
        BY <3>1, NameFields, Zenon DEF SchedInv, TypeOK
      <3>3. o.id \in 1..x.owner
        BY <3>1, <3>2, LeadingFacts, Zenon
      <3>4. QED
        BY <3>2, <3>3, ScheduleAssumption DEF Ids
    <2>2. QED
      BY <2>1, Zenon
  <1>3. \A s \in Mains(o.id) : Name(s) \in f
    BY <1>0, <1>1, LeadingFacts, Zenon DEF Mains, list_schedules_by_name_prefix
  <1>4. JobOK(k) /\ k # Idle
    BY <1>0, <1>1, <1>2, MovedFacts, Zenon
  <1>5. job' = [job EXCEPT ![a] = k]
    <2>1. job' = [job EXCEPT ![a] = [[o EXCEPT !.pc = pc] EXCEPT !.found = f]]
      BY <1>0, Zenon DEF ListSchedules
    <2>2. [[o EXCEPT !.pc = pc] EXCEPT !.found = f] = k
      BY <1>1, FoundIs, Zenon
    <2> HIDE DEF k
    <2>3. QED
      BY <2>1, <2>2, Zenon
  <1>6. /\ UNCHANGED <<fs, world, policies, next_id, scheds, phase, todo, made, budget,
                       cycle, due, fresh, hit>>
        /\ \A i \in Ids : Mains(i)' = Mains(i)
    BY Zenon DEF ListSchedules, Mains
  <1>7. TypeOK'
    BY <1>6, Zenon DEF SchedInv, TypeOK
  <1>8. k.id = o.id /\ k.op = o.op /\ k.alone = o.alone
    BY Zenon DEF Moved
  <1>9. ASSUME o.alone PROVE Stage(k)'
    <2>1. Footing(o)'
      BY <1>0, <1>6, <1>9, FootingKeeps, Zenon
    <2>2. \A s \in Mains(o.id)' : Name(s) \in f
      BY <1>1, <1>3, <1>6, Zenon
    <2>3. QED
      BY <1>0, <2>1, <2>2, ZenonT(30) DEF Stage, Footing, Moved
  <1>10. fresh' => k.alone
    BY <1>0, <1>6, <1>8, PhaseFacts, Zenon DEF SchedInv, Booted
  <1> HIDE DEF k
  <1>11. PICK own, j : own = o.id /\ j = k
    BY Zenon
  <1>12. Solo(a, own, j)
    BY <1>0, <1>4, <1>5, <1>6, <1>7, <1>8, <1>9, <1>10, <1>11, Zenon DEF Solo
  <1>13. QED
    BY <1>12, SoloKeeps, Zenon

(* reconcile_triggers adds the schedule: whoever is alone has removed      *)
(* every other one before.                                                 *)
LEMMA AddKeeps ==
  ASSUME Laws, SchedInv, NEW a \in Agents, Live(a), AddSchedule(a)
  PROVE  SchedInv'
  <1>0. PICK o, pc, new, own :
          /\ o = job[a] /\ pc = "end" /\ pc \in Pcs /\ own = o.id
          /\ new = Sched(a, o.id, "main", parse_trigger(o.def.trigger), Fs)
    BY Zenon DEF Pcs
  <1>1. AtWork(o) /\ own \in Ids /\ \A s \in o.found : s.owner \in Ids /\ o.id <= s.owner
    BY <1>0, WorkFacts, ZenonT(30) DEF AtWork
  <1>2. new.owner = own /\ new.sort = "main" /\ new.spec = parse_trigger(o.def.trigger)
    BY <1>0, SchedFields
  <1>3. PICK j : j = Moved(o, pc, o.found)
    BY Zenon
  <1>4. JobOK(j) /\ j # Idle
    BY <1>0, <1>1, <1>3, MovedFacts, Zenon
  <1>5. job' = [job EXCEPT ![a] = j]
    <2>1. [o EXCEPT !.pc = pc] = j
      BY <1>1, <1>3, MovedIs, Zenon
    <2>2. job' = [job EXCEPT ![a] = [o EXCEPT !.pc = pc]]
      BY <1>0, Zenon DEF AddSchedule, Becomes
    <2>3. QED
      BY <2>1, <2>2, Zenon
  <1>6. /\ UNCHANGED <<fs, world, policies, next_id, phase, todo, made, budget, cycle,
                       due, fresh, hit>>
        /\ scheds' = scheds \cup {new} /\ o.pc = "add"
    BY <1>0, Zenon DEF AddSchedule
  <1>7. /\ \A i \in Ids \ {own} : Mains(i)' = Mains(i)
        /\ Mains(own)' = Mains(own) \cup {new}
    BY <1>2, <1>6, Zenon DEF Mains
  <1>8. TypeOK'
    BY <1>1, <1>2, <1>6, ZenonT(30) DEF SchedInv, TypeOK
  <1>9. j.id = own /\ j.op = o.op /\ j.alone = o.alone /\ j.def = o.def /\ j.pc = "end"
    BY <1>0, <1>3, Zenon DEF Moved
  <1>10. ASSUME o.alone PROVE Stage(j)'
    <2>1. Footing(o)' /\ Stage(o)
      BY <1>0, <1>6, <1>10, FootingKeeps, Zenon
    <2>2. /\ o.op = "reconcile" /\ o.def.enabled /\ TimeBased(parse_trigger(o.def.trigger))
          /\ Mains(own) = {}
      BY <1>0, <1>6, <2>1, Zenon DEF Stage
    <2>3. Mains(own)' = {new}
      BY <1>7, <2>2, Zenon
    <2>4. policies'[own] = o.def /\ o.def # None /\ Fits(o.def)'
      BY <1>0, <2>1, <2>2, Zenon DEF Footing
    <2>5. Wanted(own)' = {new.spec}
      BY <1>2, <2>2, <2>4, Zenon DEF Wanted, Enabled
    <2>6. Agrees(own)'
      BY <2>3, <2>5, OneAgrees, Zenon DEF Agrees
    <2>7. QED
      BY <1>0, <1>9, <2>1, <2>6, Zenon DEF Stage, Footing
  <1>11. fresh' => j.alone
    BY <1>0, <1>6, <1>9, PhaseFacts, Zenon DEF SchedInv, Booted
  <1>12. Solo(a, own, j)
    BY <1>0, <1>4, <1>5, <1>6, <1>7, <1>8, <1>9, <1>10, <1>11, Zenon DEF Solo
  <1>13. QED
    BY <1>12, SoloKeeps, Zenon

(* delete_policy removes the row. *)
LEMMA DeleteRowKeeps ==
  ASSUME Laws, SchedInv, NEW a \in Agents, Live(a), DeleteRow(a)
  PROVE  SchedInv'
  <1>0. PICK o, pc, own : o = job[a] /\ pc = "end" /\ pc \in Pcs /\ own = o.id
    BY Zenon DEF Pcs
  <1>1. /\ AtWork(o) /\ own \in Ids /\ \A s \in o.found : s.owner \in Ids /\ o.id <= s.owner
        /\ o.op = "delete"
    BY <1>0, WorkFacts, Zenon DEF AtWork, DeleteRow
  <1>2. phase = "running" /\ ~fresh
    BY <1>0, <1>1, PhaseFacts, Zenon DEF SchedInv, Shapes
  <1>3. PICK j : j = Moved(o, pc, o.found)
    BY Zenon
  <1>4. JobOK(j) /\ j # Idle
    BY <1>0, <1>1, <1>3, MovedFacts, Zenon
  <1>5. job' = [job EXCEPT ![a] = j]
    <2>1. [o EXCEPT !.pc = pc] = j
      BY <1>1, <1>3, MovedIs, Zenon
    <2>2. job' = [job EXCEPT ![a] = [o EXCEPT !.pc = pc]]
      BY <1>0, Zenon DEF DeleteRow, Becomes
    <2>3. QED
      BY <2>1, <2>2, Zenon
  <1>6. /\ UNCHANGED <<fs, world, next_id, scheds, phase, todo, made, budget, cycle, due,
                       fresh, hit>>
        /\ policies' = [policies EXCEPT ![own] = None] /\ o.pc = "row"
    BY <1>0, Zenon DEF DeleteRow
  <1>7. /\ \A i \in Ids : Mains(i)' = Mains(i)
        /\ \A i \in Ids \ {own} : policies'[i] = policies[i]
        /\ policies'[own] = None
    BY <1>1, <1>6, Zenon DEF Mains, SchedInv, TypeOK
  <1>8. TypeOK'
    BY <1>1, <1>6, <1>7, Zenon DEF SchedInv, TypeOK
  <1>9. j.id = own /\ j.op = o.op /\ j.alone = o.alone /\ j.def = o.def /\ j.pc = "end"
    BY <1>0, <1>3, Zenon DEF Moved
  <1>10. ASSUME o.alone PROVE Stage(j)'
    <2>1. Stage(o)
      BY <1>0, <1>10, Zenon DEF SchedInv, Alone
    <2>2. Mains(own)' = {}
      BY <1>0, <1>1, <1>6, <1>7, <2>1, Zenon DEF Stage
    <2>3. Wanted(own)' = {}
      BY <1>7, Zenon DEF Wanted, Enabled
    <2>4. Agrees(own)'
      BY <2>2, <2>3, NoneAgrees, Zenon DEF Agrees
    <2>5. QED
      BY <1>1, <1>9, <2>4, Zenon DEF Stage
  <1>11. Solo(a, own, j)
    BY <1>0, <1>2, <1>4, <1>5, <1>6, <1>7, <1>8, <1>9, <1>10, Zenon DEF Solo
  <1>12. QED
    BY <1>11, SoloKeeps, Zenon

(* The agent has come to the end. *)
LEMMA AnswerKeeps ==
  ASSUME SchedInv, NEW a \in Agents, Live(a), Answer(a)
  PROVE  SchedInv'
  <1>0. PICK o, own, j : o = job[a] /\ own = o.id /\ j = Idle
    BY Zenon
  <1>1. AtWork(o) /\ own \in Ids /\ o.alone \in BOOLEAN /\ JobOK(j)
    BY <1>0, WorkFacts, Zenon DEF AtWork, JobOK
  <1>2. /\ job' = [job EXCEPT ![a] = j] /\ o.pc = "end"
        /\ UNCHANGED <<fs, world, policies, next_id, scheds, phase, todo, made, budget,
                       cycle, due, fresh>>
        /\ hit' = IF o.alone THEN hit \ {own} ELSE hit \cup {own}
    BY <1>0, Zenon DEF Answer, Finished
  <1>3. /\ \A i \in Ids : Mains(i)' = Mains(i) /\ policies'[i] = policies[i]
        /\ Agrees(own)' <=> Agrees(own)
    <2>1. \A i \in Ids : Mains(i)' = Mains(i) /\ policies'[i] = policies[i]
      BY <1>2, Zenon DEF Mains
    <2>2. QED
      BY <1>1, <1>2, <2>1, AgreesSame, Zenon
  <1>4. TypeOK'
    BY <1>1, <1>2, Zenon DEF SchedInv, TypeOK
  <1>5. ASSUME o.alone PROVE Agrees(own)
    BY <1>0, <1>2, <1>5, ZenonT(30) DEF SchedInv, Alone, Stage
  <1>6. fresh => o.alone
    BY <1>0, PhaseFacts, Zenon DEF SchedInv, Booted
  <1>7. Solo(a, own, j)
    BY <1>0, <1>1, <1>2, <1>3, <1>4, <1>5, <1>6, Zenon DEF Solo
  <1>8. QED
    BY <1>7, SoloKeeps, Zenon

(* A delete cannot remove its row. *)
LEMMA DeleteFailsKeeps ==
  ASSUME SchedInv, NEW a \in Agents, Live(a), DeleteFails(a)
  PROVE  SchedInv'
  <1>0. PICK own, j : own = job[a].id /\ j = Idle
    BY Zenon
  <1>1. own \in Ids /\ JobOK(j)
    BY <1>0, WorkFacts, Zenon DEF AtWork, JobOK
  <1>2. /\ job' = [job EXCEPT ![a] = j]
        /\ UNCHANGED <<fs, world, policies, next_id, scheds, phase, todo, made, cycle, due>>
        /\ budget > 0 /\ budget' = budget - 1 /\ ~fresh' /\ fresh' \in BOOLEAN
        /\ hit' = hit \cup {own}
    BY <1>0, Zenon DEF DeleteFails, Finished
  <1>3. \A i \in Ids : Mains(i)' = Mains(i) /\ policies'[i] = policies[i]
    BY <1>2, Zenon DEF Mains
  <1>4. TypeOK'
    <2>1. budget' \in 0..Budget
      BY <1>2, ScheduleAssumption DEF SchedInv, TypeOK
    <2>2. QED
      BY <1>1, <1>2, <2>1, ZenonT(30) DEF SchedInv, TypeOK
  <1>5. Solo(a, own, j)
    BY <1>0, <1>1, <1>2, <1>3, <1>4, Zenon DEF Solo
  <1>6. QED
    BY <1>5, SoloKeeps, Zenon

(* The removal of the names R takes the main schedules of the policy they  *)
(* were listed for, and of those it robs, and no others.                   *)
LEMMA WithoutFacts ==
  ASSUME SchedInv, NEW own, NEW R, \A s \in R : s.owner \in Ids, scheds' = Without(R)
  PROVE  /\ Robbed(own, R) \subseteq Ids
         /\ own \notin Robbed(own, R)
         /\ (\A s \in R : own <= s.owner) /\ own \in Ids => \A k \in Robbed(own, R) : own < k
         /\ \A i \in Ids \ (Robbed(own, R) \cup {own}) : Mains(i)' = Mains(i)
         /\ scheds' \subseteq scheds
         /\ (\A s \in Mains(own) : Name(s) \in R) => Mains(own)' = {}
  <1>1. Robbed(own, R) \subseteq Ids /\ own \notin Robbed(own, R)
    BY Zenon DEF Robbed
  <1>2. (\A s \in R : own <= s.owner) /\ own \in Ids => \A k \in Robbed(own, R) : own < k
    BY ScheduleAssumption DEF Robbed, Ids
  <1>3. ASSUME NEW i \in Ids \ (Robbed(own, R) \cup {own}) PROVE Mains(i)' = Mains(i)
    <2>1. \A s \in scheds : s.owner = i /\ s.sort = "main" => Name(s) \notin R
      BY <1>3, NameFields, Zenon DEF Robbed
    <2>2. QED
      BY <2>1, Zenon DEF Without, Mains
  <1>4. scheds' \subseteq scheds
    BY Zenon DEF Without
  <1>5. (\A s \in Mains(own) : Name(s) \in R) => Mains(own)' = {}
    BY Zenon DEF Without, Mains
  <1>6. QED
    BY <1>1, <1>2, <1>3, <1>4, <1>5, Zenon

(* The same step with the hypotheses of AgentKeeps in one place: agent a,  *)
(* at policy own, goes on to j and disturbs the agents on J.               *)
Joint(a, own, J, j) ==
  /\ own = job[a].id /\ JobOK(j) /\ (j # Idle => j.id = own /\ j.op = job[a].op)
  /\ job' = [Disturbed(J) EXCEPT ![a] = j]
  /\ UNCHANGED <<fs, phase, todo, cycle, made, policies>>
  /\ fresh' => fresh
  /\ TypeOK'
  /\ \A i \in Ids \ (J \cup {own}) : Mains(i)' = Mains(i)
  /\ J \subseteq hit' /\ hit \subseteq hit'
  /\ j # Idle /\ j.alone => job[a].alone /\ Stage(j)'
  /\ j = Idle => own \in hit' /\ ~fresh'
  /\ fresh' => (\A k \in J : own < k) /\ j.alone

(* Such a step keeps the invariant. *)
LEMMA JointKeeps ==
  ASSUME SchedInv, NEW a \in Agents, Live(a), NEW own, NEW J, NEW j, Joint(a, own, J, j)
  PROVE  SchedInv'
  <1>1. /\ own = job[a].id /\ JobOK(j) /\ (j # Idle => j.id = own /\ j.op = job[a].op)
        /\ job' = [Disturbed(J) EXCEPT ![a] = j]
        /\ UNCHANGED <<fs, phase, todo, cycle, made>>
        /\ policies' = policies \/ phase = "running"
        /\ fresh' => fresh
        /\ TypeOK'
        /\ \A i \in Ids \ (J \cup {own}) : Mains(i)' = Mains(i) /\ policies'[i] = policies[i]
        /\ J \subseteq hit' /\ hit \ {own} \subseteq hit'
        /\ j # Idle /\ j.alone => job[a].alone /\ Stage(j)'
        /\ j = Idle => own \in hit' \/ Agrees(own)'
        /\ fresh' => /\ \A k \in J : own < k
                     /\ IF j = Idle THEN Agrees(own)' ELSE j.alone
    BY Zenon DEF Joint
  <1>2. QED
    BY <1>1, AgentKeeps, ZenonT(30)

(* remove_policy_schedule removes what it has listed. *)
LEMMA RemoveKeeps ==
  ASSUME Laws, SchedInv, NEW a \in Agents, Live(a), RemoveSchedules(a)
  PROVE  SchedInv'
  <1>0. PICK o, pc, own, J : /\ o = job[a] /\ pc = AfterRemove(o) /\ own = o.id
                             /\ J = Robbed(own, o.found)
    BY Zenon
  <1>1. /\ AtWork(o) /\ own \in Ids /\ \A s \in o.found : s.owner \in Ids /\ o.id <= s.owner
        /\ o.op \in Ops
    BY <1>0, WorkFacts, Zenon DEF AtWork
  <1>2. /\ pc \in Pcs /\ (pc = "row" => o.op = "delete")
        /\ o.op = "delete" => pc = "row"
        /\ pc = "add" => /\ o.op = "reconcile" /\ o.def.enabled
                         /\ TimeBased(parse_trigger(o.def.trigger))
        /\ pc = "end" => ~(/\ o.op = "reconcile" /\ o.def.enabled
                           /\ TimeBased(parse_trigger(o.def.trigger)))
        /\ pc \in {"row", "add", "end"}
    BY <1>0, <1>1, Zenon DEF AfterRemove, Pcs, Ops
  <1>3. PICK j : j = Moved(o, pc, o.found)
    BY Zenon
  <1>4. JobOK(j) /\ j # Idle
    BY <1>1, <1>2, <1>3, MovedFacts, Zenon
  <1>5. /\ UNCHANGED <<fs, world, policies, next_id, phase, todo, made, budget, cycle,
                       due, fresh>>
        /\ scheds' = Without(o.found) /\ hit' = hit \cup J /\ o.pc = "remove"
        /\ job' = [Disturbed(J) EXCEPT ![a].pc = pc]
    BY <1>0, Zenon DEF RemoveSchedules
  <1>6. /\ J \subseteq Ids /\ own \notin J /\ \A k \in J : own < k
        /\ \A i \in Ids \ (J \cup {own}) : Mains(i)' = Mains(i)
        /\ scheds' \subseteq scheds
        /\ (\A s \in Mains(own) : Name(s) \in o.found) => Mains(own)' = {}
    BY <1>0, <1>1, <1>5, WithoutFacts, Zenon
  <1>7. job' = [Disturbed(J) EXCEPT ![a] = j]
    <2>1. Disturbed(J)[a] = o
      BY <1>0, <1>6, DisturbedFacts, SMTT(30) DEF SchedInv
    <2>2. [o EXCEPT !.pc = pc] = j
      BY <1>1, <1>3, MovedIs, Zenon
    <2>3. job' = [Disturbed(J) EXCEPT ![a] = [o EXCEPT !.pc = pc]]
      BY <1>5, <2>1, Zenon
    <2>4. QED
      BY <2>2, <2>3, Zenon
  <1>8. TypeOK'
    BY <1>5, <1>6, Zenon DEF SchedInv, TypeOK
  <1>9. j.id = own /\ j.op = o.op /\ j.alone = o.alone /\ j.def = o.def /\ j.pc = pc
    BY <1>0, <1>3, Zenon DEF Moved
  <1>10. ASSUME o.alone PROVE Stage(j)'
    <2>1. Footing(o)' /\ Stage(o)
      BY <1>0, <1>5, <1>10, FootingKeeps, Zenon
    <2>2. Mains(own)' = {}
      BY <1>0, <1>5, <1>6, <2>1, Zenon DEF Stage
    <2>3. ASSUME pc = "end" PROVE Agrees(own)'
      <3>1. o.op # "delete" /\ policies'[own] = o.def
        BY <1>0, <1>2, <2>1, <2>3, Zenon DEF Footing
      <3>2. Wanted(own)' = {}
        <4>1. CASE o.op = "reconcile"
          BY <1>2, <2>3, <3>1, <4>1, Zenon DEF Wanted, Enabled
        <4>2. CASE o.op = "reject"
          BY <2>1, <3>1, <4>2, Zenon DEF Wanted, Footing
        <4>3. QED
          BY <1>1, <3>1, <4>1, <4>2, Zenon DEF Ops
      <3>3. QED
        BY <2>2, <3>2, NoneAgrees, Zenon DEF Agrees
    <2>4. QED
      BY <1>0, <1>2, <1>9, <2>1, <2>2, <2>3, Zenon DEF Stage, Footing
  <1>11. fresh' => j.alone
    BY <1>0, <1>5, <1>9, PhaseFacts, Zenon DEF SchedInv, Booted
  <1>12. Joint(a, own, J, j)
    BY <1>0, <1>4, <1>5, <1>6, <1>7, <1>8, <1>9, <1>10, <1>11, Zenon DEF Joint
  <1>13. QED
    BY <1>12, JointKeeps, Zenon

(* Changing a field of the record of an agent. *)
Job(i, op, pc, def, found, alone) ==
  [id |-> i, op |-> op, pc |-> pc, def |-> def, found |-> found, alone |-> alone]

(* The record that results. *)
LEMMA RecordFacts ==
  ASSUME NEW i, NEW op, NEW pc, NEW d, NEW f, NEW x, NEW y
  PROVE  /\ [Job(i, op, pc, d, f, x) EXCEPT !.alone = y] = Job(i, op, pc, d, f, y)
         /\ [Job(i, op, pc, d, f, x) EXCEPT !.pc = y] = Job(i, op, y, d, f, x)
  BY SMTT(30) DEF Job

(* A scheduler call fails half-way. *)
LEMMA FailureKeeps ==
  ASSUME SchedInv, NEW a \in Agents, Live(a), SchedulerFails(a)
  PROVE  SchedInv'
  <1>0. PICK R \in SUBSET job[a].found :
          /\ scheds' = Without(R)
          /\ LET I == {job[a].id} \cup Robbed(job[a].id, R)
             IN  /\ hit' = hit \cup I
                 /\ job' = [Disturbed(I) EXCEPT
                              ![a] = IF @.op = "delete"
                                       THEN [@ EXCEPT !.pc = "row", !.alone = FALSE]
                                       ELSE Idle]
    BY Zenon DEF SchedulerFails
  <1>1. PICK o, own, J, pc : /\ o = job[a] /\ own = o.id /\ J = {own} \cup Robbed(own, R)
                             /\ pc = "row" /\ pc \in Pcs
    BY Zenon DEF Pcs
  <1>2. /\ AtWork(o) /\ own \in Ids /\ \A s \in o.found : s.owner \in Ids /\ o.id <= s.owner
        /\ o = [id |-> o.id, op |-> o.op, pc |-> o.pc, def |-> o.def, found |-> o.found,
                alone |-> o.alone]
    BY <1>1, WorkFacts, Zenon DEF AtWork
  <1>3. /\ UNCHANGED <<fs, world, policies, next_id, phase, todo, made, cycle, due>>
        /\ scheds' = Without(R) /\ hit' = hit \cup J
        /\ fresh' = FALSE /\ budget > 0 /\ budget' = budget - 1
        /\ job' = [Disturbed(J) EXCEPT
                     ![a] = IF @.op = "delete"
                              THEN [@ EXCEPT !.pc = "row", !.alone = FALSE] ELSE Idle]
    BY <1>0, <1>1, ZenonT(30) DEF SchedulerFails
  <1>4. /\ J \subseteq Ids /\ own \in J
        /\ \A i \in Ids \ (J \cup {own}) : Mains(i)' = Mains(i)
        /\ scheds' \subseteq scheds
    <2>1. \A s \in R : s.owner \in Ids
      BY <1>1, <1>2, Zenon
    <2>2. /\ Robbed(own, R) \subseteq Ids
          /\ \A i \in Ids \ (Robbed(own, R) \cup {own}) : Mains(i)' = Mains(i)
          /\ scheds' \subseteq scheds
      BY <1>3, <2>1, WithoutFacts, Zenon
    <2>3. QED
      BY <1>1, <1>2, <2>2, Zenon
  <1>5. PICK p, d, x, f, no, row :
          /\ no = FALSE /\ row = "row" /\ f = o.found /\ o = Job(own, o.op, p, d, f, x)
    BY <1>1, <1>2, ZenonT(30) DEF Job
  <1>50. PICK op : op = o.op /\ o = Job(own, op, p, d, f, x)
    BY <1>5, Zenon
  <1>51. PICK m, k : m = Job(own, op, p, d, f, no) /\ k = Job(own, op, row, d, f, no)
    BY Zenon
  <1>6. Disturbed(J)[a] = m
    <2>1. Disturbed(J)[a] = [o EXCEPT !.alone = no]
      BY <1>1, <1>4, <1>5, Zenon DEF Disturbed, Live
    <2>2. [Job(own, op, p, d, f, x) EXCEPT !.alone = no] = Job(own, op, p, d, f, no)
      BY RecordFacts, SMTT(30)
    <2>3. QED
      BY <1>50, <1>51, <2>1, <2>2, Zenon
  <1>7. PICK j : j = IF o.op = "delete" THEN k ELSE Idle
    BY Zenon
  <1>8. job' = [Disturbed(J) EXCEPT ![a] = j]
    <2>1. [[m EXCEPT !.pc = row] EXCEPT !.alone = no] = k
      <3>1. [m EXCEPT !.pc = row] = k
        <4>1. [Job(own, op, p, d, f, no) EXCEPT !.pc = row] = Job(own, op, row, d, f, no)
          BY DEF Job
        <4>2. QED
          BY <1>51, <4>1, Zenon
      <3>2. [k EXCEPT !.alone = no] = k
        BY <1>51, RecordFacts
      <3>3. QED
        BY <3>1, <3>2, Zenon
    <2>2. m.op = o.op
      BY <1>50, <1>51, Zenon DEF Job
    <2>3. job' = [Disturbed(J) EXCEPT
                     ![a] = IF m.op = "delete"
                              THEN [m EXCEPT !.pc = row, !.alone = no] ELSE Idle]
      BY <1>3, <1>5, <1>6, Zenon
    <2>4. QED
      BY <1>7, <2>1, <2>2, <2>3, Zenon
  <1>9. /\ JobOK(j) /\ (j # Idle => j.id = own /\ j.op = o.op /\ j.alone = FALSE)
    <2>1. CASE o.op = "delete"
      <3>1. /\ k.id = own /\ k.op = op /\ k.alone = no /\ k.pc = row /\ k.found = f
            /\ k = [id |-> k.id, op |-> k.op, pc |-> k.pc, def |-> k.def,
                    found |-> k.found, alone |-> k.alone]
        BY <1>51, ZenonT(30) DEF Job
      <3>2. k.alone = FALSE /\ k.alone \in BOOLEAN /\ k.op = "delete" /\ k.op \in Ops
        BY <1>5, <1>50, <2>1, <3>1, Zenon DEF Ops
      <3>3. k.pc \in Pcs /\ k.id \in Ids /\ \A s \in k.found : s.owner \in Ids /\ k.id <= s.owner
        BY <1>1, <1>2, <1>5, <3>1, Zenon DEF Pcs
      <3>4. JobOK(k)
        BY <3>1, <3>2, <3>3, Zenon DEF JobOK
      <3>5. QED
        BY <1>7, <2>1, <3>1, <3>2, <3>4, Zenon
    <2>2. CASE o.op # "delete"
      BY <1>7, <2>2, Zenon DEF JobOK
    <2>3. QED
      BY <2>1, <2>2, ZenonT(30)
  <1>10. TypeOK'
    <2>1. budget' \in 0..Budget
      BY <1>3, ScheduleAssumption DEF SchedInv, TypeOK
    <2>2. QED
      BY <1>3, <1>4, <2>1, ZenonT(30) DEF SchedInv, TypeOK
  <1>11. Joint(a, own, J, j)
    BY <1>1, <1>3, <1>4, <1>8, <1>9, <1>10, Zenon DEF Joint
  <1>12. QED
    BY <1>11, JointKeeps, Zenon

-----------------------------------------------------------------------------
(* An agent turns to a policy                                              *)

(* Agent a, which was idle, turns to policy i; the rows of the other       *)
(* policies stay as they are.                                              *)
Turns(a, i, op, def) ==
  /\ ~Live(a) /\ Begins(a, i, op, def)
  /\ UNCHANGED <<fs, scheds, phase, hit>>
  /\ \A k \in Ids \ {i} : policies'[k] = policies[k] /\ (Waits(k)' <=> Waits(k))
  /\ op # "delete" => policies'[i] = def /\ def # None
  /\ op = "reconcile" => Fits(def)
  /\ op = "reject" => ~Fits(def)

(* It is alone if nobody else works on the policy, and whoever does is no  *)
(* longer alone.                                                           *)
LEMMA TurnsKeeps ==
  ASSUME SchedInv, NEW a \in Agents, NEW i \in Ids, NEW op \in Ops, NEW def,
         Turns(a, i, op, def)
  PROVE  /\ job' = [b \in Agents |-> job'[b]] /\ \A b \in Agents : JobOK(job'[b])
         /\ Live(a)' /\ job'[a].id = i /\ job'[a].op = op
         /\ job'[a].alone <=> InFlight(i) = {}
         /\ \A b \in Agents \ {a} : Live(b)' <=> Live(b)
         /\ \A k \in Ids \ {i} : InFlight(k)' = InFlight(k) /\ (Agrees(k)' <=> Agrees(k))
         /\ a \in InFlight(i)'
         /\ Alone' /\ Right'
  <1>0. PICK x, j : /\ x = (InFlight(i) = {})
                    /\ j = [id |-> i, op |-> op, pc |-> "list", def |-> def, found |-> {},
                            alone |-> x]
    BY ZenonT(30)
  <1>1. /\ j.id = i /\ j.op = op /\ j.pc = "list" /\ j.def = def /\ j.found = {} /\ j.alone = x
        /\ x \in BOOLEAN
    BY <1>0, Zenon
  <1>2. JobOK(j) /\ j # Idle
    BY <1>0, <1>1, ZenonT(30) DEF JobOK, Idle, Pcs
  <1>3. job' = [Disturbed({i}) EXCEPT ![a] = j]
    BY <1>0, ZenonT(30) DEF Turns, Begins, Turn
  <1>4. /\ job'[a] = j /\ \A b \in Agents \ {a} : job'[b] = Disturbed({i})[b]
        /\ job' = [b \in Agents |-> job'[b]]
    <2>1. Disturbed({i}) = [b \in Agents |-> Disturbed({i})[b]]
      BY Zenon DEF Disturbed
    <2>2. QED
      BY <1>3, <2>1, Zenon
  <1>5. \A b \in Agents \ {a} :
          /\ JobOK(job'[b]) /\ (Live(b)' <=> Live(b))
          /\ Live(b) => /\ job'[b].id = job[b].id
                        /\ job'[b].alone => job'[b] = job[b] /\ job[b].id \notin {i}
    BY <1>4, DisturbedFacts DEF SchedInv, Live
  <1>6. Live(a)' /\ job'[a].id = i /\ job'[a].op = op
    BY <1>1, <1>2, <1>4, Zenon DEF Live
  <1>7. job'[a].alone <=> InFlight(i) = {}
    BY <1>0, <1>1, <1>4, ZenonT(30)
  <1>8. \A k \in Ids \ {i} : Mains(k)' = Mains(k) /\ policies'[k] = policies[k]
    BY Zenon DEF Turns, Mains
  <1>9. PICK I : I = {i}
    BY Zenon
  <1>10. /\ \A k \in Ids \ I : /\ InFlight(k)' = InFlight(k)
                               /\ Agrees(k)' <=> Agrees(k)
                               /\ Row(k)' = Row(k)
         /\ \A b \in Agents \ {a} :
              Live(b)' /\ job'[b].alone => InFlight(job[b].id)' = {b} /\ Stage(job[b])'
    <2>1. fs' = fs /\ (Live(a) => job[a].id \in I) /\ (Live(a)' => job'[a].id \in I)
      BY <1>6, <1>9, Zenon DEF Turns
    <2>2. /\ \A k \in Ids \ I : Mains(k)' = Mains(k) /\ policies'[k] = policies[k]
          /\ \A b \in Agents \ {a} :
               /\ Live(b)' <=> Live(b)
               /\ Live(b) => /\ job'[b].id = job[b].id
                             /\ job'[b].alone => job'[b] = job[b] /\ job[b].id \notin I
      BY <1>5, <1>8, <1>9, ZenonT(30)
    <2>3. QED
      BY <2>1, <2>2, OthersKeep, ZenonT(30)
  <1>11. a \in InFlight(i)'
    BY <1>6, Zenon DEF InFlight, Live
  <1>12. Alone'
    <2> SUFFICES ASSUME NEW b \in Agents, Live(b)', job'[b].alone
                 PROVE  InFlight(job[b].id)' = {b} /\ Stage(job[b])'
      BY Zenon DEF Alone
    <2>1. CASE b # a
      BY <1>10, <2>1, Zenon
    <2>2. CASE b = a
      <3>1. InFlight(i) = {}
        BY <1>7, <2>2, Zenon
      <3>2. InFlight(i)' = {a}
        <4>1. \A c \in Agents : Live(c)' /\ job'[c].id = i => c = a
          BY <1>5, <3>1, Zenon DEF InFlight, Live
        <4>2. QED
          BY <1>11, <4>1, Zenon DEF InFlight, Live
      <3>3. Stage(j)'
        <4>1. /\ op # "delete" => policies'[i] = def /\ def # None
              /\ op = "reconcile" => Fits(def)'
              /\ op = "reject" => ~Fits(def)'
          BY ZenonT(30) DEF Turns, Fits
        <4>2. QED
          BY <1>1, <4>1, ZenonT(30) DEF Stage
      <3>4. QED
        BY <1>4, <1>6, <2>2, <3>2, <3>3, Zenon
    <2>3. QED
      BY <2>1, <2>2, Zenon
  <1>13. Right'
    <2> SUFFICES ASSUME NEW k \in Ids \ hit', InFlight(k)' = {},
                        Enabled(policies[k])' => phase' # "down" /\ ~Waits(k)'
                 PROVE  Agrees(k)'
      BY Zenon DEF Right
    <2>1. k # i
      BY <1>11, Zenon
    <2>2. /\ k \in Ids \ hit /\ InFlight(k) = {} /\ (Agrees(k)' <=> Agrees(k))
          /\ Enabled(policies[k]) => phase # "down" /\ ~Waits(k)
      BY <1>9, <1>10, <2>1, Zenon DEF Turns
    <2>3. QED
      BY <2>2, Zenon DEF SchedInv, Right
  <1>14. QED
    BY <1>2, <1>4, <1>5, <1>6, <1>7, <1>9, <1>10, <1>11, <1>12, <1>13, Zenon

(* A definition that is accepted has a name. *)
LEMMA AcceptedFacts ==
  ASSUME NEW def, Accepted(def)
  PROVE  def # None /\ Fits(def)
  <1>1. def.name # "" /\ Fits(def)
    BY Zenon DEF Accepted, validate_policy
  <1>2. None.name = ""
    BY Zenon DEF None
  <1>3. QED
    BY <1>1, <1>2, Zenon

(* create_policy, update_policy and delete_policy. *)
LEMMA HandlerKeeps ==
  ASSUME SchedInv, Handler
  PROVE  SchedInv'
  <1>1. PICK n \in Reqs :
          \/ \E def \in world.defs : create_policy(n, def)
          \/ \E def \in world.defs, i \in Ids : update_policy(n, i, def)
          \/ \E i \in Ids : delete_policy(n, i)
          \/ \E i \in Ids, t \in world.targets : run_policy_now(n, i, t)
          \/ Refused(n)
    BY Zenon DEF Handler
  <1>2. CASE Refused(n) \/ \E i \in Ids, t \in world.targets : run_policy_now(n, i, t)
    BY <1>2, RunNowKeeps, Zenon
  <1>3. CASE \/ \E def \in world.defs : create_policy(n, def)
             \/ \E def \in world.defs, i \in Ids : update_policy(n, i, def)
             \/ \E i \in Ids : delete_policy(n, i)
    <2>0. /\ phase = "running" /\ n = made + 1 /\ made' = n /\ fresh' = FALSE
          /\ UNCHANGED <<fs, world, scheds, phase, todo, budget, cycle, due, hit>>
          /\ TypeOK /\ Shapes /\ todo = {} /\ ~Live(Boot)
      BY <1>3, ZenonT(30) DEF create_policy, update_policy, delete_policy, Request, SchedInv, Shapes
    <2>1. n \in Agents /\ made \in Nat /\ ~Live(n)
      BY <2>0, ScheduleAssumption DEF Agents, Reqs, TypeOK, Shapes
    <2>2. PICK i \in Ids, op \in Ops, def \in world.defs \cup {None} :
            /\ Begins(n, i, op, def) /\ policies' \in [Ids -> world.defs \cup Range(world.stored) \cup {None}]
            /\ \A k \in Ids \ {i} : policies'[k] = policies[k]
            /\ op = "delete" => policies' = policies
            /\ op # "delete" => policies'[i] = def /\ def # None
            /\ op = "reconcile" => Fits(def)
            /\ op # "reject"
            /\ next_id' \in 1..(MaxId + 1)
            /\ \A k \in Ids : k >= next_id' => policies'[k] = None
      <3>1. CASE \E def \in world.defs : create_policy(n, def)
        <4>1. PICK def \in world.defs : create_policy(n, def)
          BY <3>1, Zenon
        <4>2. /\ next_id \in Ids /\ policies' = [policies EXCEPT ![next_id] = def]
              /\ next_id' = next_id + 1 /\ Begins(n, next_id, "reconcile", def) /\ Accepted(def)
          BY <4>1, Zenon DEF create_policy, StoreCreate
        <4>3. def # None /\ Fits(def)
          BY <4>2, AcceptedFacts, Zenon
        <4>4. policies \in [Ids -> world.defs \cup Range(world.stored) \cup {None}]
          BY <2>0, Zenon DEF TypeOK
        <4>5. PICK i \in Ids : i = next_id
          BY <4>2, Zenon
        <4>6. /\ policies' \in [Ids -> world.defs \cup Range(world.stored) \cup {None}]
              /\ policies'[i] = def /\ \A k \in Ids \ {i} : policies'[k] = policies[k]
          BY <4>2, <4>4, <4>5, Zenon
        <4>7. /\ next_id' \in 1..(MaxId + 1)
              /\ \A k \in Ids : k >= next_id' => policies'[k] = None
          BY <2>0, <4>2, <4>5, <4>6, ScheduleAssumption, SMTT(30) DEF TypeOK, Ids
        <4>8. PICK op \in Ops : op = "reconcile"
          BY Zenon DEF Ops
        <4>9. Begins(n, i, op, def)
          BY <4>2, <4>5, <4>8, Zenon
        <4>10. QED
          BY <4>3, <4>6, <4>7, <4>8, <4>9, Zenon
      <3>2. CASE \E def \in world.defs, i \in Ids : update_policy(n, i, def)
        <4>1. PICK def \in world.defs, i \in Ids : update_policy(n, i, def)
          BY <3>2, Zenon
        <4>2. /\ policies[i] # None /\ policies' = [policies EXCEPT ![i] = def]
              /\ next_id' = next_id /\ Begins(n, i, "reconcile", def) /\ Accepted(def)
          BY <4>1, Zenon DEF update_policy, StoreUpdate
        <4>3. def # None /\ Fits(def)
          BY <4>2, AcceptedFacts, Zenon
        <4>4. policies \in [Ids -> world.defs \cup Range(world.stored) \cup {None}]
          BY <2>0, Zenon DEF TypeOK
        <4>5. /\ policies' \in [Ids -> world.defs \cup Range(world.stored) \cup {None}]
              /\ policies'[i] = def /\ \A k \in Ids \ {i} : policies'[k] = policies[k]
          BY <4>2, <4>4, Zenon
        <4>6. /\ next_id' \in 1..(MaxId + 1)
              /\ \A k \in Ids : k >= next_id' => policies'[k] = None
          BY <2>0, <4>2, <4>5, Zenon DEF TypeOK
        <4>7. PICK op \in Ops : op = "reconcile"
          BY Zenon DEF Ops
        <4>8. Begins(n, i, op, def)
          BY <4>2, <4>7, ZenonT(30)
        <4>9. QED
          BY <4>3, <4>5, <4>6, <4>7, <4>8, Zenon
      <3>3. CASE \E i \in Ids : delete_policy(n, i)
        <4>1. PICK i \in Ids : delete_policy(n, i)
          BY <3>3, Zenon
        <4>2. Begins(n, i, "delete", None) /\ policies' = policies /\ next_id' = next_id
          BY <4>1, Zenon DEF delete_policy
        <4>3. PICK op \in Ops : op = "delete"
          BY Zenon DEF Ops
        <4>4. Begins(n, i, op, None)
          BY <4>2, <4>3, Zenon
        <4>5. QED
          BY <2>0, <4>2, <4>3, <4>4, Zenon DEF TypeOK
      <3>4. QED
        BY <1>3, <3>1, <3>2, <3>3, Zenon
    <2>3. Turns(n, i, op, def)
      BY <2>0, <2>1, <2>2, Zenon DEF Turns, Waits
    <2>4. /\ job' = [b \in Agents |-> job'[b]] /\ \A b \in Agents : JobOK(job'[b])
          /\ \A b \in Agents \ {n} : Live(b)' <=> Live(b)
          /\ Alone' /\ Right'
      BY <2>1, <2>3, TurnsKeeps, Zenon
    <2>5. TypeOK'
      <3>1. made' \in 0..MaxReq
        BY <2>0, ScheduleAssumption, SMTT(30) DEF Reqs
      <3>2. QED
        BY <2>0, <2>2, <3>1, Zenon DEF TypeOK
    <2>6. Shapes'
      <3>1. \A k \in Reqs : made' < k => ~Live(k)'
        <4>1. ASSUME NEW k \in Reqs, made' < k PROVE ~Live(k)'
          <5>1. k # n /\ k \in Agents /\ made < k
            BY <2>0, <2>1, <4>1, ScheduleAssumption, SMTT(30) DEF Reqs, Agents
          <5>2. ~Live(k)
            BY <2>0, <5>1, Zenon DEF Shapes
          <5>3. QED
            BY <2>4, <5>1, <5>2, Zenon
        <4>2. QED
          BY <4>1, Zenon
      <3>2. ~Live(Boot)'
        BY <2>0, <2>4, PhaseFacts, Zenon
      <3>3. \A r \in cycle' : r.id \in Ids /\ decode_threshold(parse_trigger(r.def.trigger)) # Pass
        BY <2>0, Zenon DEF Shapes
      <3>4. QED
        BY <2>0, <2>4, <3>1, <3>2, <3>3, Zenon DEF Shapes
    <2>7. Booted'
      BY <2>0, Zenon DEF Booted
    <2>8. QED
      BY <2>4, <2>5, <2>6, <2>7, Zenon DEF SchedInv
  <1>4. QED
    BY <1>1, <1>2, <1>3, Zenon

-----------------------------------------------------------------------------
(* Start and stop of the daemon                                            *)

(* A policy that is not enabled wants no schedule, on any filesystem. *)
LEMMA DisabledAgrees ==
  ASSUME NEW i, Mains(i)' = Mains(i), policies'[i] = policies[i], ~Enabled(policies[i]), Agrees(i)
  PROVE  Agrees(i)'
  <1>1. Wanted(i) = {} /\ Wanted(i)' = {}
    BY Zenon DEF Wanted
  <1>2. QED
    BY <1>1, Zenon DEF Agrees

(* The daemon starts and lists the policies, or fails to. *)
LEMMA StartKeeps ==
  ASSUME SchedInv, Start
  PROVE  SchedInv'
  <1>0. /\ phase = "down" /\ phase' = "boot" /\ fs' \in Filesystems
        /\ UNCHANGED <<world, policies, next_id, scheds, job, made, cycle, due>>
        /\ TypeOK /\ Shapes /\ Right
        /\ \/ todo' = Listed /\ fresh' = TRUE /\ UNCHANGED <<budget, hit>>
           \/ budget > 0 /\ budget' = budget - 1 /\ todo' = {} /\ fresh' = FALSE /\ hit' = Ids
    BY Zenon DEF Start, SchedInv
  <1>1. /\ \A a \in Agents : ~Live(a) /\ ~Live(a)'
        /\ cycle = {} /\ cycle' = {} /\ Reqs \subseteq Agents /\ Boot \in Agents
    BY <1>0, PhaseFacts, Zenon DEF Shapes, Live
  <1>2. \A i \in Ids : /\ InFlight(i) = {} /\ InFlight(i)' = {}
                       /\ Mains(i)' = Mains(i) /\ Row(i)' = Row(i)
    BY <1>0, <1>1, Zenon DEF InFlight, Live, Mains, Row
  <1>3. TypeOK'
    <2>1. budget' \in 0..Budget
      BY <1>0, ScheduleAssumption DEF TypeOK
    <2>2. hit' \subseteq Ids /\ fresh' \in BOOLEAN
      BY <1>0, Zenon DEF TypeOK
    <2>3. QED
      BY <1>0, <2>1, <2>2, Zenon DEF TypeOK
  <1>4. Shapes'
    <2>1. \A r \in todo' : r = Row(r.id)' /\ r.id \in Ids /\ r.def # None
      <3>1. ASSUME NEW r \in todo' PROVE r = Row(r.id)' /\ r.id \in Ids /\ r.def # None
        <4>1. PICK i \in Ids : r = Row(i) /\ policies[i] # None
          BY <1>0, Zenon DEF Listed
        <4>2. r.id = i /\ r.def = policies[i]
          BY <4>1, Zenon DEF Row
        <4>3. QED
          BY <1>0, <4>1, <4>2, Zenon DEF Row
      <3>2. QED
        BY <3>1, Zenon
    <2>2. job' = [a \in Agents |-> job'[a]] /\ \A a \in Agents : JobOK(job'[a])
      BY <1>0, Zenon DEF Shapes
    <2>3. QED
      BY <1>0, <1>1, <2>1, <2>2, Zenon DEF Shapes
  <1>5. Alone'
    BY <1>1, Zenon DEF Alone
  <1>6. todo' = Listed => \A i \in Ids : policies'[i] # None => Waits(i)'
    BY <1>0, <1>2, Zenon DEF Listed, Waits
  <1>7. Right'
    <2> SUFFICES ASSUME NEW i \in Ids \ hit', Enabled(policies[i])' => ~Waits(i)'
                 PROVE  Agrees(i)'
      BY Zenon DEF Right
    <2>1. todo' = Listed /\ hit' = hit
      BY <1>0, Zenon
    <2>2. ~Enabled(policies[i])
      BY <1>0, <1>6, <2>1, Zenon DEF Enabled
    <2>3. Agrees(i)
      BY <1>0, <1>2, <2>1, <2>2, Zenon DEF Right
    <2>4. policies'[i] = policies[i]
      BY <1>0, Zenon
    <2>5. QED
      BY <1>2, <2>2, <2>3, <2>4, DisabledAgrees, Zenon
  <1>8. Booted'
    <2> SUFFICES ASSUME fresh' PROVE Booted'
      BY Zenon DEF Booted
    <2>1. \A i \in Ids : policies'[i] # None => Waits(i)'
      BY <1>0, <1>6, Zenon
    <2>2. \A i \in Ids : Enabled(policies[i])' => Waits(i)'
      BY <2>1, Zenon DEF Enabled
    <2>3. ~Live(Boot)'
      BY <1>1, Zenon
    <2>4. QED
      BY <2>1, <2>2, <2>3, Zenon DEF Booted
  <1>9. QED
    BY <1>3, <1>4, <1>5, <1>7, <1>8, Zenon DEF SchedInv

(* reconcile_all_policies turns to the next policy, or passes it over. *)
LEMMA BootNextKeeps ==
  ASSUME Laws, SchedInv, BootNext
  PROVE  SchedInv'
  <1>0. /\ phase = "boot" /\ job[Boot] = Idle /\ todo # {}
        /\ UNCHANGED <<fs, world, policies, next_id, scheds, phase, made, budget, cycle,
                       due, fresh, hit>>
        /\ TypeOK /\ Shapes /\ Alone /\ Right /\ Booted
    BY Zenon DEF BootNext, SchedInv
  <1>1. /\ \A a \in Agents : ~Live(a)
        /\ Boot \in Agents /\ Reqs \subseteq Agents /\ Agents = {Boot} \cup Reqs
    BY <1>0, PhaseFacts, Zenon DEF Live
  <1>2. PICK r : r = Foremost(todo)
    BY Zenon
  <1>3. PICK i : i = r.id
    BY Zenon
  <1>4. /\ r \in todo /\ \A q \in todo : r.id <= q.id
        /\ r = Row(i) /\ i \in Ids /\ r.def = policies[i] /\ policies[i] # None
    <2>1. \A q \in todo : q.id \in Nat
      BY <1>0, ScheduleAssumption DEF Shapes, Ids
    <2>2. r \in todo /\ \A q \in todo : r.id <= q.id
      BY <1>0, <1>2, <2>1, ForemostFacts, Zenon
    <2>3. r = Row(i) /\ i \in Ids /\ r.def # None
      BY <1>0, <1>3, <2>2, Zenon DEF Shapes
    <2>4. QED
      BY <2>2, <2>3, Zenon DEF Row
  <1>5. /\ todo' = todo \ {r}
        /\ IF Enabled(r.def)
             THEN Begins(Boot, r.id, IF Fits(r.def) THEN "reconcile" ELSE "reject", r.def)
             ELSE UNCHANGED job
    BY <1>2, Zenon DEF BootNext
  <1>6. \A k \in Ids : /\ Row(k)' = Row(k) /\ Mains(k)' = Mains(k)
                       /\ Waits(k) => i <= k
                       /\ Waits(k)' <=> Waits(k) /\ k # i
                       /\ InFlight(k) = {}
    <2>1. ASSUME NEW k \in Ids
          PROVE  Row(k)' = Row(k) /\ Mains(k)' = Mains(k) /\ Row(k).id = k /\ InFlight(k) = {}
      BY <1>0, <1>1, ZenonT(30) DEF Row, Mains, InFlight, Live
    <2>2. ASSUME NEW k \in Ids
          PROVE  /\ Waits(k) => i <= k
                 /\ Waits(k)' <=> Waits(k) /\ k # i
      <3>1. Row(k) = r <=> k = i
        BY <1>3, <1>4, <2>1, Zenon
      <3>2. QED
        BY <1>3, <1>4, <1>5, <2>1, <3>1, Zenon DEF Waits
    <2>3. QED
      BY <2>1, <2>2, Zenon
  <1>7. TypeOK'
    BY <1>0, ZenonT(30) DEF TypeOK
  <1>8. \A q \in todo' : q = Row(q.id)' /\ q.id \in Ids /\ q.def # None
    BY <1>0, <1>5, <1>6, Zenon DEF Shapes
  <1>9. fresh => \A k \in Ids : i < k /\ policies[k] # None => Waits(k)
    BY <1>0, <1>4, Zenon DEF Booted, Waits
  <1>10. CASE Enabled(r.def)
    <2>1. PICK op \in Ops : op = IF Fits(r.def) THEN "reconcile" ELSE "reject"
      BY Zenon DEF Ops
    <2>2. Turns(Boot, i, op, r.def)
      <3>1. Begins(Boot, i, op, r.def) /\ ~Live(Boot)
        BY <1>1, <1>3, <1>5, <1>10, <2>1, Zenon
      <3>2. policies'[i] = r.def /\ r.def # None
        BY <1>0, <1>4, ZenonT(30)
      <3>3. QED
        BY <1>0, <1>6, <2>1, <3>1, <3>2, Zenon DEF Turns
    <2>3. /\ job' = [b \in Agents |-> job'[b]] /\ \A b \in Agents : JobOK(job'[b])
          /\ Live(Boot)' /\ job'[Boot].id = i /\ job'[Boot].op = op
          /\ job'[Boot].alone <=> InFlight(i) = {}
          /\ \A b \in Agents \ {Boot} : Live(b)' <=> Live(b)
          /\ \A k \in Ids \ {i} : InFlight(k)' = InFlight(k) /\ (Agrees(k)' <=> Agrees(k))
          /\ Boot \in InFlight(i)'
          /\ Alone' /\ Right'
      BY <1>1, <1>4, <2>2, TurnsKeeps, Zenon
    <2>4. Shapes'
      <3>1. \A n \in Reqs : ~Live(n)'
        BY <1>1, <2>3, PhaseFacts, Zenon
      <3>2. op # "delete"
        BY <2>1, Zenon
      <3>3. \A q \in cycle' : q.id \in Ids /\ decode_threshold(parse_trigger(q.def.trigger)) # Pass
        BY <1>0, Zenon DEF Shapes
      <3>4. cycle' = {} /\ phase' = "boot"
        BY <1>0, Zenon DEF Shapes
      <3>5. QED
        BY <1>8, <2>3, <3>1, <3>2, <3>3, <3>4, Zenon DEF Shapes
    <2>5. Booted'
      <3> SUFFICES ASSUME fresh' PROVE Booted'
        BY Zenon DEF Booted
      <3>1. fresh /\ policies' = policies
        BY <1>0, Zenon
      <3>2. ASSUME NEW k \in Ids, Enabled(policies[k])', ~Waits(k)', InFlight(k)' = {}
            PROVE  Agrees(k)'
        <4>1. k # i
          BY <2>3, <3>2, Zenon
        <4>2. Enabled(policies[k]) /\ ~Waits(k) /\ InFlight(k) = {}
          BY <1>6, <3>1, <3>2, <4>1, Zenon
        <4>3. Agrees(k)
          BY <1>0, <3>1, <4>2, Zenon DEF Booted
        <4>4. QED
          BY <2>3, <4>1, <4>3, Zenon
      <3>3. ASSUME NEW k \in Ids, i < k, policies'[k] # None PROVE Waits(k)'
        <4>1. Waits(k) /\ k # i
          BY <1>4, <1>9, <3>1, <3>3, ScheduleAssumption DEF Ids
        <4>2. QED
          BY <1>6, <4>1, Zenon
      <3>4. \A l, k \in Ids : Waits(l)' /\ l < k /\ policies'[k] # None => Waits(k)'
        <4>1. ASSUME NEW l \in Ids, NEW k \in Ids, Waits(l)', l < k, policies'[k] # None
              PROVE  Waits(k)'
          <5>1. i <= l
            BY <1>6, <4>1, Zenon
          <5>2. i < k
            BY <1>4, <4>1, <5>1, ScheduleAssumption, SMTT(30) DEF Ids
          <5>3. QED
            BY <3>3, <4>1, <5>2, Zenon
        <4>2. QED
          BY <4>1, Zenon
      <3>5. job'[Boot].alone
        BY <1>4, <1>6, <2>3, Zenon
      <3>6. QED
        BY <2>3, <3>2, <3>3, <3>4, <3>5, Zenon DEF Booted
    <2>6. QED
      BY <1>7, <2>3, <2>4, <2>5, Zenon DEF SchedInv
  <1>11. CASE ~Enabled(r.def)
    <2>1. job' = job
      BY <1>5, <1>11, Zenon
    <2>2. \A a \in Agents : ~Live(a)'
      BY <1>1, <2>1, Zenon DEF Live
    <2>3. \A k \in Ids : (Agrees(k)' <=> Agrees(k)) /\ InFlight(k)' = {}
      <3>1. fs' = fs /\ policies' = policies
        BY <1>0, Zenon
      <3>2. \A k \in Ids : Agrees(k)' <=> Agrees(k)
        BY <1>6, <3>1, AgreesSame, Zenon
      <3>3. QED
        BY <2>2, <3>2, Zenon DEF InFlight, Live
    <2>4. Shapes'
      <3>1. job' = [a \in Agents |-> job'[a]] /\ \A a \in Agents : JobOK(job'[a])
        BY <1>0, <2>1, Zenon DEF Shapes
      <3>2. cycle' = {} /\ phase' = "boot"
        BY <1>0, Zenon DEF Shapes
      <3>3. QED
        BY <1>1, <1>8, <2>2, <3>1, <3>2, Zenon DEF Shapes
    <2>5. Alone'
      BY <2>2, Zenon DEF Alone
    <2>6. Right'
      <3> SUFFICES ASSUME NEW k \in Ids \ hit', Enabled(policies[k])' => ~Waits(k)'
                   PROVE  Agrees(k)'
        BY Zenon DEF Right
      <3>1. k \notin hit /\ (Enabled(policies[k]) => ~Waits(k))
        BY <1>0, <1>4, <1>6, <1>11, Zenon
      <3>2. Agrees(k)
        BY <1>0, <1>6, <3>1, Zenon DEF Right
      <3>3. QED
        BY <2>3, <3>2, Zenon
    <2>7. Booted'
      <3> SUFFICES ASSUME fresh' PROVE Booted'
        BY Zenon DEF Booted
      <3>1. fresh /\ policies' = policies /\ ~Live(Boot)'
        BY <1>0, <1>1, <2>2, Zenon
      <3>2. ASSUME NEW k \in Ids, Enabled(policies[k])', ~Waits(k)' PROVE Agrees(k)'
        <4>1. Enabled(policies[k]) /\ ~Waits(k)
          BY <1>4, <1>6, <1>11, <3>1, <3>2, Zenon
        <4>2. QED
          BY <1>0, <1>6, <2>3, <3>1, <4>1, Zenon DEF Booted
      <3>3. \A l, k \in Ids : Waits(l)' /\ l < k /\ policies'[k] # None => Waits(k)'
        <4>1. ASSUME NEW l \in Ids, NEW k \in Ids, Waits(l)', l < k, policies'[k] # None
              PROVE  Waits(k)'
          <5>1. i <= l
            BY <1>6, <4>1, Zenon
          <5>2. i < k /\ k # i
            BY <1>4, <4>1, <5>1, ScheduleAssumption DEF Ids
          <5>3. QED
            BY <1>6, <1>9, <3>1, <4>1, <5>2, Zenon
        <4>2. QED
          BY <4>1, Zenon
      <3>4. QED
        BY <3>1, <3>2, <3>3, Zenon DEF Booted
    <2>8. QED
      BY <1>7, <2>4, <2>5, <2>6, <2>7, Zenon DEF SchedInv
  <1>12. QED
    BY <1>10, <1>11, Zenon

(* reconcile_all_policies cannot read the filesystem of the next policy. *)
LEMMA BootErrsKeeps ==
  ASSUME Laws, SchedInv, BootErrs
  PROVE  SchedInv'
  <1>0. /\ phase = "boot" /\ job[Boot] = Idle /\ todo # {}
        /\ UNCHANGED <<fs, world, policies, next_id, scheds, phase, made, cycle, due>>
        /\ budget > 0 /\ budget' = budget - 1 /\ ~fresh' /\ fresh' \in BOOLEAN
        /\ TypeOK /\ Shapes /\ Right
    BY Zenon DEF BootErrs, SchedInv
  <1>1. /\ \A a \in Agents : ~Live(a)
        /\ Boot \in Agents /\ Reqs \subseteq Agents /\ Agents = {Boot} \cup Reqs
    BY <1>0, PhaseFacts, Zenon DEF Live
  <1>2. PICK r : r = Foremost(todo)
    BY Zenon
  <1>3. PICK i, j : i = r.id /\ j = Turn(i, "reject", r.def, FALSE)
    BY Zenon
  <1>4. r \in todo /\ r = Row(i) /\ i \in Ids
    <2>1. \A q \in todo : q.id \in Nat
      BY <1>0, ScheduleAssumption DEF Shapes, Ids
    <2>2. r \in todo
      BY <1>0, <1>2, <2>1, ForemostFacts, Zenon
    <2>3. QED
      BY <1>0, <1>3, <2>2, Zenon DEF Shapes
  <1>5. todo' = todo \ {r} /\ hit' = hit \cup {i} /\ job' = [job EXCEPT ![Boot] = j]
    BY <1>2, <1>3, Zenon DEF BootErrs
  <1>6. /\ JobOK(j) /\ j # Idle /\ j.id = i /\ j.op = "reject" /\ j.alone = FALSE
    BY <1>3, <1>4, ZenonT(30) DEF Turn, JobOK, Idle, Ops, Pcs
  <1>7. /\ job' = [a \in Agents |-> job'[a]] /\ \A a \in Agents : JobOK(job'[a])
        /\ job'[Boot] = j /\ \A n \in Agents \ {Boot} : ~Live(n)'
    <2>1. job = [a \in Agents |-> job[a]] /\ \A a \in Agents : JobOK(job[a])
      BY <1>0, Zenon DEF Shapes
    <2>2. QED
      BY <1>1, <1>5, <1>6, <2>1, Zenon DEF Live
  <1>8. TypeOK'
    <2>1. budget' \in 0..Budget
      BY <1>0, ScheduleAssumption DEF TypeOK
    <2>2. QED
      BY <1>0, <1>4, <1>5, <2>1, ZenonT(30) DEF TypeOK
  <1>9. Shapes'
    <2>1. \A q \in todo' : q = Row(q.id)' /\ q.id \in Ids /\ q.def # None
      BY <1>0, <1>5, Zenon DEF Shapes, Row
    <2>2. \A n \in Reqs : ~Live(n)'
      BY <1>7, PhaseFacts, Zenon
    <2>3. cycle' = {} /\ phase' = "boot"
      BY <1>0, Zenon DEF Shapes
    <2>4. QED
      BY <1>6, <1>7, <2>1, <2>2, <2>3, Zenon DEF Shapes
  <1>10. Alone'
    BY <1>6, <1>7, Zenon DEF Alone
  <1>11. Right'
    <2> SUFFICES ASSUME NEW k \in Ids \ hit', Enabled(policies[k])' => ~Waits(k)'
                 PROVE  Agrees(k)'
      BY Zenon DEF Right
    <2>1. k \notin hit /\ k # i
      BY <1>5, Zenon
    <2>2. Row(k)' = Row(k) /\ Mains(k)' = Mains(k) /\ Row(k).id = k /\ InFlight(k) = {}
      BY <1>0, <1>1, ZenonT(30) DEF Row, Mains, InFlight, Live
    <2>3. Enabled(policies[k]) => ~Waits(k)
      BY <1>0, <1>3, <1>5, <2>1, <2>2, Zenon DEF Waits
    <2>4. Agrees(k)
      BY <1>0, <2>1, <2>2, <2>3, Zenon DEF Right
    <2>5. fs' = fs /\ policies'[k] = policies[k]
      BY <1>0, Zenon
    <2>6. QED
      BY <2>2, <2>4, <2>5, AgreesSame, Zenon
  <1>12. Booted'
    BY <1>0, Zenon DEF Booted
  <1>13. QED
    BY <1>8, <1>9, <1>10, <1>11, <1>12, Zenon DEF SchedInv

(* The boot ends, and prunes the one-shot schedules that have run. *)
LEMMA BootEndsKeeps ==
  ASSUME SchedInv, BootEnds
  PROVE  SchedInv'
  <1>0. /\ phase = "boot" /\ job[Boot] = Idle /\ todo = {} /\ phase' = "running"
        /\ scheds' = scheds \ Prunable
        /\ UNCHANGED <<fs, world, policies, next_id, todo, job, made, budget, cycle, due,
                       fresh, hit>>
        /\ TypeOK /\ Shapes /\ Right /\ Booted
    BY Zenon DEF BootEnds, SchedInv
  <1>1. /\ \A a \in Agents : ~Live(a) /\ ~Live(a)'
        /\ Boot \in Agents /\ Reqs \subseteq Agents
    BY <1>0, PhaseFacts, Zenon DEF Live
  <1>2. \A i \in Ids : Mains(i)' = Mains(i)
    BY <1>0, Zenon DEF Mains, Prunable, OneShots
  <1>3. \A i \in Ids : /\ InFlight(i) = {} /\ (Agrees(i)' <=> Agrees(i))
                       /\ ~Waits(i) /\ ~Waits(i)'
    <2>1. fs' = fs /\ policies' = policies
      BY <1>0, Zenon
    <2>2. \A i \in Ids : Agrees(i)' <=> Agrees(i)
      BY <1>2, <2>1, AgreesSame, Zenon
    <2>3. QED
      BY <1>0, <1>1, <2>2, Zenon DEF InFlight, Live, Waits
  <1>4. TypeOK'
    BY <1>0, Zenon DEF TypeOK
  <1>5. Shapes'
    <2>1. job' = [a \in Agents |-> job'[a]] /\ \A a \in Agents : JobOK(job'[a])
      BY <1>0, Zenon DEF Shapes
    <2>2. cycle' = {} /\ todo' = {}
      BY <1>0, Zenon DEF Shapes
    <2>3. QED
      BY <1>0, <1>1, <2>1, <2>2, Zenon DEF Shapes
  <1>6. Alone'
    BY <1>1, Zenon DEF Alone
  <1>7. Right'
    BY <1>0, <1>3, Zenon DEF Right
  <1>8. Booted'
    BY <1>0, <1>3, Zenon DEF Booted
  <1>9. QED
    BY <1>4, <1>5, <1>6, <1>7, <1>8, Zenon DEF SchedInv

(* The daemon dies: what was in flight and what it had still to visit      *)
(* counts as disturbed.                                                    *)
LEMMA CrashKeeps ==
  ASSUME SchedInv, Crash
  PROVE  SchedInv'
  <1>0. /\ budget > 0 /\ budget' = budget - 1 /\ phase' = "down" /\ todo' = {} /\ cycle' = {}
        /\ hit' = hit \cup {job[a].id : a \in {b \in Agents : job[b] # Idle}}
                      \cup {r.id : r \in todo}
        /\ job' = [a \in Agents |-> Idle] /\ due' = [i \in Ids |-> 0]
        /\ UNCHANGED <<fs, world, policies, next_id, scheds, made, fresh>>
        /\ TypeOK /\ Shapes /\ Right
    BY Zenon DEF Crash, SchedInv
  <1>1. /\ \A a \in Agents : ~Live(a)'
        /\ Boot \in Agents /\ Reqs \subseteq Agents
    BY <1>0, PhaseFacts, Zenon DEF Live
  <1>2. hit' \subseteq Ids
    <2>1. \A a \in Agents : job[a] # Idle => job[a].id \in Ids
      BY <1>0, ZenonT(30) DEF Shapes, JobOK
    <2>2. \A r \in todo : r.id \in Ids
      BY <1>0, Zenon DEF Shapes
    <2>3. QED
      BY <1>0, <2>1, <2>2, Zenon DEF TypeOK
  <1>3. TypeOK'
    <2>1. budget' \in 0..Budget
      BY <1>0, ScheduleAssumption, SMTT(30) DEF TypeOK
    <2>2. due' \in [Ids -> 0..CheckSecs]
      BY <1>0, TriggerAssumption, SMTT(30)
    <2>3. QED
      BY <1>0, <1>2, <2>1, <2>2, Zenon DEF TypeOK
  <1>4. Shapes'
    <2>1. job' = [a \in Agents |-> job'[a]] /\ \A a \in Agents : JobOK(job'[a])
      BY <1>0, Zenon DEF JobOK
    <2>2. QED
      BY <1>0, <1>1, <2>1, Zenon DEF Shapes
  <1>5. Alone' /\ Booted'
    BY <1>0, <1>1, ZenonT(30) DEF Alone, Booted
  <1>6. Right'
    <2> SUFFICES ASSUME NEW i \in Ids \ hit', ~Enabled(policies[i])' PROVE Agrees(i)'
      BY <1>0, ZenonT(30) DEF Right
    <2>1. i \notin hit /\ InFlight(i) = {} /\ ~Enabled(policies[i])
      BY <1>0, ZenonT(30) DEF InFlight
    <2>2. Agrees(i)
      BY <1>0, <2>1, ZenonT(30) DEF Right
    <2>3. Mains(i)' = Mains(i) /\ policies'[i] = policies[i]
      BY <1>0, Zenon DEF Mains
    <2>4. QED
      BY <2>1, <2>2, <2>3, DisabledAgrees, Zenon
  <1>7. QED
    BY <1>3, <1>4, <1>5, <1>6, Zenon DEF SchedInv

-----------------------------------------------------------------------------
(* Every step keeps the invariant. *)
LEMMA SchedNext ==
  ASSUME Laws, SchedInv, [Next]_vars
  PROVE  SchedInv'
  <1>1. CASE Handler
    BY <1>1, HandlerKeeps, Zenon
  <1>2. ASSUME NEW a \in Agents, Reconcile(a) PROVE SchedInv'
    <2>1. /\ Live(a)
          /\ ListSchedules(a) \/ RemoveSchedules(a) \/ AddSchedule(a) \/ DeleteRow(a) \/ Answer(a)
      BY <1>2, Zenon DEF Reconcile, Live
    <2>2. QED
      BY <2>1, ListKeeps, RemoveKeeps, AddKeeps, DeleteRowKeeps, AnswerKeeps, Zenon
  <1>3. ASSUME NEW a \in Agents, job[a] # Idle, Fails(a) PROVE SchedInv'
    BY <1>3, FailureKeeps, DeleteFailsKeeps, Zenon DEF Live, Fails
  <1>4. CASE Daemon \/ BootErrs
    BY <1>4, StartKeeps, BootNextKeeps, BootErrsKeeps, BootEndsKeeps, Zenon DEF Daemon
  <1>5. CASE Crash
    BY <1>5, CrashKeeps, Zenon
  <1>6. CASE \/ \E i \in Ids, sort \in OneShots : RunOneShot(i, sort)
             \/ prune_threshold_schedules
    BY <1>6, OneShotKeeps, Zenon
  <1>7. CASE Checker
    BY <1>7, CheckerKeeps, Zenon
  <1>8. CASE UNCHANGED vars
    <2>1. /\ TypeOK' /\ Shapes' /\ \A i \in Ids : Mains(i)' = Mains(i)
          /\ UNCHANGED <<fs, policies, job, phase, todo, hit, fresh>>
      BY <1>8, Zenon DEF vars, SchedInv, TypeOK, Shapes, Mains, Live, Row
    <2>2. QED
      BY <2>1, QuietKeeps, Zenon
  <1>9. QED
    BY <1>1, <1>2, <1>3, <1>4, <1>5, <1>6, <1>7, <1>8, Zenon DEF Next

-----------------------------------------------------------------------------
(* The theorems.                                                           *)

INSTANCE FiniteSetTheorems

(* A set of numbers has a least element: the numbers are well-founded. *)
LEMMA LeastNumber == \A T : T \subseteq Nat /\ T # {} => \E m \in T : \A n \in T : m <= n
  <1> SUFFICES ASSUME NEW T, T \subseteq Nat, T # {} PROVE \E m \in T : \A n \in T : m <= n
    BY Zenon
  <1> DEFINE less == OpToRel(<, Nat)
  <1>1. \A x, y \in Nat : y < x => <<y, x>> \in less
    BY Zenon DEF OpToRel
  <1>2. IsWellFoundedOn(less, Nat)
    BY NatLessThanWellFounded, Zenon
  <1> HIDE DEF less
  <1>3. PICK x \in T : \A y \in T : ~(<<y, x>> \in less)
    BY <1>2, WFMin, Zenon
  <1>4. x \in Nat
    BY Zenon
  <1>5. ASSUME NEW n \in T PROVE x <= n
    <2>1. n \in Nat /\ <<n, x>> \notin less
      BY <1>3, Zenon
    <2>2. ~(n < x)
      BY <1>1, <1>4, <2>1, Zenon
    <2>3. QED
      BY <1>4, <2>1, <2>2
  <1>6. QED
    BY <1>5, Zenon

(* The laws hold. *)
LEMMA LawsHold == Laws
  <1>1. Cardinality({}) = 0
    BY FS_EmptySet, Zenon
  <1>2. \A x : Cardinality({x}) = 1
    BY FS_Singleton, Zenon
  <1>3. QED
    BY LeastNumber, <1>1, <1>2, Zenon DEF Laws

(* The invariant holds in every state. *)
THEOREM SchedulesInvariant == Spec => []SchedInv
  <1>1. Init => SchedInv
    BY LawsHold, SchedStarts, Zenon
  <1>2. SchedInv /\ [Next]_vars => SchedInv'
    BY LawsHold, SchedNext, Zenon
  <1>3. QED
    BY <1>1, <1>2, PTL DEF Spec

(* HealedByRestart: once the daemon has started and nothing has been asked *)
(* or has failed since, every enabled policy has exactly the schedule it   *)
(* asks for, whatever was left behind (reconcile_all_policies).            *)
THEOREM RestartHeals == Spec => []HealedByRestart
  <1>1. SchedInv => HealedByRestart
    <2> SUFFICES ASSUME SchedInv, phase = "running", fresh, NEW i \in Ids, Enabled(policies[i])
                 PROVE  Agrees(i)
      BY Zenon DEF HealedByRestart
    <2>1. InFlight(i) = {}
      BY Zenon DEF SchedInv, Shapes, InFlight, Live
    <2>2. ~Waits(i)
      BY Zenon DEF SchedInv, Shapes, Waits
    <2>3. QED
      BY <2>1, <2>2, Zenon DEF SchedInv, Booted
  <1>2. QED
    BY <1>1, SchedulesInvariant, PTL

(* ScheduledAsStored: while the daemon runs, a policy that nothing has     *)
(* disturbed and nobody is working on has exactly the schedule its row     *)
(* asks for (reconcile_triggers), and the variables have their types.      *)
THEOREM SchedulesFollowPolicies == Spec => []ScheduledAsStored
  <1>1. SchedInv => ScheduledAsStored
    <2> SUFFICES ASSUME SchedInv, phase = "running", NEW i \in Ids \ hit, InFlight(i) = {}
                 PROVE  Agrees(i)
      BY Zenon DEF ScheduledAsStored, SchedInv
    <2>1. ~Waits(i)
      BY Zenon DEF SchedInv, Shapes, Waits
    <2>2. QED
      BY <2>1, Zenon DEF SchedInv, Right
  <1>2. QED
    BY <1>1, SchedulesInvariant, PTL
=============================================================================
