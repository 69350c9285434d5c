--------------------------- MODULE ActionsProofs ---------------------------
(***************************************************************************)
(* A purge destroys nothing but its target, reports every file it leaves   *)
(* hidden, and together with ingest leaves the catalog in agreement with   *)
(* the namespace: proofs for every set of objects, names and workers.      *)
(***************************************************************************)
EXTENDS Actions, TLAPS

Pcs == {"idle", "resolve", "verify", "act", "captured", "remove", "restore", "removed", "missing",
        "failed", "done", "patch", "note", "unlink", "check", "submit"}
Jobs == [pc : Pcs, kind : world.actions \cup {None}, obj : Objects \cup {None},
         at : Places \cup {NoPlace}, path : Places \cup {NoPlace}, row : FileRows \cup {None},
         aside : Asides \cup {None}, result : Results \cup {None}]
Tables == [entry : [Objects -> FileRows \cup {None}], edge : [Places -> Objects \cup {None}],
           stripe : [Objects -> {{}}], removed : [Objects -> FileRows \cup {None}]]

Shared ==
  /\ link \in [Places -> Objects \cup {None}]
  /\ db \in Tables
  /\ cargo \in [Asides -> Objects \cup {None}]
  /\ made \subseteq Objects /\ pend \subseteq Objects /\ back \subseteq Objects
  /\ been \subseteq Objects \X Places
Types ==
  /\ Shared
  /\ work \in [Workers -> Jobs]
  /\ fate \in [Asides -> Results \cup {None}]

\* An object has one name, the objects that have a name or a row were created, and
\* a quarantine name holds what it was drawn for or nothing.
Namespace ==
  /\ \A p, q \in Places : link[p] = link[q] /\ link[p] # None => p = q
  /\ \A p \in Places : link[p] # None => link[p] \in made
  /\ \A q \in Asides : cargo[q] # None => cargo[q] \in made
  /\ \A q \in Asides : link[Kept(q)] \in {None, cargo[q]}
  /\ \A o \in Objects : db.entry[o] # None => o \in made

\* What a worker holds at each of its steps.
Holds(j) ==
  /\ j.pc # "idle" => j.obj \in made /\ j.at \in Places
  /\ j.pc \in {"verify", "act", "captured", "remove", "restore", "removed", "patch", "unlink"}
       => j.path \in Places
  /\ j.pc \in {"captured", "remove", "restore", "removed"} => j.aside # None
  /\ j.pc \in {"captured", "remove", "restore", "removed", "missing", "patch", "unlink"} => j.kind = "purge"
  /\ j.pc \in {"patch", "note", "unlink"} => j.result \in {"success", "failed", "already_missing"}
  /\ j.pc \notin {"idle", "patch", "note", "unlink"} => j.result = None
  /\ j.aside # None => j.pc \in {"captured", "remove", "restore", "removed", "failed", "patch", "note", "unlink"}
  /\ j.pc # "idle" /\ j.kind = "purge" => j.obj \in targets

\* What a purge took from the quarantine name of another purge is what that one was
\* drawn for; it removes its target only, which has no name any more afterwards.
Purges(j) ==
  /\ j.aside # None => cargo[j.aside] # None
  /\ \A q \in Asides : j.pc \in {"captured", "remove", "restore"} /\ j.path = Kept(q)
       => cargo[q] = cargo[j.aside]
  /\ j.pc \in {"remove", "removed"} => cargo[j.aside] = j.obj
  /\ j.pc = "removed" \/ (j.pc \in {"patch", "unlink"} /\ j.result = "success") => Links(j.obj) = {}

Distinct == \A w, v \in Workers : work[w].aside = work[v].aside /\ work[w].aside # None => w = v

\* The fate of a quarantine name is the result of its purge, and a purge that ended
\* well has removed its file.
Fates ==
  /\ \A q \in Asides : cargo[q] = None => fate[q] = None
  /\ \A q \in Asides : fate[q] \in {"success", "already_missing"} => cargo[q] # None /\ Links(cargo[q]) = {}
  /\ \A w \in Workers : work[w].aside # None => fate[work[w].aside] = work[w].result
  /\ \A q \in Asides : cargo[q] # None /\ (\A w \in Workers : work[w].aside # q)
       => fate[q] \in {"success", "already_missing", "failed", "crash"}

PurgeInv ==
  /\ Types /\ Namespace /\ Distinct /\ Fates
  /\ \A w \in Workers : Holds(work[w]) /\ Purges(work[w])

-----------------------------------------------------------------------------

\* None is no object, no quarantine name and no row; quarantine names are places.
LEMMA Constants ==
  /\ None \notin Objects /\ None \notin Asides /\ None \notin FileRows
  /\ \A q \in Asides : Kept(q) \in Places
  /\ \A q, r \in Asides : Kept(q) = Kept(r) => q = r
  BY CatalogAssumption, ActionsAssumption, Zenon DEF Kept, Places

\* A worker's step changes the record of that worker and the fate of its quarantine name.
LEMMA GoesFacts ==
  ASSUME Types, NEW w \in Workers, NEW rec \in Jobs, Goes(w, rec), UNCHANGED world
  PROVE  /\ work' \in [Workers -> Jobs'] /\ fate' \in [Asides -> Results \cup {None}]
         /\ work'[w] = rec
         /\ \A v \in Workers : v # w => work'[v] = work[v]
         /\ \A q \in Asides : fate'[q] = IF q = work[w].aside THEN rec.result ELSE fate[q]
  <1>1. Jobs' = Jobs
    BY Zenon DEF Jobs
  <1>2. rec.result \in Results \cup {None}
    BY Zenon DEF Jobs
  <1>. QED
    BY <1>1, <1>2, Zenon DEF Goes, Types

\* A step of a worker that goes on to another place in its code.
Onward(w, pc) ==
  /\ work'[w].pc = pc /\ work'[w].kind = work[w].kind /\ work'[w].obj = work[w].obj
  /\ work'[w].at = work[w].at /\ work'[w].path = work[w].path /\ work'[w].row = work[w].row
  /\ work'[w].aside = work[w].aside /\ work'[w].result = work[w].result

\* Such a step leaves the rest of the worker's record and the fates as they are.
LEMMA ToFacts ==
  ASSUME Types, Fates, NEW w \in Workers, NEW pc \in Pcs, To(w, pc), UNCHANGED world
  PROVE  /\ work' \in [Workers -> Jobs'] /\ fate' = fate
         /\ [work[w] EXCEPT !.pc = pc] \in Jobs /\ work'[w] = [work[w] EXCEPT !.pc = pc]
         /\ Onward(w, pc)
         /\ \A v \in Workers : v # w => work'[v] = work[v]
  <1> DEFINE rec == [work[w] EXCEPT !.pc = pc]
  <1>1. /\ rec \in Jobs /\ rec.pc = pc /\ rec.kind = work[w].kind /\ rec.obj = work[w].obj
        /\ rec.at = work[w].at /\ rec.path = work[w].path /\ rec.row = work[w].row
        /\ rec.aside = work[w].aside /\ rec.result = work[w].result
    BY DEF Jobs, Types
  <1>2. /\ work' \in [Workers -> Jobs'] /\ work'[w] = rec
        /\ fate' \in [Asides -> Results \cup {None}]
        /\ \A v \in Workers : v # w => work'[v] = work[v]
        /\ \A q \in Asides : fate'[q] = IF q = work[w].aside THEN rec.result ELSE fate[q]
    <2> HIDE DEF rec
    <2>1. Goes(w, rec)
      BY Zenon DEF To, rec
    <2>. QED
      BY <2>1, <1>1, GoesFacts
  <1>3. \A q \in Asides : fate'[q] = fate[q]
    BY <1>1, <1>2, Constants DEF Fates
  <1>4. fate' = fate
    BY <1>2, <1>3 DEF Types
  <1>. QED
    BY <1>1, <1>2, <1>4, Zenon DEF Onward

-----------------------------------------------------------------------------
\* What no step takes back: a drawn quarantine name stays what it is, and an object
\* that has lost its last name never gets another one.
Stays ==
  /\ targets \subseteq targets' /\ made \subseteq made'
  /\ \A q \in Asides : cargo[q] # None => cargo'[q] = cargo[q]
  /\ \A o \in made : Links(o) = {} => Links(o)' = {}

\* What a worker holds stays true while other actors step.
LEMMA OthersHold ==
  ASSUME Types, Stays, NEW v \in Workers, work'[v] = work[v], Holds(work[v]), Purges(work[v])
  PROVE  Holds(work[v])' /\ Purges(work[v])'
  <1>1. work[v].aside \in Asides \cup {None}
    BY Zenon DEF Types, Jobs
  <1>2. Holds(work[v])'
    BY Zenon DEF Holds, Stays
  <1>3. (work[v].aside # None => cargo[work[v].aside] # None)'
    BY <1>1, Constants, Zenon DEF Purges, Stays
  <1>4. ASSUME NEW q \in Asides, work[v].pc \in {"captured", "remove", "restore"}, work[v].path = Kept(q)
        PROVE  cargo'[q] = cargo'[work[v].aside]
    BY <1>1, <1>4, Constants, Zenon DEF Purges, Stays, Holds
  <1>5. (work[v].pc \in {"remove", "removed"} => cargo[work[v].aside] = work[v].obj)'
    BY <1>1, Constants, Zenon DEF Purges, Stays, Holds
  <1>6. (work[v].pc = "removed" \/ (work[v].pc \in {"patch", "unlink"} /\ work[v].result = "success")
           => Links(work[v].obj) = {})'
    <2> SUFFICES ASSUME work[v].pc = "removed" \/ (work[v].pc \in {"patch", "unlink"} /\ work[v].result = "success")
                 PROVE  Links(work[v].obj)' = {}
      BY Zenon
    <2>1. Links(work[v].obj) = {} /\ work[v].obj \in made
      BY Zenon DEF Purges, Holds
    <2>2. PICK o \in made : o = work[v].obj /\ Links(o) = {} /\ o = work'[v].obj
      BY <2>1, Zenon
    <2>3. Links(o)' = {}
      BY <2>2, Zenon DEF Stays
    <2>. QED
      BY <2>2, <2>3, Zenon DEF Links
  <1>. QED
    BY <1>2, <1>3, <1>4, <1>5, <1>6, Zenon DEF Purges, Kept

\* A step of worker w that draws no quarantine name keeps the invariant, if it keeps
\* what its own worker must hold and leaves the namespace alone.
LEMMA WorkerKeeps ==
  ASSUME PurgeInv, NEW w \in Workers, NEW rec \in Jobs, Goes(w, rec), UNCHANGED <<world, cargo>>,
         Types', Namespace', Stays, Holds(work[w])', Purges(work[w])',
         rec.aside \in {None, work[w].aside},
         work[w].aside # None /\ rec.result \in {"success", "already_missing"}
           => Links(cargo[work[w].aside]) = {},
         work[w].aside # None /\ rec.aside = None
           => rec.result \in {"success", "already_missing", "failed", "crash"}
  PROVE  PurgeInv'
  <1>1. /\ work'[w] = rec /\ \A v \in Workers : v # w => work'[v] = work[v]
        /\ \A q \in Asides : fate'[q] = IF q = work[w].aside THEN rec.result ELSE fate[q]
    BY GoesFacts, Zenon DEF PurgeInv
  <1>2. \A v \in Workers : Holds(work[v])' /\ Purges(work[v])'
    BY <1>1, OthersHold, Zenon DEF PurgeInv
  <1>3. Distinct'
    BY <1>1 DEF PurgeInv, Distinct
  <1>a. \A v \in Workers : work[v].aside \in Asides \cup {None}
    BY Zenon DEF PurgeInv, Types, Jobs
  <1>4. (\A q \in Asides : cargo[q] = None => fate[q] = None)'
    BY <1>1, <1>a, Constants DEF PurgeInv, Fates, Purges
  <1>5. (\A q \in Asides : fate[q] \in {"success", "already_missing"} => cargo[q] # None /\ Links(cargo[q]) = {})'
    <2> SUFFICES ASSUME NEW q \in Asides, fate'[q] \in {"success", "already_missing"}
                 PROVE  cargo[q] # None /\ Links(cargo[q])' = {}
      BY Zenon
    <2>1. cargo[q] # None /\ Links(cargo[q]) = {}
      BY <1>1, Constants DEF PurgeInv, Fates, Purges
    <2>2. PICK o \in made : o = cargo[q]
      BY <2>1, Zenon DEF PurgeInv, Namespace
    <2>3. Links(o)' = {}
      BY <2>1, <2>2, Zenon DEF Stays
    <2>. QED
      BY <2>1, <2>2, <2>3, Zenon DEF Links
  <1>6. (\A v \in Workers : work[v].aside # None => fate[work[v].aside] = work[v].result)'
    BY <1>1, <1>a, Constants DEF PurgeInv, Fates, Distinct
  <1>7. (\A q \in Asides : cargo[q] # None /\ (\A v \in Workers : work[v].aside # q)
           => fate[q] \in {"success", "already_missing", "failed", "crash"})'
    <2> SUFFICES ASSUME NEW q \in Asides, cargo[q] # None, \A v \in Workers : work'[v].aside # q
                 PROVE  fate'[q] \in {"success", "already_missing", "failed", "crash"}
      BY Zenon
    <2>1. CASE q = work[w].aside
      BY <2>1, <1>1, Constants, Zenon
    <2>2. CASE q # work[w].aside
      BY <2>2, <1>1 DEF PurgeInv, Fates
    <2>. QED
      BY <2>1, <2>2, Zenon
  <1>. QED
    BY <1>2, <1>3, <1>4, <1>5, <1>6, <1>7, Zenon DEF PurgeInv, Fates
-----------------------------------------------------------------------------
\* What a step leaves alone stays.
LEMMA StillStays ==
  ASSUME UNCHANGED <<link, cargo, made>>, targets \subseteq targets'
  PROVE  Stays
  BY Zenon DEF Stays, Links

\* The same for a step that only moves its worker on.
LEMMA ToKeeps ==
  ASSUME PurgeInv, NEW w \in Workers, NEW pc \in Pcs, To(w, pc), UNCHANGED <<world, cargo>>,
         Shared', Namespace', Stays, Holds(work[w])', Purges(work[w])'
  PROVE  PurgeInv'
  <1> DEFINE rec == [work[w] EXCEPT !.pc = pc]
  <1>1. /\ work' \in [Workers -> Jobs'] /\ fate' = fate
        /\ rec \in Jobs /\ rec.aside = work[w].aside /\ rec.result = work[w].result
    BY ToFacts DEF PurgeInv, Onward
  <1>2. Goes(w, rec)
    BY Zenon DEF To
  <1>3. Types'
    BY <1>1, Zenon DEF PurgeInv, Types
  <1>4. work[w].aside # None /\ rec.result \in {"success", "already_missing"}
           => Links(cargo[work[w].aside]) = {}
    <2>1. work[w].aside \in Asides \cup {None}
      BY Zenon DEF PurgeInv, Types, Jobs
    <2>. QED
      BY <1>1, <2>1, Zenon DEF PurgeInv, Fates
  <1> HIDE DEF rec
  <1>. QED
    BY <1>1, <1>2, <1>3, <1>4, WorkerKeeps, Zenon

\* A step of worker w that changes nothing but its place in the code.
LEMMA MovesOn ==
  ASSUME PurgeInv, NEW w \in Workers, NEW pc \in Pcs, To(w, pc),
         UNCHANGED <<world, cargo, link, made, targets, db, pend, been, back>>,
         Holds(work[w])', Purges(work[w])'
  PROVE  PurgeInv'
  <1>1. Shared' /\ Namespace'
    BY Zenon DEF PurgeInv, Types, Shared, Namespace
  <1>2. Stays
    BY StillStays, Zenon
  <1>. QED
    BY <1>1, <1>2, ToKeeps, Zenon

-----------------------------------------------------------------------------
(* The steps of a worker, one by one.                                        *)

\* The action fails (error paths of execute_purge).
LEMMA FailKeeps ==
  ASSUME PurgeInv, NEW w \in Workers, Fail(w),
         UNCHANGED <<world, cargo, link, made, targets, db, pend, been, back>>,
         At1(w) \in {"resolve", "verify", "act", "captured", "remove", "restore"}
  PROVE  PurgeInv'
  <1>1. To(w, "failed") /\ "failed" \in Pcs
    BY Zenon DEF Fail, Pcs
  <1>2. Onward(w, "failed")
    BY <1>1, ToFacts, Zenon DEF PurgeInv
  <1>3. Holds(work[w])' /\ Purges(work[w])'
    BY <1>2 DEF PurgeInv, Holds, Purges, At1, Onward
  <1>. QED
    BY <1>1, <1>3, MovesOn, Zenon

\* The object has no path any more, or the lookup errs.
LEMMA UnresolvedKeeps ==
  ASSUME PurgeInv, NEW w \in Workers, NEW error, Unresolved(w, error),
         UNCHANGED <<world, cargo, link, made, targets, db, pend, been, back>>,
         At1(w) \in {"resolve", "verify"}
  PROVE  PurgeInv'
  <1>1. CASE Fail(w)
    BY <1>1, FailKeeps, Zenon
  <1>2. CASE work[w].kind = "purge" /\ To(w, "missing")
    <2>1. To(w, "missing") /\ "missing" \in Pcs
      BY <1>2, Zenon DEF Pcs
    <2>2. Onward(w, "missing")
      BY <2>1, ToFacts, Zenon DEF PurgeInv
    <2>3. Holds(work[w])' /\ Purges(work[w])'
      BY <1>2, <2>2, Zenon DEF PurgeInv, Holds, Purges, At1, Onward
    <2>. QED
      BY <2>1, <2>3, MovesOn, Zenon
  <1>. QED
    BY <1>1, <1>2, Zenon DEF Unresolved, TakenForGone

\* A lookup that errs changes nothing but the worker and what is known of its object.
LEMMA LookupErrsKeeps ==
  ASSUME PurgeInv, NEW w \in Workers, NEW error, LookupErrs(w, error),
         UNCHANGED <<world, cargo, link, made, targets, db, pend, been>>,
         At1(w) \in {"resolve", "verify"}
  PROVE  PurgeInv'
  <1>1. work[w].obj \in Objects
    BY Zenon DEF PurgeInv, Types, Shared, Holds, At1
  <1>2. back' \subseteq Objects
    BY <1>1, Zenon DEF LookupErrs, PurgeInv, Types, Shared
  <1>3. Shared' /\ Namespace'
    BY <1>2, Zenon DEF PurgeInv, Types, Shared, Namespace
  <1>4. Stays
    BY StillStays, Zenon
  <1>5. CASE To(w, "failed")
    <2>1. Onward(w, "failed") /\ "failed" \in Pcs
      BY <1>5, ToFacts, Zenon DEF PurgeInv, Pcs
    <2>2. Holds(work[w])' /\ Purges(work[w])'
      BY <2>1 DEF PurgeInv, Holds, Purges, At1, Onward
    <2>. QED
      BY <1>3, <1>4, <1>5, <2>1, <2>2, ToKeeps, Zenon
  <1>6. CASE work[w].kind = "purge" /\ To(w, "missing")
    <2>1. Onward(w, "missing") /\ "missing" \in Pcs
      BY <1>6, ToFacts, Zenon DEF PurgeInv, Pcs
    <2>2. Holds(work[w])' /\ Purges(work[w])'
      BY <1>6, <2>1, Zenon DEF PurgeInv, Holds, Purges, At1, Onward
    <2>. QED
      BY <1>3, <1>4, <1>6, <2>1, <2>2, ToKeeps, Zenon
  <1>. QED
    BY <1>5, <1>6, Zenon DEF LookupErrs, Unresolved, TakenForGone, Fail

\* A worker starts on a row of the catalog.
LEMMA StartKeeps ==
  ASSUME PurgeInv, NEW w \in Workers, NEW kind \in world.actions, NEW o \in Objects, Start(w, kind, o)
  PROVE  PurgeInv'
  <1> DEFINE rec == [Idle EXCEPT !.pc = IF kind \in HsmKinds THEN "check" ELSE "resolve",
                                 !.kind = kind, !.obj = o, !.at = At(db.entry[o])]
  <1>1. /\ rec.pc \in {"check", "resolve"} /\ rec.kind = kind /\ rec.obj = o /\ rec.at = At(db.entry[o])
        /\ rec.aside = None /\ rec.result = None
    BY Zenon DEF Idle
  <1>2. At(db.entry[o]) \in Places /\ o \in made
    BY DEF PurgeInv, Types, Shared, Tables, FileRows, Start, At, Places, Namespace
  <1>3. rec \in Jobs
    BY <1>2, Zenon DEF Jobs, Pcs, Idle
  <1> HIDE DEF rec
  <1>4. Goes(w, rec)
    BY Zenon DEF Start, rec
  <1>5. UNCHANGED <<world, link, cargo, made, db, pend, been, back>> /\ targets \subseteq targets'
    BY Zenon DEF Start, user, past
  <1>6. Types' /\ Namespace' /\ Stays
    BY <1>3, <1>4, <1>5, GoesFacts, StillStays, Zenon DEF PurgeInv, Types, Shared, Namespace
  <1>7. work'[w] = rec
    BY <1>3, <1>4, <1>5, GoesFacts, Zenon DEF PurgeInv
  <1>8. Holds(work[w])' /\ Purges(work[w])'
    <2>1. kind = "purge" => o \in targets'
      BY Zenon DEF Start
    <2>. QED
      BY <1>1, <1>2, <1>5, <1>7, <2>1, Zenon DEF Holds, Purges
  <1>9. work[w].aside = None
    BY Zenon DEF PurgeInv, Holds, Start, At1
  <1>. QED
    BY <1>1, <1>3, <1>4, <1>5, <1>6, <1>8, <1>9, WorkerKeeps, Zenon

\* A worker has resolved its object to a path.
LEMMA PathKeeps ==
  ASSUME PurgeInv, NEW w \in Workers, NEW pc \in {"act", "verify"}, NEW p \in Places,
         At1(w) = "resolve", Goes(w, [work[w] EXCEPT !.pc = pc, !.path = p]),
         UNCHANGED <<world, cargo, link, made, targets, db, pend, been, back>>
  PROVE  PurgeInv'
  <1> DEFINE rec == [work[w] EXCEPT !.pc = pc, !.path = p]
  <1>1. /\ rec \in Jobs /\ rec.pc = pc /\ rec.kind = work[w].kind /\ rec.obj = work[w].obj
        /\ rec.at = work[w].at /\ rec.path = p
        /\ rec.aside = work[w].aside /\ rec.result = work[w].result
    BY ZenonT(30) DEF PurgeInv, Types, Jobs, Pcs
  <1> HIDE DEF rec
  <1>2. Goes(w, rec)
    BY Zenon DEF rec
  <1>3. Types' /\ Namespace' /\ Stays
    BY <1>1, <1>2, GoesFacts, StillStays DEF PurgeInv, Types, Shared, Namespace
  <1>4. work'[w] = rec
    BY <1>1, <1>2, GoesFacts, Zenon DEF PurgeInv
  <1>5. work[w].aside = None
    BY Zenon DEF PurgeInv, Holds, At1
  <1>6. Holds(work[w])' /\ Purges(work[w])'
    BY <1>1, <1>4, <1>5 DEF PurgeInv, Holds, Purges, At1
  <1>. QED
    BY <1>1, <1>2, <1>3, <1>5, <1>6, WorkerKeeps, Zenon

\* Resolution of the object to a path.
LEMMA ResolveKeeps ==
  ASSUME PurgeInv, NEW w \in Workers, Resolve(w)
  PROVE  PurgeInv'
  <1>1. UNCHANGED <<world, cargo, link, made, targets, db, pend, been>> /\ At1(w) = "resolve"
    BY Zenon DEF Resolve, OnlyLookup, user
  <1>0. ASSUME NEW error, LookupErrs(w, error) PROVE PurgeInv'
    BY <1>0, <1>1, LookupErrsKeeps, Zenon
  <1>2. CASE resolve_juice_object(w) /\ UNCHANGED back
    <2>1. ASSUME NEW error, Unresolved(w, error) PROVE PurgeInv'
      BY <1>1, <1>2, <2>1, UnresolvedKeeps, Zenon
    <2>2. ASSUME NEW p \in Places, Goes(w, [work[w] EXCEPT !.pc = "act", !.path = p]) PROVE PurgeInv'
      BY <1>1, <1>2, <2>2, PathKeeps, ZenonT(30)
    <2>. QED
      BY <1>0, <1>2, <2>1, <2>2, Zenon DEF resolve_juice_object, list_scoped_object_edges
  <1>3. CASE resolve_lustre(w) /\ UNCHANGED back
    <2>1. ASSUME NEW error, Unresolved(w, error) PROVE PurgeInv'
      BY <1>1, <1>3, <2>1, UnresolvedKeeps, Zenon
    <2>2. ASSUME NEW p \in Places, Goes(w, [work[w] EXCEPT !.pc = "verify", !.path = p]) PROVE PurgeInv'
      BY <1>1, <1>3, <2>2, PathKeeps, Zenon
    <2>. QED
      BY <1>0, <1>3, <2>1, <2>2, ZenonT(30) DEF resolve_lustre, Links
  <1>4. CASE resolve_juice_object(w)
    BY <1>0, <1>2, <1>4, Zenon DEF resolve_juice_object
  <1>5. CASE resolve_lustre(w)
    BY <1>0, <1>3, <1>5, Zenon DEF resolve_lustre
  <1>. QED
    BY <1>4, <1>5, Zenon DEF Resolve

\* The check of the path before anything is moved.
LEMMA VerifyPathKeeps ==
  ASSUME PurgeInv, NEW w \in Workers, VerifyPath(w)
  PROVE  PurgeInv'
  <1>1. UNCHANGED <<world, cargo, link, made, targets, db, pend, been>> /\ At1(w) = "verify"
    BY Zenon DEF VerifyPath, OnlyLookup, user
  <1>2. CASE Unresolved(w, "StalePath") /\ UNCHANGED back
    BY <1>1, <1>2, UnresolvedKeeps, Zenon
  <1>4. ASSUME NEW error, LookupErrs(w, error) PROVE PurgeInv'
    BY <1>1, <1>4, LookupErrsKeeps, Zenon
  <1>3. CASE To(w, "act") /\ UNCHANGED back
    <2>1. Onward(w, "act") /\ "act" \in Pcs
      BY <1>1, <1>3, ToFacts, Zenon DEF PurgeInv, Pcs
    <2>2. Holds(work[w])' /\ Purges(work[w])'
      BY <1>1, <2>1 DEF PurgeInv, Holds, Purges, At1, Onward
    <2>. QED
      BY <1>1, <1>3, <2>1, <2>2, MovesOn, Zenon
  <1>. QED
    BY <1>2, <1>3, <1>4, Zenon DEF VerifyPath

\* An object that moves from p to q leaves p, and what was at q has no name any more.
LEMMA MoveFacts ==
  ASSUME link \in [Places -> Objects \cup {None}],
         \A p, q \in Places : link[p] = link[q] /\ link[p] # None => p = q,
         NEW p \in Places, NEW q \in Places, link[p] # None,
         link' = [link EXCEPT ![p] = None, ![q] = link[p]]
  PROVE  /\ link' \in [Places -> Objects \cup {None}]
         /\ \A r \in Places : link'[r] = IF r = q THEN link[p] ELSE IF r = p THEN None ELSE link[r]
         /\ (\A r, t \in Places : link[r] = link[t] /\ link[r] # None => r = t)'
         /\ \A o \in Objects : Links(o) = {} => Links(o)' = {}
  <1>1. /\ link' \in [Places -> Objects \cup {None}]
        /\ \A r \in Places : link'[r] = IF r = q THEN link[p] ELSE IF r = p THEN None ELSE link[r]
    BY Zenon
  <1>2. (\A r, t \in Places : link[r] = link[t] /\ link[r] # None => r = t)'
    BY <1>1
  <1>3. \A o \in Objects : Links(o) = {} => Links(o)' = {}
    BY <1>1, Constants DEF Links
  <1>. QED
    BY <1>1, <1>2, <1>3, Zenon

\* A purge moves what it finds at its path to a new quarantine name.
LEMMA CaptureKeeps ==
  ASSUME PurgeInv, NEW w \in Workers, Capture(w)
  PROVE  PurgeInv'
  <1> DEFINE path == work[w].path
  <1>1. UNCHANGED <<world, made, targets, db>> /\ At1(w) = "act" /\ path \in Places /\ work[w].kind = "purge"
    BY Zenon DEF Capture, user, PurgeInv, Holds, At1
  <1>2. CASE link[path] = None
    BY <1>1, <1>2, FailKeeps, Zenon DEF Capture, past
  <1>3. CASE link[path] # None
    <2>1. PICK q \in Asides :
            /\ cargo[q] = None /\ cargo' = [cargo EXCEPT ![q] = link[path]]
            /\ Moves(path, Kept(q))
            /\ Goes(w, [work[w] EXCEPT !.pc = "captured", !.aside = q])
      BY <1>3, Zenon DEF Capture
    <2> DEFINE rec == [work[w] EXCEPT !.pc = "captured", !.aside = q]
    <2>2. /\ rec \in Jobs /\ rec.pc = "captured" /\ rec.kind = work[w].kind /\ rec.obj = work[w].obj
          /\ rec.at = work[w].at /\ rec.path = path /\ rec.aside = q /\ rec.result = work[w].result
      BY ZenonT(30) DEF PurgeInv, Types, Jobs, Pcs
    <2> HIDE DEF rec
    <2>3. Goes(w, rec)
      BY <2>1, Zenon DEF rec
    <2>4. /\ work' \in [Workers -> Jobs'] /\ fate' \in [Asides -> Results \cup {None}]
          /\ work'[w] = rec /\ \A v \in Workers : v # w => work'[v] = work[v]
          /\ \A r \in Asides : fate'[r] = IF r = work[w].aside THEN rec.result ELSE fate[r]
      BY <1>1, <2>2, <2>3, GoesFacts DEF PurgeInv
    <2>5. work[w].aside = None /\ work[w].result = None /\ \A r \in Asides : fate'[r] = fate[r]
      BY <1>1, <2>4, Constants DEF PurgeInv, Holds, At1
    <2>6. /\ link' \in [Places -> Objects \cup {None}]
          /\ \A r \in Places : link'[r] = IF r = Kept(q) THEN link[path] ELSE IF r = path THEN None ELSE link[r]
          /\ (\A r, t \in Places : link[r] = link[t] /\ link[r] # None => r = t)'
          /\ \A o \in Objects : Links(o) = {} => Links(o)' = {}
      BY <1>1, <1>3, <2>1, MoveFacts, Constants, Zenon DEF Moves, PurgeInv, Types, Shared, Namespace
    <2>7. link[path] \in Objects /\ link[path] \in made
      BY <1>1, <1>3, Zenon DEF PurgeInv, Types, Shared, Namespace
    <2>8. /\ cargo' \in [Asides -> Objects \cup {None}] /\ cargo'[q] = link[path]
          /\ \A r \in Asides : r # q => cargo'[r] = cargo[r]
      BY <2>1, <2>7, Zenon DEF PurgeInv, Types, Shared
    <2>9. Types'
      <3>1. pend' \subseteq Objects /\ back' \subseteq Objects
        BY <2>1, <2>7, Zenon DEF PurgeInv, Types, Shared, Moves, Comes
      <3>2. been' \subseteq Objects \X Places
        BY <2>1, <2>7, Constants DEF PurgeInv, Types, Shared, Moves, Comes
      <3>. QED
        BY <1>1, <2>4, <2>6, <2>8, <3>1, <3>2, Zenon DEF PurgeInv, Types, Shared
    <2>10. Namespace'
      <3>1. (\A p \in Places : link[p] # None => link[p] \in made)'
        BY <1>1, <2>6, <2>7, Zenon DEF PurgeInv, Namespace
      <3>2. (\A r \in Asides : cargo[r] # None => cargo[r] \in made)'
        BY <1>1, <2>7, <2>8, Zenon DEF PurgeInv, Namespace
      <3>3. (\A r \in Asides : link[Kept(r)] \in {None, cargo[r]})'
        BY <2>6, <2>8, Constants, Zenon DEF PurgeInv, Namespace, Kept
      <3>4. (\A o \in Objects : db.entry[o] # None => o \in made)'
        BY <1>1, Zenon DEF PurgeInv, Namespace
      <3>. QED
        BY <2>6, <3>1, <3>2, <3>3, <3>4, Zenon DEF Namespace
    <2>11. Stays
      BY <1>1, <2>1, <2>6, <2>8, Zenon DEF Stays, PurgeInv, Types, Shared
    <2>12. Holds(work[w])'
      BY <1>1, <2>2, <2>4, Constants, Zenon DEF PurgeInv, Holds, At1
    <2>13. Purges(work[w])'
      <3>1. \A r \in Asides : path = Kept(r) => cargo'[r] = cargo'[q]
        BY <1>3, <2>8, Constants, Zenon DEF PurgeInv, Namespace
      <3>. QED
        BY <1>3, <2>2, <2>4, <2>8, <3>1 DEF Purges, Kept
    <2>14. \A v \in Workers : Holds(work[v])' /\ Purges(work[v])'
      BY <2>4, <2>11, <2>12, <2>13, OthersHold, Zenon DEF PurgeInv
    <2>15. \A v \in Workers : v # w => work[v].aside # q
      BY <2>1, Constants, Zenon DEF PurgeInv, Purges
    <2>16. Distinct'
      BY <2>2, <2>4, <2>15 DEF PurgeInv, Distinct
    <2>17. Fates'
      <3>1. (\A r \in Asides : cargo[r] = None => fate[r] = None)'
        BY <1>3, <2>5, <2>8, Zenon DEF PurgeInv, Fates
      <3>2. (\A r \in Asides : fate[r] \in {"success", "already_missing"} => cargo[r] # None /\ Links(cargo[r]) = {})'
        <4> SUFFICES ASSUME NEW r \in Asides, fate'[r] \in {"success", "already_missing"}
                     PROVE  (cargo[r] # None /\ Links(cargo[r]) = {})'
          BY Zenon
        <4>1. cargo[r] # None /\ Links(cargo[r]) = {} /\ r # q
          BY <2>1, <2>5, Zenon DEF PurgeInv, Fates
        <4>2. PICK o \in Objects : o = cargo[r] /\ o = cargo'[r]
          BY <2>8, <4>1, Zenon DEF PurgeInv, Types, Shared
        <4>3. Links(o)' = {}
          BY <2>6, <4>1, <4>2, Zenon
        <4>. QED
          BY <4>1, <4>2, <4>3, Zenon DEF Links
      <3>3. (\A v \in Workers : work[v].aside # None => fate[work[v].aside] = work[v].result)'
        <4>1. fate'[q] = None
          BY <2>1, <2>5, Zenon DEF PurgeInv, Fates
        <4>2. \A v \in Workers : work[v].aside # None => work[v].aside \in Asides
          BY Zenon DEF PurgeInv, Types, Jobs
        <4>. QED
          BY <2>2, <2>4, <2>5, <4>1, <4>2 DEF PurgeInv, Fates
      <3>4. (\A r \in Asides : cargo[r] # None /\ (\A v \in Workers : work[v].aside # r)
               => fate[r] \in {"success", "already_missing", "failed", "crash"})'
        <4> SUFFICES ASSUME NEW r \in Asides, cargo'[r] # None, \A v \in Workers : work'[v].aside # r
                     PROVE  fate'[r] \in {"success", "already_missing", "failed", "crash"}
          BY Zenon
        <4>1. r # q
          BY <2>2, <2>4, Zenon
        <4>2. \A v \in Workers : work[v].aside # r
          BY <2>4, <2>5, Constants, Zenon
        <4>. QED
          BY <2>5, <2>8, <4>1, <4>2, Zenon DEF PurgeInv, Fates
      <3>. QED
        BY <3>1, <3>2, <3>3, <3>4, Zenon DEF Fates
    <2>. QED
      BY <2>9, <2>10, <2>14, <2>16, <2>17, Zenon DEF PurgeInv
  <1>. QED
    BY <1>2, <1>3, Zenon

\* The check of what was captured: the target is removed, anything else restored.
LEMMA CheckCapturedKeeps ==
  ASSUME PurgeInv, NEW w \in Workers, CheckCaptured(w)
  PROVE  PurgeInv'
  <1>0. Holds(work[w]) /\ Purges(work[w])
    BY Zenon DEF PurgeInv
  <1>1. UNCHANGED <<world, cargo, link, made, targets, db, pend, been, back>> /\ At1(w) = "captured"
    BY Zenon DEF CheckCaptured, OnlyWork, OnlyWorker, user, past
  <1>2. work[w].aside \in Asides
    BY <1>1, Zenon DEF PurgeInv, Types, Jobs, Holds, At1
  <1>3. CASE Captured(w) = None
    BY <1>1, <1>3, FailKeeps, Zenon DEF CheckCaptured, Fail
  <1>4. CASE Captured(w) # None /\ IsTarget(w)
    <2>1. To(w, "remove") /\ "remove" \in Pcs
      BY <1>4, Zenon DEF CheckCaptured, Pcs
    <2>2. Onward(w, "remove")
      BY <1>1, <2>1, ToFacts, Zenon DEF PurgeInv
    <2>3. cargo[work[w].aside] = work[w].obj
      BY <1>2, <1>4, Zenon DEF IsTarget, Captured, PurgeInv, Namespace
    <2>4. Holds(work[w])'
      BY <1>0, <1>1, <2>2, Zenon DEF Holds, At1, Onward
    <2>5. Purges(work[w])'
      BY <1>0, <1>1, <2>2, <2>3, Zenon DEF Purges, At1, Onward
    <2>. QED
      BY <1>1, <2>1, <2>4, <2>5, MovesOn, Zenon
  <1>5. CASE Captured(w) # None /\ ~IsTarget(w)
    <2>1. To(w, "restore") /\ "restore" \in Pcs
      BY <1>5, Zenon DEF CheckCaptured, Pcs
    <2>2. Onward(w, "restore")
      BY <1>1, <2>1, ToFacts, Zenon DEF PurgeInv
    <2>3. Holds(work[w])'
      BY <1>0, <1>1, <2>2, Zenon DEF Holds, At1, Onward
    <2>4. Purges(work[w])'
      BY <1>0, <1>1, <2>2, Zenon DEF Purges, At1, Onward
    <2>. QED
      BY <1>1, <2>1, <2>3, <2>4, MovesOn, Zenon
  <1>. QED
    BY <1>3, <1>4, <1>5, Zenon

\* The check of what was captured errs.
LEMMA CheckErrsKeeps ==
  ASSUME PurgeInv, NEW w \in Workers, CheckErrs(w)
  PROVE  PurgeInv'
  BY FailKeeps, Zenon DEF CheckErrs, OnlyWorker, user, past

\* The file under the quarantine name is the target, and its last name goes.
LEMMA RemoveFileKeeps ==
  ASSUME PurgeInv, NEW w \in Workers, RemoveFile(w)
  PROVE  PurgeInv'
  <1>0. Holds(work[w]) /\ Purges(work[w])
    BY Zenon DEF PurgeInv
  <1> DEFINE kept == Kept(work[w].aside)
  <1>1. /\ UNCHANGED <<world, cargo, made, targets, db, been, back>>
        /\ At1(w) = "remove" /\ link[kept] # None
        /\ link' = [link EXCEPT ![kept] = None] /\ pend' = pend \cup {work[w].obj}
        /\ To(w, "removed") /\ "removed" \in Pcs
    BY Zenon DEF RemoveFile, OnlyWorker, user, past, Captured, Pcs
  <1>2. work[w].aside \in Asides /\ kept \in Places /\ work[w].obj \in Objects
    BY <1>1, Constants, Zenon DEF PurgeInv, Types, Shared, Jobs, Holds, At1
  <1>3. link[kept] = work[w].obj
    BY <1>1, <1>2, ZenonT(30) DEF PurgeInv, Namespace, Purges, At1
  <1>4. /\ link' \in [Places -> Objects \cup {None}]
        /\ \A r \in Places : link'[r] = IF r = kept THEN None ELSE link[r]
    BY <1>1, <1>2, Zenon DEF PurgeInv, Types, Shared
  <1>5. Shared' /\ Namespace'
    <2>1. Shared'
      BY <1>1, <1>2, <1>4, ZenonT(30) DEF PurgeInv, Types, Shared
    <2>2. Namespace'
      BY <1>1, <1>4, Constants, ZenonT(30) DEF PurgeInv, Namespace, Kept
    <2>. QED
      BY <2>1, <2>2, Zenon
  <1>6. \A o \in Objects : Links(o) = {} => Links(o)' = {}
    BY <1>4, Constants, ZenonT(30) DEF Links
  <1>7. Stays
    BY <1>1, <1>6, Zenon DEF Stays, PurgeInv, Types, Shared
  <1>8. Onward(w, "removed")
    BY <1>1, ToFacts, ZenonT(30) DEF PurgeInv
  <1>9. Links(work[w].obj)' = {}
    <2> SUFFICES ASSUME NEW r \in Places, link'[r] = work[w].obj PROVE FALSE
      BY <1>8, Zenon DEF Links, Onward
    <2>. QED
      <3>1. r # kept /\ link[r] = link[kept] /\ link[kept] # None
        BY <1>1, <1>2, <1>3, <1>4, Constants, Zenon
      <3>2. Namespace
        BY Zenon DEF PurgeInv
      <3>. QED
        BY <1>2, <3>1, <3>2, Zenon DEF Namespace
  <1>10. Holds(work[w])'
    BY <1>0, <1>1, <1>8, Zenon DEF Holds, At1, Onward
  <1>11. Purges(work[w])'
    BY <1>0, <1>1, <1>8, <1>9, Zenon DEF Purges, At1, Onward
  <1>. QED
    BY <1>1, <1>5, <1>7, <1>10, <1>11, ToKeeps, Zenon

\* The removal errs, and the file is to be restored.
LEMMA RemoveErrsKeeps ==
  ASSUME PurgeInv, NEW w \in Workers, RemoveErrs(w)
  PROVE  PurgeInv'
  <1>0. Holds(work[w]) /\ Purges(work[w])
    BY Zenon DEF PurgeInv
  <1>1. /\ UNCHANGED <<world, cargo, link, made, targets, db, pend, been, back>> /\ At1(w) = "remove"
        /\ To(w, "restore") /\ "restore" \in Pcs
    BY Zenon DEF RemoveErrs, OnlyWorker, user, past, Pcs
  <1>2. Onward(w, "restore")
    BY <1>1, ToFacts, Zenon DEF PurgeInv
  <1>3. Holds(work[w])'
    BY <1>0, <1>1, <1>2, Zenon DEF Holds, At1, Onward
  <1>4. Purges(work[w])'
    BY <1>0, <1>1, <1>2, Zenon DEF Purges, At1, Onward
  <1>. QED
    BY <1>1, <1>3, <1>4, MovesOn, Zenon

\* What is put back under a quarantine name is what that name was drawn for.
LEMMA RestoreKeeps ==
  ASSUME PurgeInv, NEW w \in Workers, Restore(w)
  PROVE  PurgeInv'
  <1> DEFINE path == work[w].path
             kept == Kept(work[w].aside)
  <1>1. /\ UNCHANGED <<world, cargo, made, targets, db>> /\ At1(w) = "restore"
        /\ Fail(w) /\ To(w, "failed") /\ "failed" \in Pcs
    BY Zenon DEF Restore, user, Fail, Pcs
  <1>2. work[w].aside \in Asides /\ kept \in Places /\ path \in Places
    BY <1>1, Constants, Zenon DEF PurgeInv, Types, Jobs, Holds, At1
  <1>3. CASE UNCHANGED <<link, pend, been, back>>
    BY <1>1, <1>3, FailKeeps, Zenon
  <1>4. CASE link[path] = None /\ link[kept] # None /\ Moves(kept, path)
    <2>1. /\ link' \in [Places -> Objects \cup {None}]
          /\ \A r \in Places : link'[r] = IF r = path THEN link[kept] ELSE IF r = kept THEN None ELSE link[r]
          /\ (\A r, t \in Places : link[r] = link[t] /\ link[r] # None => r = t)'
          /\ \A o \in Objects : Links(o) = {} => Links(o)' = {}
      BY <1>2, <1>4, MoveFacts, ZenonT(30) DEF Moves, PurgeInv, Types, Shared, Namespace
    <2>2. link[kept] \in Objects /\ link[kept] \in made /\ link[kept] = cargo[work[w].aside]
      BY <1>2, <1>4, ZenonT(30) DEF PurgeInv, Types, Shared, Namespace
    <2>3. Shared'
      <3>1. Shared
        BY Zenon DEF PurgeInv, Types
      <3>. QED
        BY <1>1, <1>2, <1>4, <2>1, <2>2, <3>1 DEF Shared, Moves, Comes
    <2>4. Namespace'
      <3>1. \A q \in Asides : path = Kept(q) => cargo[q] = cargo[work[w].aside]
        BY <1>1, ZenonT(30) DEF PurgeInv, Purges, At1
      <3>2. (\A q \in Asides : link[Kept(q)] \in {None, cargo[q]})'
        BY <1>1, <2>1, <2>2, <3>1, Constants, ZenonT(30) DEF PurgeInv, Namespace, Kept
      <3>3. (\A p \in Places : link[p] # None => link[p] \in made)'
        BY <1>1, <2>1, <2>2, ZenonT(30) DEF PurgeInv, Namespace
      <3>. QED
        BY <1>1, <2>1, <3>2, <3>3, Zenon DEF PurgeInv, Namespace
    <2>5. Stays
      BY <1>1, <2>1, Zenon DEF Stays, PurgeInv, Types, Shared
    <2>6. Onward(w, "failed")
      BY <1>1, ToFacts, Zenon DEF PurgeInv
    <2>7. Holds(work[w])' /\ Purges(work[w])'
      BY <1>1, <2>6, Zenon DEF PurgeInv, Holds, Purges, At1, Onward
    <2>. QED
      BY <1>1, <2>3, <2>4, <2>5, <2>7, ToKeeps, Zenon
  <1>. QED
    BY <1>3, <1>4, Zenon DEF Restore, Captured

\* What cannot be put back stays under its quarantine name.
LEMMA RestoreErrsKeeps ==
  ASSUME PurgeInv, NEW w \in Workers, RestoreErrs(w)
  PROVE  PurgeInv'
  BY FailKeeps, Zenon DEF RestoreErrs, OnlyWorker, user, past

\* A backup or an alert is delivered.
LEMMA DeliverKeeps ==
  ASSUME PurgeInv, NEW w \in Workers, Deliver(w)
  PROVE  PurgeInv'
  <1>1. UNCHANGED <<world, cargo, link, made, targets, db, pend, been, back>> /\ At1(w) = "act"
    BY Zenon DEF Deliver, OnlyWorker, user, past
  <1>2. CASE Fail(w)
    BY <1>1, <1>2, FailKeeps, Zenon
  <1>3. CASE To(w, "done")
    <2>1. Onward(w, "done") /\ "done" \in Pcs
      BY <1>1, <1>3, ToFacts, ZenonT(30) DEF PurgeInv, Pcs
    <2>2. Holds(work[w])' /\ Purges(work[w])'
      BY <1>1, <2>1, ZenonT(30) DEF PurgeInv, Holds, Purges, At1, Onward
    <2>. QED
      BY <1>1, <1>3, <2>1, <2>2, MovesOn, Zenon
  <1>. QED
    BY <1>2, <1>3, Zenon DEF Deliver

\* A row keeps its shape when a status is patched into it.
LEMMA PatchFacts ==
  ASSUME NEW row \in FileRows, NEW r \in Results
  PROVE  LET new == patch_scoped_sm_status(row, [last_action |-> r])
         IN  new \in FileRows /\ At(new) = At(row)
  <1> DEFINE patch == [last_action |-> r]
  <1>1. Merge(row.sm, patch) \in {None} \cup [last_action : Results]
    <2>1. CASE row.sm = None
      BY <2>1, Zenon DEF Merge
    <2>2. CASE row.sm # None
      <3>1. row.sm \in [last_action : Results]
        BY <2>2, Zenon DEF FileRows
      <3>2. DOMAIN row.sm = {"last_action"} /\ DOMAIN patch = {"last_action"}
        BY <3>1, Zenon
      <3>3. Merge(row.sm, patch) = [k \in {"last_action"} |-> patch[k]]
        BY <2>2, <3>2, Zenon DEF Merge
      <3>4. [k \in {"last_action"} |-> patch[k]] = patch
        BY Zenon
      <3>. QED
        BY <3>3, <3>4, Zenon
    <2>. QED
      BY <2>1, <2>2, Zenon
  <1>. QED
    BY <1>1, Zenon DEF patch_scoped_sm_status, FileRows, At

\* The row that a purge, an alert or a backup writes back.
LEMMA PatchedFacts ==
  ASSUME Types, NEW w \in Workers, Holds(work[w]), At1(w) \in {"patch", "note"}
  PROVE  /\ Patched(w) \in Tables /\ Patched(w).edge = db.edge /\ Patched(w).removed = db.removed
         /\ work[w].row = None => Patched(w) = db
         /\ work[w].row # None =>
              /\ Patched(w).entry[work[w].obj] \in FileRows
              /\ At(Patched(w).entry[work[w].obj]) = At(work[w].row)
         /\ \A o \in Objects : o # work[w].obj => Patched(w).entry[o] = db.entry[o]
  <1>1. /\ work[w].row \in FileRows \cup {None} /\ work[w].obj \in Objects /\ db \in Tables
        /\ work[w].result \in Results
    BY Zenon DEF Types, Shared, Jobs, Holds, At1, Results
  <1>2. CASE work[w].row = None
    BY <1>1, <1>2, Zenon DEF Patched
  <1>3. CASE work[w].row # None
    <2> DEFINE new == patch_scoped_sm_status(work[w].row, [last_action |-> work[w].result])
    <2>1. new \in FileRows /\ At(new) = At(work[w].row)
      <3>1. PICK row \in FileRows : row = work[w].row
        BY <1>1, <1>3, Zenon
      <3>2. PICK r \in Results : r = work[w].result
        BY <1>1, Zenon
      <3>3. patch_scoped_sm_status(row, [last_action |-> r]) \in FileRows
            /\ At(patch_scoped_sm_status(row, [last_action |-> r])) = At(row)
        BY PatchFacts, Zenon
      <3>. QED
        BY <3>1, <3>2, <3>3, Zenon
    <2> HIDE DEF new
    <2>2. Patched(w) = [db EXCEPT !.entry[work[w].obj] = new]
      BY <1>3, Zenon DEF Patched, upsert_scoped_entry, upsert_scoped_entry_tx, new
    <2>. QED
      BY <1>1, <1>3, <2>1, <2>2 DEF Tables
  <1>. QED
    BY <1>2, <1>3, Zenon

\* apply_scoped_unlink removes the edge and the row if the edge is that of the object.
LEMMA UnlinkFacts ==
  ASSUME db \in Tables, NEW p \in Places, NEW o \in Objects
  PROVE  LET new == apply_scoped_unlink(db, p, o, FALSE)
         IN  /\ new \in Tables
             /\ db.edge[p] # o => new = db
             /\ db.edge[p] = o =>
                  /\ \A q \in Places : new.edge[q] = IF q = p THEN None ELSE db.edge[q]
                  /\ \A x \in Objects : new.entry[x] = IF x = o THEN None ELSE db.entry[x]
  <1> DEFINE new == apply_scoped_unlink(db, p, o, FALSE)
             cut == remove_scoped_namespace_edge(db, p)
  <1>1. CASE db.edge[p] # o
    BY <1>1, Zenon DEF apply_scoped_unlink
  <1>2. CASE db.edge[p] = o
    <2>1. /\ cut \in Tables /\ cut.entry = db.entry
          /\ \A q \in Places : cut.edge[q] = IF q = p THEN None ELSE db.edge[q]
      BY Zenon DEF remove_scoped_namespace_edge, Tables
    <2>2. CASE db.entry[o] = None
      BY <1>2, <2>1, <2>2, Zenon DEF apply_scoped_unlink
    <2>3. CASE db.entry[o] # None
      <3>1. db.entry[o] \in FileRows /\ db.entry[o].nlink = 1
        BY <2>3, Zenon DEF Tables, FileRows
      <3>2. new = Bury(cut, o)
        BY <1>2, <2>3, <3>1 DEF apply_scoped_unlink
      <3> HIDE DEF new, cut
      <3>3. /\ new.edge = cut.edge /\ new.stripe = cut.stripe
            /\ new.removed = [cut.removed EXCEPT ![o] = cut.entry[o]]
            /\ new.entry = [cut.entry EXCEPT ![o] = None]
            /\ new = [entry |-> new.entry, edge |-> new.edge, stripe |-> new.stripe, removed |-> new.removed]
        BY <2>1, <3>2, Zenon DEF Bury, Tables
      <3>4. new \in Tables
        BY <2>1, <3>1, <3>3 DEF Tables
      <3>5. \A x \in Objects : new.entry[x] = IF x = o THEN None ELSE db.entry[x]
        BY <2>1, <3>3 DEF Tables
      <3>. QED
        BY <1>2, <2>1, <3>3, <3>4, <3>5, Zenon DEF new
    <2>. QED
      BY <2>2, <2>3, Zenon
  <1>. QED
    BY <1>1, <1>2, Zenon

\* A worker that has ended.
LEMMA EndFacts ==
  ASSUME NEW r \in Results \cup {None}
  PROVE  LET rec == [Idle EXCEPT !.result = r]
         IN  rec \in Jobs /\ rec.pc = "idle" /\ rec.aside = None /\ rec.result = r /\ rec.row = None
  BY Zenon DEF Idle, Jobs, Pcs, NoPlace

\* A worker ends with a result.
LEMMA EndKeeps ==
  ASSUME PurgeInv, NEW w \in Workers, NEW r \in Results, Ends(w, r),
         UNCHANGED <<world, cargo, link, made, targets, pend, been, back>>, db' \in Tables,
         \A o \in Objects : db'.entry[o] # None => o \in made,
         work[w].aside # None => At1(w) \in {"note", "unlink"} /\ r = work[w].result
  PROVE  PurgeInv'
  <1> DEFINE rec == [Idle EXCEPT !.result = r]
  <1>1. rec \in Jobs /\ rec.pc = "idle" /\ rec.aside = None /\ rec.result = r
    BY EndFacts, Zenon
  <1> HIDE DEF rec
  <1>2. Goes(w, rec)
    BY Zenon DEF Ends, rec
  <1>3. Types' /\ Namespace' /\ Stays
    BY <1>1, <1>2, GoesFacts, StillStays, ZenonT(30) DEF PurgeInv, Types, Shared, Namespace
  <1>4. work'[w] = rec
    BY <1>1, <1>2, GoesFacts, Zenon DEF PurgeInv
  <1>5. Holds(work[w])' /\ Purges(work[w])'
    BY <1>1, <1>4, ZenonT(30) DEF Holds, Purges
  <1>6. work[w].aside # None => rec.result \in {"success", "already_missing", "failed", "crash"}
    BY <1>1, Zenon DEF PurgeInv, Holds, At1
  <1>7. work[w].aside # None /\ rec.result \in {"success", "already_missing"}
          => Links(cargo[work[w].aside]) = {}
    <2>1. work[w].aside \in Asides \cup {None}
      BY ZenonT(30) DEF PurgeInv, Types, Jobs
    <2>. QED
      BY <1>1, <2>1, Zenon DEF PurgeInv, Fates
  <1>. QED
    BY <1>1, <1>2, <1>3, <1>5, <1>6, <1>7, WorkerKeeps, Zenon

\* The first half of a patch of sm_status.
LEMMA ReadStatusKeeps ==
  ASSUME PurgeInv, NEW w \in Workers, ReadStatus(w)
  PROVE  PurgeInv'
  <1> DEFINE row  == db.entry[work[w].obj]
             name == IF At1(w) = "missing" THEN work[w].at ELSE work[w].path
             next == IF At1(w) \in {"missing", "removed"} THEN "patch" ELSE "note"
             rec  == [work[w] EXCEPT !.result = States(At1(w)), !.path = name, !.row = row, !.pc = next]
  <1>1. /\ UNCHANGED <<world, cargo, link, made, targets, db, pend, been, back>>
        /\ At1(w) \in {"missing", "failed", "removed", "done"}
    BY Zenon DEF ReadStatus, OnlyWork, OnlyWorker, user, past
  <1>2. /\ States("missing") = "already_missing" /\ States("failed") = "failed"
        /\ States("removed") = "success" /\ States("done") = "success"
    BY Zenon DEF States
  <1>3. work[w].obj \in Objects /\ row \in FileRows \cup {None} /\ name \in Places \cup {NoPlace}
    BY <1>1, Zenon DEF PurgeInv, Types, Shared, Jobs, Tables, Holds, At1
  <1>4. work[w] \in Jobs
    BY Zenon DEF PurgeInv, Types
  <1>5. /\ rec \in Jobs /\ rec.pc = next /\ rec.kind = work[w].kind /\ rec.obj = work[w].obj
        /\ rec.at = work[w].at /\ rec.path = name /\ rec.aside = work[w].aside
        /\ rec.result = States(At1(w))
    <2>1. next \in Pcs /\ States(At1(w)) \in Results
      BY <1>1, <1>2, Zenon DEF Pcs, Results
    <2> HIDE DEF name, row, next
    <2>. QED
      BY <1>3, <1>4, <2>1, ZenonT(30) DEF Jobs
  <1>6. Goes(w, rec)
    BY Zenon DEF ReadStatus
  <1> HIDE DEF rec
  <1>7. Types' /\ Namespace' /\ Stays
    BY <1>1, <1>5, <1>6, GoesFacts, StillStays, Zenon DEF PurgeInv, Types, Shared, Namespace
  <1>8. work'[w] = rec
    BY <1>1, <1>5, <1>6, GoesFacts, ZenonT(30) DEF PurgeInv
  <1>0. Holds(work[w]) /\ Purges(work[w])
    BY Zenon DEF PurgeInv
  <1>9. Holds(work[w])'
    BY <1>0, <1>1, <1>2, <1>5, <1>8 DEF Holds, At1
  <1>10. Purges(work[w])'
    BY <1>0, <1>1, <1>2, <1>5, <1>8 DEF Purges, At1, Links
  <1>11. work[w].aside # None /\ rec.result \in {"success", "already_missing"}
           => Links(cargo[work[w].aside]) = {}
    BY <1>1, <1>2, <1>5, Zenon DEF PurgeInv, Holds, Purges, At1
  <1>. QED
    BY <1>1, <1>5, <1>6, <1>7, <1>9, <1>10, <1>11, WorkerKeeps, Zenon

\* The second half of a patch of sm_status.
LEMMA WriteStatusKeeps ==
  ASSUME PurgeInv, NEW w \in Workers, WriteStatus(w)
  PROVE  PurgeInv'
  <1>0. Holds(work[w]) /\ Purges(work[w])
    BY Zenon DEF PurgeInv
  <1>1. /\ UNCHANGED <<world, cargo, link, made, targets, pend, been, back>>
        /\ At1(w) \in {"patch", "note"} /\ db' = Patched(w)
    BY Zenon DEF WriteStatus, OnlyWorker, user, past
  <1>2. /\ db' \in Tables
        /\ \A o \in Objects : db'.entry[o] # None => o \in made
    <2>1. work[w].obj \in made /\ db' \in Tables
          /\ \A o \in Objects : o # work[w].obj => db'.entry[o] = db.entry[o]
      BY <1>1, PatchedFacts, Zenon DEF PurgeInv, Holds, At1
    <2>. QED
      BY <2>1, Zenon DEF PurgeInv, Namespace
  <1>3. CASE At1(w) = "patch"
    <2>1. To(w, "unlink") /\ "unlink" \in Pcs
      BY <1>3, Zenon DEF WriteStatus, Pcs
    <2>2. Onward(w, "unlink")
      BY <1>1, <2>1, ToFacts, Zenon DEF PurgeInv
    <2>5. Holds(work[w])'
      BY <1>0, <1>1, <1>3, <2>2, Zenon DEF Holds, At1, Onward
    <2>6. Purges(work[w])'
      BY <1>0, <1>1, <1>3, <2>2, Zenon DEF Purges, At1, Onward, Links
    <2>3. Holds(work[w])' /\ Purges(work[w])'
      BY <2>5, <2>6, Zenon
    <2>4. Shared' /\ Namespace' /\ Stays
      BY <1>1, <1>2, StillStays, Zenon DEF PurgeInv, Types, Shared, Namespace
    <2>. QED
      BY <1>1, <2>1, <2>3, <2>4, ToKeeps, Zenon
  <1>4. CASE At1(w) = "note"
    <2>1. Ends(w, work[w].result) /\ work[w].result \in Results
      BY <1>4, Zenon DEF WriteStatus, PurgeInv, Holds, At1, Results
    <2>. QED
      BY <1>1, <1>2, <1>4, <2>1, EndKeeps, ZenonT(30)
  <1>. QED
    BY <1>1, <1>3, <1>4, Zenon

\* The catalog forgets the name of a purged file.
LEMMA UnlinkRowKeeps ==
  ASSUME PurgeInv, NEW w \in Workers, UnlinkRow(w)
  PROVE  PurgeInv'
  <1>1. /\ UNCHANGED <<world, cargo, link, made, targets, pend, been, back>>
        /\ At1(w) = "unlink" /\ db' = apply_scoped_unlink(db, work[w].path, work[w].obj, FALSE)
        /\ Ends(w, work[w].result)
    BY Zenon DEF UnlinkRow, OnlyWorker, user, past
  <1>2. work[w].path \in Places /\ work[w].obj \in Objects /\ work[w].result \in Results /\ db \in Tables
    BY <1>1, Zenon DEF PurgeInv, Types, Shared, Holds, At1, Results
  <1>3. db' \in Tables /\ \A o \in Objects : db'.entry[o] # None => o \in made
    <2>1. PICK p \in Places, o \in Objects : db' = apply_scoped_unlink(db, p, o, FALSE)
      BY <1>1, <1>2, Zenon
    <2> DEFINE new == apply_scoped_unlink(db, p, o, FALSE)
    <2>a. /\ new \in Tables
          /\ db.edge[p] # o => new = db
          /\ db.edge[p] = o => \A x \in Objects : new.entry[x] = IF x = o THEN None ELSE db.entry[x]
      BY <1>2, UnlinkFacts, Zenon
    <2> HIDE DEF new
    <2>b. db' = new
      BY <2>1, Zenon DEF new
    <2>2. db' \in Tables /\ \A x \in Objects : db'.entry[x] \in {None, db.entry[x]}
      BY <2>a, <2>b, Zenon
    <2>. QED
      BY <2>2, Zenon DEF PurgeInv, Namespace
  <1>. QED
    BY <1>1, <1>2, <1>3, EndKeeps, ZenonT(30)

\* The state check of an HSM executor.
LEMMA HsmCheckKeeps ==
  ASSUME PurgeInv, NEW w \in Workers, HsmCheck(w)
  PROVE  PurgeInv'
  <1>1. UNCHANGED <<world, cargo, link, made, targets, db, pend, been, back>> /\ At1(w) = "check"
    BY Zenon DEF HsmCheck, OnlyWork, OnlyWorker, user, past
  <1>2. ASSUME NEW r \in Results, Ends(w, r) PROVE PurgeInv'
    <2>1. work[w].aside = None
      BY <1>1, Zenon DEF PurgeInv, Holds, At1
    <2>2. db' \in Tables /\ \A o \in Objects : db'.entry[o] # None => o \in made
      BY <1>1, Zenon DEF PurgeInv, Types, Shared, Namespace
    <2>. QED
      BY <1>1, <1>2, <2>1, <2>2, EndKeeps, Zenon
  <1>3. CASE To(w, "submit")
    <2>1. Onward(w, "submit") /\ "submit" \in Pcs
      BY <1>1, <1>3, ToFacts, ZenonT(30) DEF PurgeInv, Pcs
    <2>2. Holds(work[w])' /\ Purges(work[w])'
      BY <1>1, <2>1, ZenonT(30) DEF PurgeInv, Holds, Purges, At1, Onward
    <2>. QED
      BY <1>1, <1>3, <2>1, <2>2, MovesOn, Zenon
  <1>. QED
    BY <1>2, <1>3, Zenon DEF HsmCheck, Results

\* The request of an HSM executor.
LEMMA HsmSubmitKeeps ==
  ASSUME PurgeInv, NEW w \in Workers, HsmSubmit(w)
  PROVE  PurgeInv'
  <1>1. /\ UNCHANGED <<world, cargo, link, made, targets, db, pend, been, back>> /\ At1(w) = "submit"
        /\ Ends(w, "success") /\ "success" \in Results
    BY Zenon DEF HsmSubmit, user, past, Results
  <1>2. work[w].aside = None
    BY <1>1, ZenonT(30) DEF PurgeInv, Holds, At1
  <1>3. db' \in Tables /\ \A o \in Objects : db'.entry[o] # None => o \in made
    BY <1>1, Zenon DEF PurgeInv, Types, Shared, Namespace
  <1>. QED
    BY <1>1, <1>2, <1>3, EndKeeps, Zenon

-----------------------------------------------------------------------------
(* Crashes, users, ingest and the coordinator.                               *)

\* A step of anyone but a worker keeps the invariant if it keeps what is shared.
LEMMA OutsideKeeps ==
  ASSUME PurgeInv, UNCHANGED <<world, work, fate, cargo>>, Shared', Namespace', Stays
  PROVE  PurgeInv'
  <1>1. Types' /\ Distinct'
    BY Zenon DEF PurgeInv, Types, Jobs, Distinct
  <1>2. \A v \in Workers : Holds(work[v])' /\ Purges(work[v])'
    BY OthersHold, Zenon DEF PurgeInv
  <1>3. (\A q \in Asides : fate[q] \in {"success", "already_missing"} => cargo[q] # None /\ Links(cargo[q]) = {})'
    <2> SUFFICES ASSUME NEW q \in Asides, fate[q] \in {"success", "already_missing"}
                 PROVE  cargo[q] # None /\ Links(cargo[q])' = {}
      BY Zenon
    <2>1. cargo[q] # None /\ Links(cargo[q]) = {}
      BY Zenon DEF PurgeInv, Fates
    <2>2. PICK o \in made : o = cargo[q]
      BY <2>1, Zenon DEF PurgeInv, Namespace
    <2>3. Links(o)' = {}
      BY <2>1, <2>2, Zenon DEF Stays
    <2>. QED
      BY <2>1, <2>2, <2>3, Zenon DEF Links
  <1>4. Fates'
    BY <1>3, Zenon DEF PurgeInv, Fates
  <1>. QED
    BY <1>1, <1>2, <1>4, Zenon DEF PurgeInv

\* A crash ends every purge, and leaves its file where it is.
LEMMA CrashKeeps ==
  ASSUME PurgeInv, Crash
  PROVE  PurgeInv'
  <1>1. UNCHANGED <<world, cargo, link, made, targets, db, pend, been, back>>
    BY Zenon DEF Crash, OnlyWorker, user, past
  <1>2. \A w \in Workers : /\ work'[w] \in Jobs' /\ work'[w].pc = "idle" /\ work'[w].aside = None
                           /\ work'[w].result = "crash"
    BY Zenon DEF Crash, Idle, Jobs, Pcs, Results
  <1>3. \A q \in Asides : fate'[q] = IF \E w \in Workers : work[w].aside = q THEN "crash" ELSE fate[q]
    BY Zenon DEF Crash
  <1>4. Types'
    <2>1. work' \in [Workers -> Jobs']
      BY <1>2, Zenon DEF Crash
    <2>2. fate' \in [Asides -> Results \cup {None}]
      BY Zenon DEF PurgeInv, Types, Crash, Results
    <2>. QED
      BY <1>1, <2>1, <2>2, Zenon DEF PurgeInv, Types, Shared
  <1>5. Namespace' /\ Distinct'
    BY <1>1, <1>2, Zenon DEF PurgeInv, Namespace, Distinct
  <1>6. \A w \in Workers : Holds(work[w])' /\ Purges(work[w])'
    BY <1>2, ZenonT(30) DEF Holds, Purges
  <1>7. Fates'
    <2>1. \A w \in Workers : work[w].aside # None => cargo[work[w].aside] # None
      BY Zenon DEF PurgeInv, Purges
    <2>2. (\A q \in Asides : cargo[q] = None => fate[q] = None)'
      BY <1>1, <1>3, <2>1, Constants DEF PurgeInv, Fates
    <2>3. (\A q \in Asides : fate[q] \in {"success", "already_missing"} => cargo[q] # None /\ Links(cargo[q]) = {})'
      BY <1>1, <1>3 DEF PurgeInv, Fates, Links
    <2>4. (\A q \in Asides : cargo[q] # None /\ (\A w \in Workers : work[w].aside # q)
             => fate[q] \in {"success", "already_missing", "failed", "crash"})'
      BY <1>1, <1>3, Zenon DEF PurgeInv, Fates
    <2>. QED
      BY <1>2, <2>2, <2>3, <2>4, Zenon DEF Fates
  <1>. QED
    BY <1>4, <1>5, <1>6, <1>7, Zenon DEF PurgeInv

\* Users create files under visible names, for objects that are new.
LEMMA CreateKeeps ==
  ASSUME PurgeInv, NEW o \in Objects, NEW p \in Visible, Create(o, p)
  PROVE  PurgeInv'
  <1>1. /\ UNCHANGED <<world, work, fate, cargo, targets, db>>
        /\ link' = [link EXCEPT ![p] = o] /\ made' = made \cup {o} /\ pend' = pend \cup {o}
        /\ Comes(o, p) /\ link[p] = None /\ o \notin made
    BY Zenon DEF Create, Uses
  <1>2. p \in Places /\ \A q \in Asides : Kept(q) # p
    BY Zenon DEF Visible, Quarantine
  <1>3. link \in [Places -> Objects \cup {None}]
    BY Zenon DEF PurgeInv, Types, Shared
  <1>4. Shared'
    BY <1>1, <1>2 DEF PurgeInv, Types, Shared, Comes
  <1>5. Namespace'
    BY <1>1, <1>2, <1>3, Constants, Zenon DEF PurgeInv, Namespace
  <1>6. Stays
    BY <1>1, <1>2, <1>3, Zenon DEF Stays, Links
  <1>. QED
    BY <1>1, <1>4, <1>5, <1>6, OutsideKeeps, Zenon

\* Users rename files, to visible names, and overwrite what is there.
LEMMA RenameKeeps ==
  ASSUME PurgeInv, NEW p \in Visible, NEW q \in Visible, Rename(p, q)
  PROVE  PurgeInv'
  <1>1. /\ UNCHANGED <<world, work, fate, cargo, targets, db, made>>
        /\ link' = [link EXCEPT ![p] = None, ![q] = link[p]]
        /\ pend' = pend \cup ({link[p], link[q]} \ {None})
        /\ Comes(link[p], q) /\ link[p] # None /\ p # q
    BY Zenon DEF Rename, Uses
  <1>2. p \in Places /\ q \in Places /\ \A a \in Asides : Kept(a) # p /\ Kept(a) # q
    BY Zenon DEF Visible, Quarantine
  <1>3. link \in [Places -> Objects \cup {None}]
    BY Zenon DEF PurgeInv, Types, Shared
  <1>4. \A r \in Places : link'[r] = IF r = q THEN link[p] ELSE IF r = p THEN None ELSE link[r]
    BY <1>1, <1>2, <1>3, Zenon
  <1>5. Shared'
    BY <1>1, <1>2 DEF PurgeInv, Types, Shared, Comes
  <1>6. Namespace'
    BY <1>1, <1>2, <1>3, <1>4, Constants, Zenon DEF PurgeInv, Namespace
  <1>7. Stays
    <2>1. \A o \in made : o # None
      BY Constants, Zenon DEF PurgeInv, Types, Shared
    <2>2. \A o \in made : Links(o) = {} => Links(o)' = {}
      BY <1>2, <1>4, <2>1, Zenon DEF Links
    <2>. QED
      BY <1>1, <2>2, Zenon DEF Stays
  <1>. QED
    BY <1>1, <1>5, <1>6, <1>7, OutsideKeeps, Zenon

\* Users delete visible files.
LEMMA DeleteKeeps ==
  ASSUME PurgeInv, NEW p \in Visible, Delete(p)
  PROVE  PurgeInv'
  <1>1. /\ UNCHANGED <<world, work, fate, cargo, targets, db, made, been, back>>
        /\ link' = [link EXCEPT ![p] = None] /\ pend' = pend \cup {link[p]} /\ link[p] # None
    BY Zenon DEF Delete, Uses
  <1>2. p \in Places /\ \A a \in Asides : Kept(a) # p
    BY Zenon DEF Visible, Quarantine
  <1>3. link \in [Places -> Objects \cup {None}]
    BY Zenon DEF PurgeInv, Types, Shared
  <1>4. Shared'
    BY <1>1, <1>2, Zenon DEF PurgeInv, Types, Shared
  <1>5. Namespace'
    BY <1>1, <1>2, <1>3, Constants, Zenon DEF PurgeInv, Namespace
  <1>6. Stays
    <2>1. \A o \in made : o # None
      BY Constants, Zenon DEF PurgeInv, Types, Shared
    <2>2. \A o \in made : Links(o) = {} => Links(o)' = {}
      BY <1>1, <1>2, <1>3, <2>1, Zenon DEF Links
    <2>. QED
      BY <1>1, <2>2, Zenon DEF Stays
  <1>. QED
    BY <1>1, <1>4, <1>5, <1>6, OutsideKeeps, Zenon

\* What ingest makes of the tables for one object.
LEMMA SyncedFacts ==
  ASSUME db \in Tables, link \in [Places -> Objects \cup {None}], NEW o \in Objects
  PROVE  /\ Synced(o) \in Tables
         /\ \A p \in Places : Synced(o).edge[p] = IF link[p] = o THEN o ELSE IF db.edge[p] = o THEN None ELSE db.edge[p]
         /\ \A x \in Objects : x # o => Synced(o).entry[x] = db.entry[x]
         /\ o \notin Live => Synced(o).entry[o] = None
         /\ o \in Live => Synced(o).entry[o] # None /\ At(Synced(o).entry[o]) \in Links(o)
  <1> DEFINE edges == [p \in Places |-> IF link[p] = o THEN o ELSE IF db.edge[p] = o THEN None ELSE db.edge[p]]
             place == CHOOSE p \in Links(o) : TRUE
             kept  == IF db.entry[o] = None THEN FileRow(place)
                      ELSE [db.entry[o] EXCEPT !.parent = place[1], !.name = place[2]]
             row   == IF o \notin Live THEN None ELSE kept
  <1>1. Synced(o) = [db EXCEPT !.edge = edges, !.entry[o] = row]
    BY Zenon DEF Synced
  <1>2. edges \in [Places -> Objects \cup {None}]
    BY Zenon DEF Tables
  <1>3. o \in Live => kept \in FileRows /\ At(kept) \in Links(o)
    <2> SUFFICES ASSUME o \in Live PROVE kept \in FileRows /\ At(kept) \in Links(o)
      BY Zenon
    <2>1. place \in Links(o)
      BY Zenon DEF Live
    <2> HIDE DEF place
    <2>2. place \in (Dirs \cup {Root}) \X Names
      BY <2>1, Zenon DEF Links, Places
    <2>3. PICK d \in Dirs \cup {Root}, n \in Names : place = <<d, n>>
      BY <2>2
    <2>4. CASE db.entry[o] = None
      BY <2>1, <2>3, <2>4, Zenon DEF FileRow, FileRows, At
    <2>5. CASE db.entry[o] # None
      <3>1. PICK old \in FileRows : old = db.entry[o]
        BY <2>5, Zenon DEF Tables
      <3>2. kept = [old EXCEPT !.parent = d, !.name = n]
        BY <2>3, <2>5, <3>1, Zenon
      <3>3. [old EXCEPT !.parent = d, !.name = n] \in FileRows
            /\ At([old EXCEPT !.parent = d, !.name = n]) = <<d, n>>
        BY Zenon DEF FileRows, At
      <3>. QED
        BY <2>1, <2>3, <3>2, <3>3, Zenon
    <2>. QED
      BY <2>4, <2>5, Zenon
  <1>4. row \in FileRows \cup {None}
    BY <1>3, Zenon
  <1>5. /\ o \notin Live => row = None
        /\ o \in Live => row # None /\ At(row) \in Links(o)
    BY <1>3, Constants, Zenon
  <1>6. \A p \in Places : edges[p] = IF link[p] = o THEN o ELSE IF db.edge[p] = o THEN None ELSE db.edge[p]
    BY Zenon
  <1> HIDE DEF edges, row
  <1>7. /\ Synced(o) \in Tables /\ Synced(o).edge = edges
        /\ \A x \in Objects : Synced(o).entry[x] = IF x = o THEN row ELSE db.entry[x]
    <2> DEFINE entries == [db.entry EXCEPT ![o] = row]
    <2>1. /\ entries \in [Objects -> FileRows \cup {None}]
          /\ \A x \in Objects : entries[x] = IF x = o THEN row ELSE db.entry[x]
      BY <1>4, Zenon DEF Tables
    <2>2. Synced(o) = [db EXCEPT !.edge = edges, !.entry = entries]
      BY <1>1, Zenon
    <2> HIDE DEF entries
    <2>3. Synced(o) \in Tables /\ Synced(o).edge = edges /\ Synced(o).entry = entries
      BY <1>2, <2>1, <2>2, Zenon DEF Tables
    <2>. QED
      BY <2>1, <2>3, Zenon
  <1>. QED
    BY <1>5, <1>6, <1>7, Zenon

\* Ingest changes the tables only.
LEMMA IngestKeeps ==
  ASSUME PurgeInv, NEW o \in Objects, Ingest(o)
  PROVE  PurgeInv'
  <1>1. /\ UNCHANGED <<world, work, fate, cargo, targets, link, made, been, back>>
        /\ db' = Synced(o) /\ pend' = pend \ {o}
    BY Zenon DEF Ingest, user, past
  <1>2. db \in Tables /\ link \in [Places -> Objects \cup {None}]
    BY Zenon DEF PurgeInv, Types, Shared
  <1>3. /\ Synced(o) \in Tables
        /\ \A x \in Objects : x # o => Synced(o).entry[x] = db.entry[x]
        /\ o \notin Live => Synced(o).entry[o] = None
    BY <1>2, SyncedFacts, Zenon
  <1>4. o \in Live => o \in made
    BY Constants, ZenonT(30) DEF Live, Links, PurgeInv, Namespace
  <1>5. Shared' /\ Namespace'
    BY <1>1, <1>3, <1>4, Zenon DEF PurgeInv, Types, Shared, Namespace
  <1>6. Stays
    BY <1>1, StillStays, Zenon
  <1>. QED
    BY <1>1, <1>5, <1>6, OutsideKeeps, Zenon

\* Nothing that the invariant is about changes.
LEMMA QuietKeeps ==
  ASSUME PurgeInv, UNCHANGED <<world, work, fate, cargo, targets, link, made, been, back, db, pend>>
  PROVE  PurgeInv'
  <1>1. Shared' /\ Namespace'
    BY Zenon DEF PurgeInv, Types, Shared, Namespace
  <1>2. Stays
    BY StillStays, Zenon
  <1>. QED
    BY <1>1, <1>2, OutsideKeeps, Zenon

-----------------------------------------------------------------------------
(* The invariant holds.                                                      *)

\* The file that is there to begin with, and its name.
LEMMA FirstFile == First \in Objects /\ Home \in Visible /\ Home \in Places /\ FileRow(Home) \in FileRows
  <1>1. First \in Objects
    BY ActionsAssumption, Zenon DEF First
  <1>2. Home \in Visible
    <2>1. PICK n \in Names : n \notin Asides
      BY ActionsAssumption, Zenon
    <2>2. <<Root, n>> \in Visible
      BY <2>1, Zenon DEF Visible, Places, Quarantine, Kept
    <2>. QED
      BY <2>2, Zenon DEF Home
  <1>3. PICK d \in Dirs \cup {Root}, n \in Names : Home = <<d, n>>
    BY <1>2 DEF Visible, Places
  <1>4. FileRow(Home) \in FileRows
    BY <1>3, Zenon DEF FileRow, FileRows
  <1>. QED
    BY <1>1, <1>2, <1>4, Zenon DEF Visible

\* The tables at the start hold the row and the edge of that file.
LEMMA FirstTables ==
  ASSUME Init
  PROVE  /\ db \in Tables
         /\ \A o \in Objects : db.entry[o] = IF o = First THEN FileRow(Home) ELSE None
         /\ \A p \in Places : db.edge[p] = IF p = Home THEN First ELSE None
  <1>1. db = [Empty EXCEPT !.entry[First] = FileRow(Home), !.edge[Home] = First]
    BY Zenon DEF Init, upsert_scoped_namespace_edge, upsert_scoped_entry, upsert_scoped_entry_tx, Empty
  <1>2. Empty \in Tables
    BY Zenon DEF Empty, Tables
  <1>3. PICK row \in FileRows : row = FileRow(Home)
    BY FirstFile, Zenon
  <1>4. db = [Empty EXCEPT !.entry = [Empty.entry EXCEPT ![First] = row],
                           !.edge = [Empty.edge EXCEPT ![Home] = First]]
    BY <1>1, <1>3, Zenon
  <1>5. /\ [Empty.entry EXCEPT ![First] = row] \in [Objects -> FileRows \cup {None}]
        /\ [Empty.edge EXCEPT ![Home] = First] \in [Places -> Objects \cup {None}]
    BY <1>2, FirstFile, Zenon DEF Tables
  <1>6. db \in Tables
    BY <1>2, <1>4, <1>5, Zenon DEF Tables
  <1>7. /\ db.entry = [Empty.entry EXCEPT ![First] = row]
        /\ db.edge = [Empty.edge EXCEPT ![Home] = First]
    BY <1>2, <1>4, Zenon DEF Tables
  <1>8. \A o \in Objects : db.entry[o] = IF o = First THEN row ELSE None
    BY <1>7, FirstFile, Zenon DEF Empty
  <1>9. \A p \in Places : db.edge[p] = IF p = Home THEN First ELSE None
    BY <1>7, FirstFile, Zenon DEF Empty
  <1>. QED
    BY <1>3, <1>6, <1>8, <1>9, Zenon

\* The invariant holds at the start.
LEMMA PurgeInit ==
  ASSUME Init
  PROVE  PurgeInv
  <1>1. /\ link = [p \in Places |-> IF p = Home THEN First ELSE None]
        /\ pend = {} /\ work = [w \in Workers |-> Idle]
        /\ made = {First} /\ targets = {} /\ been = {<<First, Home>>} /\ back = {}
        /\ cargo = [q \in Asides |-> None] /\ fate = [q \in Asides |-> None]
    BY Zenon DEF Init
  <1>2. /\ Idle \in Jobs /\ Idle.pc = "idle" /\ Idle.aside = None
    BY Zenon DEF Idle, Jobs, Pcs
  <1>3. Types
    <2>1. work \in [Workers -> Jobs]
      BY <1>1, <1>2, Zenon
    <2>2. fate \in [Asides -> Results \cup {None}] /\ cargo \in [Asides -> Objects \cup {None}]
      BY <1>1, Zenon
    <2>3. link \in [Places -> Objects \cup {None}] /\ been \subseteq Objects \X Places
      BY <1>1, FirstFile
    <2>. QED
      BY <1>1, <2>1, <2>2, <2>3, FirstFile, FirstTables, Zenon DEF Types, Shared
  <1>4. Namespace
    <2>1. \A q \in Asides : Kept(q) \in Places /\ Kept(q) # Home
      BY FirstFile, Constants, Zenon DEF Visible, Quarantine
    <2>2. \A p \in Places : link[p] = IF p = Home THEN First ELSE None
      BY <1>1, Zenon
    <2>. QED
      BY <1>1, <2>1, <2>2, FirstFile, FirstTables, Constants, Zenon DEF Namespace
  <1>5. Distinct /\ Fates
    <2>1. \A w \in Workers : work[w].aside = None
      BY <1>1, <1>2, Zenon
    <2>2. \A q \in Asides : cargo[q] = None /\ fate[q] = None
      BY <1>1, Zenon
    <2>3. None \notin {"success", "already_missing"}
      BY ActionsAssumption, Zenon DEF Results
    <2>. QED
      BY <2>1, <2>2, <2>3, Zenon DEF Distinct, Fates
  <1>6. \A w \in Workers : Holds(work[w]) /\ Purges(work[w])
    BY <1>1, <1>2, Zenon DEF Holds, Purges
  <1>. QED
    BY <1>3, <1>4, <1>5, <1>6, Zenon DEF PurgeInv

\* Every step of a worker keeps it.
LEMMA StepKeeps ==
  ASSUME PurgeInv, NEW w \in Workers, Step(w)
  PROVE  PurgeInv'
  <1>1. CASE Resolve(w) \/ VerifyPath(w)
    BY <1>1, ResolveKeeps, VerifyPathKeeps, Zenon
  <1>2. CASE Capture(w)
    BY <1>2, CaptureKeeps, Zenon
  <1>3. CASE CheckCaptured(w) \/ CheckErrs(w)
    BY <1>3, CheckCapturedKeeps, CheckErrsKeeps, Zenon
  <1>4. CASE RemoveFile(w) \/ RemoveErrs(w)
    BY <1>4, RemoveFileKeeps, RemoveErrsKeeps, Zenon
  <1>5. CASE Restore(w) \/ RestoreErrs(w) \/ Deliver(w)
    BY <1>5, RestoreKeeps, RestoreErrsKeeps, DeliverKeeps, Zenon
  <1>6. CASE ReadStatus(w) \/ WriteStatus(w) \/ UnlinkRow(w)
    BY <1>6, ReadStatusKeeps, WriteStatusKeeps, UnlinkRowKeeps, Zenon
  <1>7. CASE HsmCheck(w) \/ HsmSubmit(w)
    BY <1>7, HsmCheckKeeps, HsmSubmitKeeps, Zenon
  <1>. QED
    BY <1>1, <1>2, <1>3, <1>4, <1>5, <1>6, <1>7, Zenon DEF Step

\* Every step keeps it.
LEMMA PurgeStep ==
  ASSUME PurgeInv, [Next]_vars
  PROVE  PurgeInv'
  <1>1. CASE Operation
    <2>1. ASSUME NEW o \in Objects, WriteFile(o) PROVE PurgeInv'
      BY <2>1, QuietKeeps, Zenon DEF WriteFile, Uses
    <2>. QED
      BY <1>1, <2>1, CreateKeeps, RenameKeeps, DeleteKeeps, Zenon DEF Operation
  <1>2. CASE Crash
    BY <1>2, CrashKeeps, Zenon
  <1>3. ASSUME NEW o \in Objects, Ingest(o) PROVE PurgeInv'
    BY <1>3, IngestKeeps, Zenon
  <1>4. ASSUME NEW o \in Objects, NEW k \in HsmKinds, Coordinate(k, o) PROVE PurgeInv'
    BY <1>4, QuietKeeps, Zenon DEF Coordinate, past
  <1>5. ASSUME NEW w \in Workers, Starts(w) PROVE PurgeInv'
    BY <1>5, StartKeeps, Zenon DEF Starts
  <1>6. ASSUME NEW w \in Workers, Step(w) PROVE PurgeInv'
    BY <1>6, StepKeeps, Zenon
  <1>7. CASE UNCHANGED vars
    BY <1>7, QuietKeeps, Zenon DEF vars
  <1>. QED
    BY <1>1, <1>2, <1>3, <1>4, <1>5, <1>6, <1>7, Zenon DEF Next

\* Quarantine names, the workers and the objects they hold stay in step with each other
\* (capture_verify_and_remove, backend.rs), whatever users, ingest and crashes do between.
THEOREM PurgeInvariant == Spec => []PurgeInv
  <1>1. Init => PurgeInv
    BY PurgeInit, Zenon
  <1>2. PurgeInv /\ [Next]_vars => PurgeInv'
    BY PurgeStep, Zenon
  <1>. QED
    BY <1>1, <1>2, PTL DEF Spec

-----------------------------------------------------------------------------
(* What a purge destroys, and what it hides.                                 *)

\* A file that no purge ended well for is all that may be left at a quarantine name.
LEMMA HiddenFacts ==
  ASSUME PurgeInv
  PROVE  HiddenIsReported
  <1> SUFFICES ASSUME NEW q \in Asides, link[Kept(q)] # None, \A w \in Workers : work[w].aside # q
               PROVE  fate[q] \in {"failed", "crash"}
    BY Zenon DEF HiddenIsReported
  <1>1. cargo[q] = link[Kept(q)] /\ Kept(q) \in Places
    BY Constants, Zenon DEF PurgeInv, Namespace
  <1>2. Kept(q) \in Links(cargo[q])
    BY <1>1, Zenon DEF Links
  <1>3. fate[q] \in {"success", "already_missing", "failed", "crash"}
    BY <1>1, Zenon DEF PurgeInv, Fates
  <1>. QED
    BY <1>2, <1>3, Zenon DEF PurgeInv, Fates

\* A purge that leaves a file under its quarantine name has reported a failure, or the
\* daemon died: no later purge brings a file back to the name of a purge that succeeded.
THEOREM HiddenReported == Spec => []HiddenIsReported
  BY PurgeInvariant, HiddenFacts, PTL

\* An object that moves keeps a name, and so do all others but the one in its way.
LEMMA MovedKeeps ==
  ASSUME link \in [Places -> Objects \cup {None}], NEW p \in Places, NEW q \in Places, p # q,
         link' = [link EXCEPT ![p] = None, ![q] = link[p]],
         NEW o \in Objects, Links(o) # {}, link[q] # o
  PROVE  Links(o)' # {}
  <1>1. PICK r \in Places : link[r] = o
    BY Zenon DEF Links
  <1>2. CASE r = p
    <2>1. link'[q] = o
      BY <1>1, <1>2, Zenon
    <2>. QED
      BY <2>1, Zenon DEF Links
  <1>3. CASE r # p
    <2>1. link'[r] = o
      BY <1>1, <1>3, Zenon
    <2>. QED
      BY <2>1, Zenon DEF Links
  <1>. QED
    BY <1>2, <1>3, Zenon

\* The steps of a worker take the last name from no object but a target of a purge.
LEMMA StepLosesTargets ==
  ASSUME PurgeInv, NEW w \in Workers, Step(w), NEW o \in Objects, Links(o) # {}, o \notin targets
  PROVE  Links(o)' # {}
  <1>1. link \in [Places -> Objects \cup {None}] /\ o # None
    BY Constants, Zenon DEF PurgeInv, Types, Shared
  <1>2. CASE UNCHANGED link
    BY <1>2, Zenon DEF Links
  <1>3. CASE Capture(w)
    <2>1. SUFFICES ASSUME link' # link PROVE Links(o)' # {}
      BY <1>2, Zenon
    <2>2. PICK q \in Asides : /\ cargo[q] = None /\ link[work[w].path] # None
                              /\ link' = [link EXCEPT ![work[w].path] = None, ![Kept(q)] = link[work[w].path]]
      BY <1>3, <2>1, Zenon DEF Capture, Moves
    <2>3. work[w].path \in Places /\ Kept(q) \in Places /\ link[Kept(q)] = None
      BY <1>3, <2>2, Constants, Zenon DEF Capture, PurgeInv, Holds, At1, Namespace
    <2>4. PICK p \in Places : p = work[w].path /\ p # Kept(q)
      BY <2>2, <2>3, Zenon
    <2>. QED
      BY <1>1, <2>2, <2>3, <2>4, MovedKeeps, ZenonT(30)
  <1>4. CASE Restore(w)
    <2>1. SUFFICES ASSUME link' # link PROVE Links(o)' # {}
      BY <1>2, Zenon
    <2>2. /\ link[work[w].path] = None /\ Captured(w) # None
          /\ link' = [link EXCEPT ![Kept(work[w].aside)] = None, ![work[w].path] = link[Kept(work[w].aside)]]
      BY <1>4, <2>1, Zenon DEF Restore, Moves
    <2>3. PICK p \in Places : p = work[w].path
      BY <1>4, Zenon DEF Restore, PurgeInv, Holds, At1
    <2>4. PICK q \in Asides : q = work[w].aside
      BY <1>4, Zenon DEF Restore, PurgeInv, Holds, At1, Types, Jobs
    <2>5. Kept(q) \in Places /\ Kept(q) # p
      BY <2>2, <2>3, <2>4, Constants, Zenon DEF Captured
    <2>. QED
      BY <1>1, <2>2, <2>3, <2>4, <2>5, MovedKeeps, ZenonT(30)
  <1>5. CASE RemoveFile(w)
    <2>1. PICK q \in Asides : q = work[w].aside
      BY <1>5, ZenonT(30) DEF RemoveFile, PurgeInv, Holds, At1, Types, Jobs
    <2>2. Kept(q) \in Places /\ link[Kept(q)] = work[w].obj /\ work[w].obj \in targets
      BY <1>5, <2>1, Constants, Zenon DEF RemoveFile, Captured, PurgeInv, Namespace, Holds, Purges, At1
    <2>3. link' = [link EXCEPT ![Kept(q)] = None]
      BY <1>5, <2>1, Zenon DEF RemoveFile
    <2>4. PICK r \in Places : link[r] = o
      BY Zenon DEF Links
    <2>5. link'[r] = o
      BY <1>1, <2>2, <2>3, <2>4, Zenon
    <2>. QED
      BY <2>5, ZenonT(30) DEF Links
  <1>. QED
    BY <1>2, <1>3, <1>4, <1>5, Zenon DEF Step, Resolve, VerifyPath, CheckCaptured, CheckErrs, RemoveErrs,
       RestoreErrs, Deliver, ReadStatus, WriteStatus, UnlinkRow, HsmCheck, HsmSubmit, OnlyWork, OnlyLookup

\* No step takes the last name from an object that users keep and no purge was started for.
LEMMA NothingLostStep ==
  ASSUME PurgeInv, NothingElseLost, [Next]_vars
  PROVE  NothingElseLost'
  <1>1. link \in [Places -> Objects \cup {None}] /\ made \subseteq Objects
    BY Zenon DEF PurgeInv, Types, Shared
  <1>2. ASSUME UNCHANGED <<made, gone>>, targets \subseteq targets',
               \A o \in made \ (gone \cup targets') : Links(o) # {} => Links(o)' # {}
        PROVE  NothingElseLost'
    BY <1>2, Zenon DEF NothingElseLost
  <1>3. CASE UNCHANGED <<link, made, gone>> /\ targets \subseteq targets'
    BY <1>3, <1>2, Zenon DEF Links
  <1>4. ASSUME NEW o \in Objects, NEW p \in Visible, Create(o, p) PROVE NothingElseLost'
    <2>1. /\ UNCHANGED <<gone, targets>> /\ made' = made \cup {o} /\ link[p] = None
          /\ link' = [link EXCEPT ![p] = o] /\ p \in Places
      BY <1>4, Zenon DEF Create, Uses, Visible
    <2>2. ASSUME NEW x \in made \ (gone \cup targets) PROVE Links(x)' # {}
      <3>1. PICK r \in Places : link[r] = x
        BY Zenon DEF NothingElseLost, Links
      <3>2. link'[r] = x
        BY <1>1, <2>1, <3>1, Constants, Zenon
      <3>. QED
        BY <3>2, Zenon DEF Links
    <2>3. Links(o)' # {}
      BY <1>1, <2>1, Zenon DEF Links
    <2>. QED
      BY <2>1, <2>2, <2>3, Zenon DEF NothingElseLost
  <1>5. ASSUME NEW p \in Visible, NEW q \in Visible, Rename(p, q) PROVE NothingElseLost'
    <2>1. /\ UNCHANGED <<made, targets>> /\ gone' = gone \cup ({link[q]} \ {None})
          /\ link' = [link EXCEPT ![p] = None, ![q] = link[p]] /\ p # q /\ p \in Places /\ q \in Places
      BY <1>5, Zenon DEF Rename, Uses, Visible
    <2>2. ASSUME NEW x \in made \ (gone' \cup targets) PROVE Links(x)' # {}
      <3>1. Links(x) # {} /\ link[q] # x /\ x \in Objects
        BY <1>1, <2>1, <2>2, Constants, Zenon DEF NothingElseLost
      <3>. QED
        BY <1>1, <2>1, <3>1, MovedKeeps, Zenon
    <2>. QED
      BY <2>1, <2>2, Zenon DEF NothingElseLost
  <1>6. ASSUME NEW p \in Visible, Delete(p) PROVE NothingElseLost'
    <2>1. /\ UNCHANGED <<made, targets>> /\ gone' = gone \cup {link[p]}
          /\ link' = [link EXCEPT ![p] = None] /\ p \in Places
      BY <1>6, Zenon DEF Delete, Uses, Visible
    <2>2. ASSUME NEW x \in made \ (gone' \cup targets) PROVE Links(x)' # {}
      <3>1. PICK r \in Places : link[r] = x
        BY <2>1, <2>2, Zenon DEF NothingElseLost, Links
      <3>2. link'[r] = x
        BY <1>1, <2>1, <2>2, <3>1, Zenon
      <3>. QED
        BY <3>2, Zenon DEF Links
    <2>. QED
      BY <2>1, <2>2, Zenon DEF NothingElseLost
  <1>7. ASSUME NEW o \in Objects, WriteFile(o) PROVE NothingElseLost'
    BY <1>7, <1>3, Zenon DEF WriteFile, Uses
  <1>8. CASE Crash
    BY <1>8, <1>3, Zenon DEF Crash, OnlyWorker, user
  <1>9. ASSUME NEW o \in Objects, Ingest(o) \/ \E k \in HsmKinds : Coordinate(k, o) PROVE NothingElseLost'
    BY <1>9, <1>3, Zenon DEF Ingest, Coordinate, user
  <1>10. ASSUME NEW w \in Workers, Starts(w) PROVE NothingElseLost'
    BY <1>10, <1>3, Zenon DEF Starts, Start, user
  <1>11. ASSUME NEW w \in Workers, Step(w) PROVE NothingElseLost'
    <2>1. UNCHANGED <<made, gone, targets>>
      BY <1>11, Zenon DEF Step, Resolve, VerifyPath, Capture, CheckCaptured, CheckErrs, RemoveFile, RemoveErrs,
         Restore, RestoreErrs, Deliver, ReadStatus, WriteStatus, UnlinkRow, HsmCheck, HsmSubmit,
         OnlyWork, OnlyWorker, OnlyLookup, user
    <2>. QED
      BY <1>1, <1>2, <1>11, <2>1, StepLosesTargets, Zenon
  <1>12. CASE UNCHANGED vars
    BY <1>12, <1>3, Zenon DEF vars
  <1>. QED
    BY <1>4, <1>5, <1>6, <1>7, <1>8, <1>9, <1>10, <1>11, <1>12, Zenon DEF Next, Operation

\* Purges destroy nothing but objects that a purge was started for (execute_purge,
\* backend.rs), whatever users put in the place of a target while it is captured, for
\* every number of workers, objects and names, and also after crashes.
THEOREM NothingLost == Spec => []NothingElseLost
  <1>1. Init => NothingElseLost
    BY FirstFile DEF Init, NothingElseLost, Links
  <1>2. PurgeInv /\ NothingElseLost /\ [Next]_vars => NothingElseLost'
    BY NothingLostStep, Zenon
  <1>. QED
    BY <1>1, <1>2, PurgeInvariant, PTL DEF Spec

-----------------------------------------------------------------------------
(* Purges, ingest and users change the catalog and the namespace in any    *)
(* order, and once ingest has no record left the two agree.                *)

\* What a worker holds of its object's names is what the object has had.
Remembers(w) ==
  /\ At1(w) # "idle" => <<work[w].obj, work[w].at>> \in been
  /\ work[w].row # None => <<work[w].obj, At(work[w].row)>> \in been
  /\ At1(w) \in {"verify", "act", "captured", "remove", "restore", "removed", "patch", "unlink"}
       => <<work[w].obj, work[w].path>> \in been

\* Every name an object has, and every name the catalog or a worker has for it, is
\* one that it has had.
Been ==
  /\ \A p \in Places : link[p] # None => <<link[p], p>> \in been
  /\ \A o \in Objects : db.entry[o] # None => <<o, At(db.entry[o])>> \in been
  /\ \A o \in Objects, p \in Places : <<o, p>> \in been => o \in made

\* The catalog or a worker takes p for the name of o.
Seen(o, p) ==
  \/ db.entry[o] # None /\ At(db.entry[o]) = p
  \/ \E w \in Workers : At1(w) # "idle" /\ work[w].obj = o
       /\ (work[w].at = p \/ (work[w].row # None /\ At(work[w].row) = p))

\* Where the edges and rows differ from the namespace, ingest still has a record to
\* apply, or the object came back or was misread; and an object that is where the catalog
\* or a worker saw it has no edge elsewhere.
Edges ==
  /\ \A p \in Places : db.edge[p] # None /\ db.edge[p] # link[p] => db.edge[p] \in pend
  /\ \A p \in Places : link[p] # None /\ db.edge[p] # link[p] => link[p] \in pend \cup back
  /\ \A o \in Live : db.entry[o] = None => o \in pend \cup back
  /\ \A o \in Objects, p, q \in Places :
       o \notin back /\ link[p] = o /\ Seen(o, p) /\ db.edge[q] = o => q = p

\* A purge that takes its object for one that is gone, or has removed it, does not
\* find it under the name whose edge it is going to remove, unless it came back or
\* was misread.
Left(w)    == link[work[w].at] = work[w].obj => work[w].obj \in back
Unlinks(w) == link[work[w].path] = work[w].obj => work[w].obj \in back
Finds(w) ==
  /\ At1(w) = "resolve" /\ work[w].kind = "purge" /\ db.entry[work[w].obj] = None => Left(w)
  /\ At1(w) = "verify" /\ work[w].kind = "purge" /\ work[w].path # work[w].at => Left(w)
  /\ At1(w) = "missing" => Left(w)
  /\ At1(w) \in {"patch", "unlink"} => Unlinks(w)

CatalogInv == PurgeInv /\ Been /\ Edges /\ \A w \in Workers : Remembers(w) /\ Finds(w)

-----------------------------------------------------------------------------
\* Objects come to names and leave them with a record for ingest; one that had the
\* name before has come back.
Shifts ==
  /\ been \subseteq been' /\ back \subseteq back' /\ made \subseteq made'
  /\ \A p \in Places : link'[p] # link[p] /\ link'[p] # None =>
       /\ link'[p] \in pend' /\ <<link'[p], p>> \in been'
       /\ <<link'[p], p>> \in been => link'[p] \in back'
  /\ \A p \in Places : link'[p] # link[p] /\ link[p] # None => link[p] \in pend'
  /\ \A o \in Objects, p \in Places : <<o, p>> \in been' => <<o, p>> \in been \/ link'[p] = o

\* A step that leaves names alone is one of those.
LEMMA NoShift ==
  ASSUME UNCHANGED <<link, been, back, made>>
  PROVE  Shifts
  BY Zenon DEF Shifts

\* What is seen as a name of an object is a name that it has had.
LEMMA SeenBeen ==
  ASSUME CatalogInv, NEW o \in Objects, NEW p \in Places, Seen(o, p)
  PROVE  <<o, p>> \in been
  BY Zenon DEF CatalogInv, Been, Seen, Remembers

\* A worker that does not step keeps its part of the invariant, if a row that goes
\* goes for a reason.
LEMMA OthersFind ==
  ASSUME CatalogInv, Shifts, NEW v \in Workers, work'[v] = work[v],
         At1(v) = "resolve" /\ db'.entry[work[v].obj] = None => db.entry[work[v].obj] = None \/ Left(v)
  PROVE  Remembers(v)' /\ Finds(v)'
  <1>1. Remembers(v)'
    BY Zenon DEF CatalogInv, Shifts, Remembers, At1
  <1>2. ASSUME Left(v), At1(v) # "idle" PROVE Left(v)'
    <2>1. work[v].at \in Places /\ work[v].obj # None /\ <<work[v].obj, work[v].at>> \in been
      BY <1>2, Constants, Zenon DEF CatalogInv, PurgeInv, Types, Shared, Holds, At1, Remembers
    <2>. QED
      BY <1>2, <2>1, Zenon DEF Left, Shifts
  <1>3. ASSUME Unlinks(v), At1(v) \in {"patch", "unlink"} PROVE Unlinks(v)'
    <2>1. work[v].path \in Places /\ work[v].obj # None /\ <<work[v].obj, work[v].path>> \in been
      BY <1>3, Constants, Zenon DEF CatalogInv, PurgeInv, Types, Shared, Holds, At1, Remembers
    <2>. QED
      BY <1>3, <2>1, Zenon DEF Unlinks, Shifts
  <1>. QED
    BY <1>1, <1>2, <1>3, Zenon DEF CatalogInv, Finds, At1

\* A step that leaves the tables alone keeps the invariant, if its actor does.
LEMMA TablesKept ==
  ASSUME CatalogInv, PurgeInv', Shifts, pend \subseteq pend', db' = db,
         \A o \in Objects, p \in Places : Seen(o, p)' => Seen(o, p),
         \A w \in Workers : Remembers(w)' /\ Finds(w)'
  PROVE  CatalogInv'
  <1>1. Been'
    <2>1. (\A p \in Places : link[p] # None => <<link[p], p>> \in been)'
      BY Zenon DEF CatalogInv, Been, Shifts
    <2>2. (\A o \in Objects : db.entry[o] # None => <<o, At(db.entry[o])>> \in been)'
      BY Zenon DEF CatalogInv, Been, Shifts
    <2>3. (\A o \in Objects, p \in Places : <<o, p>> \in been => o \in made)'
      BY Constants DEF CatalogInv, Been, Shifts, PurgeInv, Namespace
    <2>. QED
      BY <2>1, <2>2, <2>3, Zenon DEF Been
  <1>2. (\A p \in Places : db.edge[p] # None /\ db.edge[p] # link[p] => db.edge[p] \in pend)'
    BY Zenon DEF CatalogInv, Edges, Shifts
  <1>3. (\A p \in Places : link[p] # None /\ db.edge[p] # link[p] => link[p] \in pend \cup back)'
    BY Zenon DEF CatalogInv, Edges, Shifts
  <1>4. (\A o \in Live : db.entry[o] = None => o \in pend \cup back)'
    <2> SUFFICES ASSUME NEW o \in Objects, NEW p \in Places, link'[p] = o, db.entry[o] = None
                 PROVE  o \in pend' \cup back'
      BY Zenon DEF Live, Links
    <2>1. CASE link[p] = o
      <3>1. o \in Live
        BY <2>1, Zenon DEF Live, Links
      <3>. QED
        BY <3>1, Zenon DEF CatalogInv, Edges, Shifts
    <2>2. CASE link[p] # o
      BY <2>2, Constants, Zenon DEF Shifts
    <2>. QED
      BY <2>1, <2>2, Zenon
  <1>5. ASSUME NEW o \in Objects, NEW p \in Places, NEW q \in Places,
               o \notin back', link'[p] = o, Seen(o, p)', db'.edge[q] = o
        PROVE  q = p
    <2>1. Seen(o, p) /\ <<o, p>> \in been /\ o \notin back
      BY <1>5, SeenBeen, Zenon DEF Shifts
    <2>2. link[p] = o
      BY <1>5, <2>1, Constants, Zenon DEF Shifts
    <2>. QED
      BY <1>5, <2>1, <2>2, Zenon DEF CatalogInv, Edges
  <1>6. Edges'
    BY <1>2, <1>3, <1>4, <1>5, Zenon DEF Edges
  <1>. QED
    BY <1>1, <1>6, Zenon DEF CatalogInv

\* A step of worker w that keeps its object, the name it started from and its row.
Carries(w) ==
  /\ At1(w) # "idle" /\ work'[w].obj = work[w].obj /\ work'[w].at = work[w].at /\ work'[w].row = work[w].row
  /\ \A v \in Workers : v # w => work'[v] = work[v]

\* Such a step keeps the invariant if it leaves the tables alone and does not come to
\* a place where its worker makes a claim about its object.
LEMMA CarriesOn ==
  ASSUME CatalogInv, PurgeInv', Shifts, pend \subseteq pend', db' = db, NEW w \in Workers, Carries(w),
         Finds(w)', Remembers(w)'
  PROVE  CatalogInv'
  <1>1. ASSUME NEW v \in Workers PROVE Remembers(v)' /\ Finds(v)'
    <2>1. CASE v = w
      BY <2>1, Zenon
    <2>2. CASE v # w
      BY <2>2, OthersFind, Zenon DEF Carries
    <2>. QED
      BY <2>1, <2>2, Zenon
  <1>2. \A o \in Objects, p \in Places : Seen(o, p)' => Seen(o, p)
    BY DEF Seen, Carries, At1
  <1>. QED
    BY <1>1, <1>2, TablesKept, Zenon

\* The same for a step that moves its worker on.
LEMMA ToAgrees ==
  ASSUME CatalogInv, PurgeInv', Shifts, pend \subseteq pend', UNCHANGED <<world, db>>, NEW w \in Workers,
         NEW pc \in Pcs \ {"verify", "resolve"}, To(w, pc), At1(w) # "idle",
         pc = "missing" => Left(w)',
         pc \in {"patch", "unlink"} => Unlinks(w)',
         pc \in {"act", "captured", "remove", "restore", "removed", "patch", "unlink"} =>
           At1(w) \in {"verify", "act", "captured", "remove", "restore", "removed", "patch", "unlink"}
  PROVE  CatalogInv'
  <1>1. Onward(w, pc) /\ \A v \in Workers : v # w => work'[v] = work[v]
    BY ToFacts, Zenon DEF CatalogInv, PurgeInv
  <1>2. Carries(w)
    BY <1>1, Zenon DEF Carries, Onward
  <1>3. Finds(w)'
    BY <1>1, Zenon DEF Finds, Onward, At1
  <1>4. Remembers(w)'
    BY <1>1, Zenon DEF CatalogInv, Remembers, Onward, At1, Shifts
  <1>. QED
    BY <1>2, <1>3, <1>4, CarriesOn, Zenon

\* And for one that leaves the namespace alone too.
LEMMA ToStill ==
  ASSUME CatalogInv, PurgeInv', UNCHANGED <<world, cargo, link, made, targets, db, pend, been, back>>,
         NEW w \in Workers, NEW pc \in Pcs \ {"verify", "resolve"}, To(w, pc), At1(w) # "idle",
         pc = "missing" => Left(w),
         pc \notin {"patch", "unlink"},
         pc \in {"act", "captured", "remove", "restore", "removed"} =>
           At1(w) \in {"verify", "act", "captured", "remove", "restore", "removed"}
  PROVE  CatalogInv'
  <1>1. Onward(w, pc)
    BY ToFacts, Zenon DEF CatalogInv, PurgeInv
  <1>2. pc = "missing" => Left(w)'
    BY <1>1, Zenon DEF Left, Onward
  <1>3. Shifts
    BY NoShift, Zenon
  <1>. QED
    BY <1>2, <1>3, ToAgrees, Zenon

-----------------------------------------------------------------------------
(* Steps that leave the namespace alone.                                     *)

\* A worker starts under a name that the catalog has for its object.
LEMMA StartAgrees ==
  ASSUME CatalogInv, PurgeInv', NEW w \in Workers, NEW kind \in world.actions, NEW o \in Objects, Start(w, kind, o)
  PROVE  CatalogInv'
  <1> DEFINE rec == [Idle EXCEPT !.pc = IF kind \in HsmKinds THEN "check" ELSE "resolve",
                                 !.kind = kind, !.obj = o, !.at = At(db.entry[o])]
  <1>1. /\ UNCHANGED <<world, link, made, db, pend, been, back>>
        /\ work' = [work EXCEPT ![w] = rec] /\ db.entry[o] # None
    BY Zenon DEF Start, user, past, Goes
  <1>2. rec.pc \in {"check", "resolve"} /\ rec.obj = o /\ rec.at = At(db.entry[o]) /\ rec.row = None
    BY Zenon DEF Idle
  <1> HIDE DEF rec
  <1>3. work'[w] = rec /\ \A v \in Workers : v # w => work'[v] = work[v]
    BY <1>1, Zenon DEF CatalogInv, PurgeInv, Types
  <1>4. Remembers(w)' /\ Finds(w)'
    BY <1>1, <1>2, <1>3 DEF CatalogInv, Been, Remembers, Finds, At1
  <1>5. Shifts
    BY <1>1, NoShift, Zenon
  <1>6. \A v \in Workers : Remembers(v)' /\ Finds(v)'
    BY <1>1, <1>3, <1>4, <1>5, OthersFind, Zenon
  <1>7. \A x \in Objects, p \in Places : Seen(x, p)' => Seen(x, p)
    BY <1>1, <1>2, <1>3 DEF Seen, At1
  <1>. QED
    BY <1>1, <1>5, <1>6, <1>7, TablesKept, Zenon

\* An object that is not where the catalog has an edge for it is not where its purge
\* started, unless it came back.
LEMMA StaleLeft ==
  ASSUME CatalogInv, NEW w \in Workers, At1(w) # "idle", NEW q \in Places,
         db.edge[q] = work[w].obj, link[q] # work[w].obj
  PROVE  Left(w)
  <1>1. PICK o \in Objects, p \in Places : o = work[w].obj /\ p = work[w].at
    BY Zenon DEF CatalogInv, PurgeInv, Types, Shared, Holds, At1
  <1>2. Seen(o, p)
    BY <1>1, Zenon DEF Seen
  <1>3. o \notin back /\ link[p] = o => q = p
    BY <1>1, <1>2, Zenon DEF CatalogInv, Edges
  <1>. QED
    BY <1>1, <1>3, Zenon DEF Left

\* What resolve calls missing has left the name its purge started from.
LEMMA UnresolvedAgrees ==
  ASSUME CatalogInv, PurgeInv', NEW w \in Workers, NEW error, Unresolved(w, error),
         UNCHANGED <<world, cargo, link, made, targets, db, pend, been, back>>,
         At1(w) \in {"resolve", "verify"},
         work[w].kind = "purge" /\ error \in {"NotFound", "StalePath"} => Left(w)
  PROVE  CatalogInv'
  <1>1. CASE work[w].kind = "purge" /\ error \in {"NotFound", "StalePath"}
    <2>1. To(w, "missing") /\ "missing" \in Pcs
      BY <1>1, Zenon DEF Unresolved, TakenForGone, Pcs
    <2>. QED
      BY <1>1, <2>1, ToStill, Zenon
  <1>2. CASE ~(work[w].kind = "purge" /\ error \in {"NotFound", "StalePath"})
    <2>1. To(w, "failed") /\ "failed" \in Pcs
      BY <1>2, Zenon DEF Unresolved, TakenForGone, Fail, Pcs
    <2>. QED
      BY <2>1, ToStill, Zenon
  <1>. QED
    BY <1>1, <1>2, Zenon

\* An object that could not be looked up is one of those that may be misread.
LEMMA LookupErrsAgrees ==
  ASSUME CatalogInv, PurgeInv', NEW w \in Workers, NEW error, LookupErrs(w, error),
         UNCHANGED <<world, cargo, link, made, targets, db, pend, been>>,
         At1(w) \in {"resolve", "verify"}
  PROVE  CatalogInv'
  <1>1. Shifts
    BY Zenon DEF LookupErrs, Shifts
  <1>2. CASE TakenForGone(w, error)
    <2>1. To(w, "missing") /\ "missing" \in Pcs
      BY <1>2, Zenon DEF LookupErrs, Unresolved, Pcs
    <2>2. Onward(w, "missing")
      BY <2>1, ToFacts, Zenon DEF CatalogInv, PurgeInv
    <2>3. Left(w)'
      BY <1>2, <2>2, Zenon DEF LookupErrs, Left, Onward
    <2>. QED
      BY <1>1, <2>1, <2>3, ToAgrees, Zenon
  <1>3. CASE ~TakenForGone(w, error)
    <2>1. To(w, "failed") /\ "failed" \in Pcs
      BY <1>3, Zenon DEF LookupErrs, Unresolved, Fail, Pcs
    <2>. QED
      BY <1>1, <2>1, ToAgrees, Zenon
  <1>. QED
    BY <1>2, <1>3, Zenon

\* A path that resolve returns is a name of the object.
LEMMA PathAgrees ==
  ASSUME CatalogInv, PurgeInv', NEW w \in Workers, NEW pc \in {"act", "verify"}, NEW p \in Places,
         At1(w) = "resolve", link[p] = work[w].obj, Goes(w, [work[w] EXCEPT !.pc = pc, !.path = p]),
         UNCHANGED <<world, cargo, link, made, targets, db, pend, been, back>>
  PROVE  CatalogInv'
  <1> DEFINE rec == [work[w] EXCEPT !.pc = pc, !.path = p]
  <1>1. work \in [Workers -> Jobs] /\ work[w] \in Jobs
    BY Zenon DEF CatalogInv, PurgeInv, Types
  <1>2. /\ rec.pc = pc /\ rec.path = p /\ rec.obj = work[w].obj /\ rec.at = work[w].at
        /\ rec.row = work[w].row /\ rec.kind = work[w].kind
    BY <1>1, Zenon DEF Jobs
  <1>3. work' = [work EXCEPT ![w] = rec]
    BY Zenon DEF Goes
  <1> HIDE DEF rec
  <1>4. work'[w] = rec /\ \A v \in Workers : v # w => work'[v] = work[v]
    BY <1>1, <1>3, Zenon
  <1>5. Carries(w)
    BY <1>2, <1>4, Zenon DEF Carries
  <1>6. work[w].obj # None /\ work[w].at \in Places
    BY Constants, Zenon DEF CatalogInv, PurgeInv, Types, Shared, Holds, At1
  <1>7. Remembers(w)'
    BY <1>2, <1>4, <1>6, Zenon DEF CatalogInv, Been, Remembers, At1
  <1>8. Finds(w)'
    BY <1>2, <1>4, <1>6 DEF CatalogInv, PurgeInv, Namespace, Finds, Left, At1
  <1>9. Shifts
    BY NoShift, Zenon
  <1>. QED
    BY <1>5, <1>7, <1>8, <1>9, CarriesOn, Zenon

\* Both ways of resolving keep the invariant.
LEMMA ResolveAgrees ==
  ASSUME CatalogInv, PurgeInv', NEW w \in Workers, Resolve(w)
  PROVE  CatalogInv'
  <1>1. UNCHANGED <<world, cargo, link, made, targets, db, pend, been>> /\ At1(w) = "resolve"
    BY Zenon DEF Resolve, OnlyLookup, user
  <1>2. work[w].obj \in Objects /\ work[w].obj # None /\ work[w].at \in Places
    BY <1>1, Constants, Zenon DEF CatalogInv, PurgeInv, Types, Shared, Holds, At1
  <1>0. ASSUME NEW error, LookupErrs(w, error) PROVE CatalogInv'
    BY <1>0, <1>1, LookupErrsAgrees, Zenon
  <1>3. CASE resolve_juice_object(w) /\ UNCHANGED back
    <2>1. CASE db.entry[work[w].obj] = None /\ Unresolved(w, "NotFound")
      <3>1. work[w].kind = "purge" => Left(w)
        BY <1>1, <2>1, Zenon DEF CatalogInv, Finds
      <3>. QED
        BY <1>1, <1>3, <2>1, <3>1, UnresolvedAgrees, Zenon
    <2>2. CASE Unresolved(w, "MissingParent")
      BY <1>1, <1>3, <2>2, UnresolvedAgrees, Zenon
    <2>3. CASE /\ list_scoped_object_edges(db, work[w].obj) # {}
               /\ list_scoped_object_edges(db, work[w].obj) \cap Links(work[w].obj) = {}
               /\ Unresolved(w, "StalePath")
      <3>1. PICK q \in Places : db.edge[q] = work[w].obj /\ link[q] # work[w].obj
        BY <2>3, Zenon DEF list_scoped_object_edges, Links
      <3>2. Left(w)
        BY <1>1, <3>1, StaleLeft, Zenon
      <3>. QED
        BY <1>1, <1>3, <2>3, <3>2, UnresolvedAgrees, Zenon
    <2>4. ASSUME NEW p \in list_scoped_object_edges(db, work[w].obj) \cap Links(work[w].obj),
                 Goes(w, [work[w] EXCEPT !.pc = "act", !.path = p])
          PROVE  CatalogInv'
      <3>1. p \in Places /\ link[p] = work[w].obj
        BY Zenon DEF Links
      <3>. QED
        BY <1>1, <1>3, <2>4, <3>1, PathAgrees, Zenon
    <2>. QED
      BY <1>0, <1>3, <2>1, <2>2, <2>3, <2>4, Zenon DEF resolve_juice_object
  <1>4. CASE resolve_lustre(w) /\ UNCHANGED back
    <2>1. CASE Links(work[w].obj) = {} /\ Unresolved(w, "StalePath")
      <3>1. Left(w)
        BY <1>2, <2>1, Zenon DEF Left, Links
      <3>. QED
        BY <1>1, <1>4, <2>1, <3>1, UnresolvedAgrees, Zenon
    <2>2. ASSUME NEW p \in Links(work[w].obj), Goes(w, [work[w] EXCEPT !.pc = "verify", !.path = p])
          PROVE  CatalogInv'
      <3>1. p \in Places /\ link[p] = work[w].obj
        BY Zenon DEF Links
      <3>. QED
        BY <1>1, <1>4, <2>2, <3>1, PathAgrees, Zenon
    <2>. QED
      BY <1>0, <1>4, <2>1, <2>2, Zenon DEF resolve_lustre
  <1>5. CASE resolve_juice_object(w)
    BY <1>0, <1>3, <1>5, Zenon DEF resolve_juice_object
  <1>6. CASE resolve_lustre(w)
    BY <1>0, <1>4, <1>6, Zenon DEF resolve_lustre
  <1>. QED
    BY <1>5, <1>6, Zenon DEF Resolve

\* So does the check of a Lustre path.
LEMMA VerifyPathAgrees ==
  ASSUME CatalogInv, PurgeInv', NEW w \in Workers, VerifyPath(w)
  PROVE  CatalogInv'
  <1>1. UNCHANGED <<world, cargo, link, made, targets, db, pend, been>> /\ At1(w) = "verify"
    BY Zenon DEF VerifyPath, OnlyLookup, user
  <1>4. ASSUME NEW error, LookupErrs(w, error) PROVE CatalogInv'
    BY <1>1, <1>4, LookupErrsAgrees, Zenon
  <1>2. CASE To(w, "act") /\ UNCHANGED back
    BY <1>1, <1>2, ToStill, Zenon DEF Pcs
  <1>3. CASE link[work[w].path] # work[w].obj /\ Unresolved(w, "StalePath") /\ UNCHANGED back
    <2>1. work[w].kind = "purge" => Left(w)
      BY <1>1, <1>3, Zenon DEF CatalogInv, Finds, Left
    <2>. QED
      BY <1>1, <1>3, <2>1, UnresolvedAgrees, Zenon
  <1>. QED
    BY <1>2, <1>3, <1>4, Zenon DEF VerifyPath

\* The steps that move a worker on without any claim.
LEMMA PlainAgrees ==
  ASSUME CatalogInv, PurgeInv', NEW w \in Workers,
         CheckCaptured(w) \/ CheckErrs(w) \/ RemoveErrs(w) \/ RestoreErrs(w) \/ Deliver(w)
  PROVE  CatalogInv'
  <1>1. UNCHANGED <<world, cargo, link, made, targets, db, pend, been, back>>
        /\ At1(w) \in {"act", "captured", "remove", "restore"}
    BY Zenon DEF CheckCaptured, CheckErrs, RemoveErrs, RestoreErrs, Deliver, OnlyWork, OnlyWorker, user, past
  <1>2. \E pc \in {"failed", "remove", "restore", "done"} : To(w, pc)
    <2>1. CASE CheckCaptured(w)
      <3>1. CASE To(w, "failed")
        BY <3>1, Zenon
      <3>2. CASE To(w, "remove")
        BY <3>2, Zenon
      <3>3. CASE To(w, "restore")
        BY <3>3, Zenon
      <3>. QED
        BY <2>1, <3>1, <3>2, <3>3, Zenon DEF CheckCaptured
    <2>2. CASE CheckErrs(w) \/ RemoveErrs(w) \/ RestoreErrs(w) \/ Deliver(w)
      BY <2>2, Zenon DEF CheckErrs, RemoveErrs, RestoreErrs, Deliver, Fail
    <2>. QED
      BY <2>1, <2>2, Zenon
  <1>. QED
    BY <1>1, <1>2, ToStill, Zenon DEF Pcs

\* A purge that found nothing is going to remove the edge it started from, one that
\* removed its object the edge of its path.
LEMMA ReadStatusAgrees ==
  ASSUME CatalogInv, PurgeInv', NEW w \in Workers, ReadStatus(w)
  PROVE  CatalogInv'
  <1> DEFINE row  == db.entry[work[w].obj]
             name == IF At1(w) = "missing" THEN work[w].at ELSE work[w].path
             next == IF At1(w) \in {"missing", "removed"} THEN "patch" ELSE "note"
             rec  == [work[w] EXCEPT !.result = States(At1(w)), !.path = name, !.row = row, !.pc = next]
  <1>1. /\ UNCHANGED <<world, cargo, link, made, targets, db, pend, been, back>>
        /\ At1(w) \in {"missing", "failed", "removed", "done"} /\ work' = [work EXCEPT ![w] = rec]
    BY Zenon DEF ReadStatus, OnlyWork, OnlyWorker, user, past, Goes
  <1>2. work \in [Workers -> Jobs] /\ work[w] \in Jobs
    BY Zenon DEF CatalogInv, PurgeInv, Types
  <1>3. rec.pc = next /\ rec.obj = work[w].obj /\ rec.at = work[w].at /\ rec.path = name /\ rec.row = row
    BY <1>2, Zenon DEF Jobs
  <1> HIDE DEF rec
  <1>4. work'[w] = rec /\ \A v \in Workers : v # w => work'[v] = work[v]
    BY <1>1, <1>2, Zenon
  <1>5. work[w].obj \in Objects
    BY <1>1, Zenon DEF CatalogInv, PurgeInv, Types, Shared, Holds, At1
  <1>6. Remembers(w)'
    <2>1. /\ <<work[w].obj, work[w].at>> \in been
          /\ row # None => <<work[w].obj, At(row)>> \in been
          /\ next = "patch" => <<work[w].obj, name>> \in been
      BY <1>1, <1>5, ZenonT(30) DEF CatalogInv, Been, Remembers
    <2>2. next \in {"patch", "note"}
      BY Zenon
    <2> HIDE DEF row, name, next
    <2>. QED
      BY <1>1, <1>3, <1>4, <2>1, <2>2 DEF Remembers, At1
  <1>7. Finds(w)'
    <2>1. CASE At1(w) = "missing"
      BY <1>1, <1>3, <1>4, <2>1 DEF CatalogInv, Finds, Left, Unlinks, At1
    <2>2. CASE At1(w) = "removed"
      <3>1. Links(work[w].obj) = {} /\ work[w].path \in Places
        BY <2>2, Zenon DEF CatalogInv, PurgeInv, Purges, Holds, At1
      <3>2. link[work[w].path] # work[w].obj
        BY <3>1, Zenon DEF Links
      <3>. QED
        BY <1>1, <1>3, <1>4, <2>2, <3>2, Zenon DEF Finds, Unlinks, At1
    <2>3. CASE At1(w) \in {"failed", "done"}
      BY <1>3, <1>4, <2>3, Zenon DEF Finds, At1
    <2>. QED
      BY <1>1, <2>1, <2>2, <2>3, Zenon
  <1>8. Shifts
    BY <1>1, NoShift, Zenon
  <1>9. \A v \in Workers : Remembers(v)' /\ Finds(v)'
    BY <1>1, <1>4, <1>6, <1>7, <1>8, OthersFind, Zenon
  <1>10. \A o \in Objects, p \in Places : Seen(o, p)' => Seen(o, p)
    BY <1>1, <1>3, <1>4 DEF Seen, At1
  <1>. QED
    BY <1>1, <1>8, <1>9, <1>10, TablesKept, Zenon

\* A worker that has ended makes no claim.
LEMMA EndAgrees ==
  ASSUME CatalogInv, NEW w \in Workers, NEW r, work'[w] = [Idle EXCEPT !.result = r]
  PROVE  Remembers(w)' /\ Finds(w)' /\ At1(w)' = "idle"
  BY Zenon DEF Remembers, Finds, At1, Idle

\* HSM executors and crashes change nothing in the namespace or the catalog.
LEMMA HsmAgrees ==
  ASSUME CatalogInv, PurgeInv', NEW w \in Workers, HsmCheck(w) \/ HsmSubmit(w)
  PROVE  CatalogInv'
  <1>1. /\ UNCHANGED <<world, cargo, link, made, targets, db, pend, been, back>>
        /\ At1(w) \in {"check", "submit"}
    BY Zenon DEF HsmCheck, HsmSubmit, OnlyWork, OnlyWorker, user, past
  <1>2. CASE To(w, "submit")
    BY <1>1, <1>2, ToStill, Zenon DEF Pcs
  <1>3. ASSUME NEW r, Ends(w, r) PROVE CatalogInv'
    <2>1. work'[w] = [Idle EXCEPT !.result = r] /\ \A v \in Workers : v # w => work'[v] = work[v]
      BY <1>3, Zenon DEF Ends, Goes, CatalogInv, PurgeInv, Types
    <2>2. Shifts
      BY <1>1, NoShift, Zenon
    <2>3. \A v \in Workers : Remembers(v)' /\ Finds(v)'
      BY <1>1, <2>1, <2>2, EndAgrees, OthersFind, Zenon
    <2>4. At1(w)' = "idle"
      BY <2>1, EndAgrees, Zenon
    <2>5. \A o \in Objects, p \in Places : Seen(o, p)' => Seen(o, p)
      BY <1>1, <2>1, <2>4, Zenon DEF Seen, At1
    <2>. QED
      BY <1>1, <2>2, <2>3, <2>5, TablesKept, Zenon
  <1>. QED
    BY <1>2, <1>3, Zenon DEF HsmCheck, HsmSubmit

\* A crash leaves the tables and the workers' memory is gone.
LEMMA CrashAgrees ==
  ASSUME CatalogInv, PurgeInv', Crash
  PROVE  CatalogInv'
  <1>1. UNCHANGED <<world, cargo, link, made, targets, db, pend, been, back>>
    BY Zenon DEF Crash, OnlyWorker, user, past
  <1>2. \A w \in Workers : work'[w] = [Idle EXCEPT !.result = "crash"]
    BY Zenon DEF Crash
  <1>3. \A w \in Workers : Remembers(w)' /\ Finds(w)' /\ At1(w)' = "idle"
    BY <1>2, EndAgrees, Zenon
  <1>4. \A o \in Objects, p \in Places : Seen(o, p)' => Seen(o, p)
    BY <1>1, <1>3, Zenon DEF Seen
  <1>5. Shifts
    BY <1>1, NoShift, Zenon
  <1>. QED
    BY <1>1, <1>3, <1>4, <1>5, TablesKept, Zenon

-----------------------------------------------------------------------------
(* Steps that change the tables.                                             *)

\* The row that is written back has a name that its worker has seen.
LEMMA WriteStatusAgrees ==
  ASSUME CatalogInv, PurgeInv', NEW w \in Workers, WriteStatus(w)
  PROVE  CatalogInv'
  <1>1. /\ UNCHANGED <<world, cargo, link, made, targets, pend, been, back>>
        /\ At1(w) \in {"patch", "note"} /\ db' = Patched(w)
    BY Zenon DEF WriteStatus, OnlyWorker, user, past
  <1>2. /\ db'.edge = db.edge
        /\ work[w].row = None => db' = db
        /\ work[w].row # None => db'.entry[work[w].obj] \in FileRows
                                 /\ At(db'.entry[work[w].obj]) = At(work[w].row)
        /\ \A o \in Objects : o # work[w].obj => db'.entry[o] = db.entry[o]
    BY <1>1, PatchedFacts, Zenon DEF CatalogInv, PurgeInv
  <1>3. work[w].obj \in Objects
    BY <1>1, Zenon DEF CatalogInv, PurgeInv, Types, Shared, Holds, At1
  <1>4. \A o \in Objects : db'.entry[o] = None => db.entry[o] = None
    BY <1>2, <1>3, Constants, Zenon
  <1>5. /\ \A v \in Workers : v # w => work'[v] = work[v]
        /\ Remembers(w)' /\ Finds(w)'
        /\ At1(w)' = "idle" \/ (work'[w].obj = work[w].obj /\ work'[w].at = work[w].at /\ work'[w].row = work[w].row)
    <2>1. CASE At1(w) = "patch"
      <3>1. To(w, "unlink") /\ "unlink" \in Pcs
        BY <2>1, Zenon DEF WriteStatus, Pcs
      <3>2. Onward(w, "unlink") /\ \A v \in Workers : v # w => work'[v] = work[v]
        BY <1>1, <3>1, ToFacts, Zenon DEF CatalogInv, PurgeInv
      <3>. QED
        BY <1>1, <2>1, <3>2, Zenon DEF CatalogInv, Onward, Remembers, Finds, Unlinks, At1
    <2>2. CASE At1(w) = "note"
      <3>1. /\ work'[w] = [Idle EXCEPT !.result = work[w].result]
            /\ \A v \in Workers : v # w => work'[v] = work[v]
        BY <2>2, Zenon DEF WriteStatus, Ends, Goes, CatalogInv, PurgeInv, Types
      <3>. QED
        BY <3>1, EndAgrees, Zenon
    <2>. QED
      BY <1>1, <2>1, <2>2, ZenonT(30)
  <1>6. Shifts
    BY <1>1, NoShift, Zenon
  <1>7. ASSUME NEW v \in Workers PROVE Remembers(v)' /\ Finds(v)'
    <2>1. At1(v) # "idle" => work[v].obj \in Objects
      BY Zenon DEF CatalogInv, PurgeInv, Types, Shared, Holds, At1
    <2>. QED
      BY <1>4, <1>5, <1>6, <2>1, OthersFind, Zenon
  <1>8. \A o \in Objects, p \in Places : Seen(o, p)' => Seen(o, p)
    <2>1. At1(w) # "idle"
      BY <1>1, Zenon
    <2>2. \A o \in Objects, p \in Places : db'.entry[o] # None /\ At(db'.entry[o]) = p => Seen(o, p)
      BY <1>2, <1>3, <2>1, Zenon DEF Seen
    <2>. QED
      BY <1>5, <2>1, <2>2 DEF Seen, At1
  <1>9. Been'
    BY <1>1, <1>2, <1>3, ZenonT(30) DEF CatalogInv, Been, Remembers
  <1>10. Edges'
    <2>1. (\A o \in Live : db.entry[o] = None => o \in pend \cup back)'
      BY <1>1, <1>4, ZenonT(30) DEF CatalogInv, Edges, Live, Links
    <2>2. (\A o \in Objects, p, q \in Places :
             o \notin back /\ link[p] = o /\ Seen(o, p) /\ db.edge[q] = o => q = p)'
      BY <1>1, <1>2, <1>8, Zenon DEF CatalogInv, Edges
    <2>. QED
      BY <1>1, <1>2, <2>1, <2>2, Zenon DEF CatalogInv, Edges
  <1>. QED
    BY <1>7, <1>9, <1>10, Zenon DEF CatalogInv

\* The edge that a purge removes is one that ingest would remove too, or its object
\* came back.
LEMMA UnlinkRowAgrees ==
  ASSUME CatalogInv, PurgeInv', NEW w \in Workers, UnlinkRow(w)
  PROVE  CatalogInv'
  <1>1. /\ UNCHANGED <<world, cargo, link, made, targets, pend, been, back>>
        /\ At1(w) = "unlink" /\ db' = apply_scoped_unlink(db, work[w].path, work[w].obj, FALSE)
        /\ Ends(w, work[w].result)
    BY Zenon DEF UnlinkRow, OnlyWorker, user, past
  <1>2. PICK p \in Places, o \in Objects : p = work[w].path /\ o = work[w].obj
    BY <1>1, Zenon DEF CatalogInv, PurgeInv, Types, Shared, Holds, At1
  <1> DEFINE new == apply_scoped_unlink(db, p, o, FALSE)
  <1>3. /\ db.edge[p] # o => new = db
        /\ db.edge[p] = o =>
             /\ \A q \in Places : new.edge[q] = IF q = p THEN None ELSE db.edge[q]
             /\ \A x \in Objects : new.entry[x] = IF x = o THEN None ELSE db.entry[x]
    BY UnlinkFacts, Zenon DEF CatalogInv, PurgeInv, Types, Shared
  <1> HIDE DEF new
  <1>4. db' = new
    BY <1>1, <1>2, Zenon DEF new
  <1>5. work'[w] = [Idle EXCEPT !.result = work[w].result] /\ \A v \in Workers : v # w => work'[v] = work[v]
    BY <1>1, Zenon DEF Ends, Goes, CatalogInv, PurgeInv, Types
  <1>6. Remembers(w)' /\ Finds(w)' /\ At1(w)' = "idle"
    BY <1>5, EndAgrees, Zenon
  <1>7. Shifts
    BY <1>1, NoShift, Zenon
  <1>8. link[p] = o => o \in back
    BY <1>1, <1>2, Zenon DEF CatalogInv, Finds, Unlinks
  <1>9. ASSUME NEW v \in Workers PROVE Remembers(v)' /\ Finds(v)'
    <2>1. CASE v = w
      BY <1>6, <2>1, Zenon
    <2>2. CASE v # w
      <3>1. ASSUME At1(v) = "resolve", db'.entry[work[v].obj] = None, db.entry[work[v].obj] # None
            PROVE  Left(v)
        <4>1. work[v].obj \in Objects
          BY <3>1, ZenonT(30) DEF CatalogInv, PurgeInv, Types, Shared, Holds, At1
        <4>2. db.edge[p] = o /\ work[v].obj = o
          BY <1>3, <1>4, <3>1, <4>1, Zenon
        <4>3. CASE link[p] = o
          BY <1>8, <4>2, <4>3, Zenon DEF Left
        <4>4. CASE link[p] # o
          BY <3>1, <4>2, <4>4, StaleLeft, Zenon
        <4>. QED
          BY <4>3, <4>4, Zenon
      <3>. QED
        BY <1>5, <1>7, <2>2, <3>1, OthersFind, Zenon
    <2>. QED
      BY <2>1, <2>2, Zenon
  <1>10. CASE db.edge[p] # o
    <2>1. \A x \in Objects, q \in Places : Seen(x, q)' => Seen(x, q)
      BY <1>3, <1>4, <1>5, <1>6, <1>10, Zenon DEF Seen, At1
    <2>. QED
      BY <1>1, <1>3, <1>4, <1>7, <1>9, <1>10, <2>1, TablesKept, Zenon
  <1>11. CASE db.edge[p] = o
    <2>1. /\ \A q \in Places : db'.edge[q] = IF q = p THEN None ELSE db.edge[q]
          /\ \A x \in Objects : db'.entry[x] = IF x = o THEN None ELSE db.entry[x]
      BY <1>3, <1>4, <1>11, Zenon
    <2>2. \A x \in Objects, q \in Places : Seen(x, q)' => Seen(x, q)
      BY <1>5, <1>6, <2>1, ZenonT(30) DEF Seen, At1
    <2>3. Been'
      BY <1>1, <2>1, Zenon DEF CatalogInv, Been
    <2>4. (\A q \in Places : db.edge[q] # None /\ db.edge[q] # link[q] => db.edge[q] \in pend)'
      BY <1>1, <2>1, ZenonT(30) DEF CatalogInv, Edges
    <2>5. (\A q \in Places : link[q] # None /\ db.edge[q] # link[q] => link[q] \in pend \cup back)'
      BY <1>1, <1>8, <1>11, <2>1, ZenonT(30) DEF CatalogInv, Edges
    <2>6. (\A x \in Live : db.entry[x] = None => x \in pend \cup back)'
      <3>1. o \in pend \cup back
        BY <1>8, <1>11, Constants, ZenonT(30) DEF CatalogInv, Edges
      <3>. QED
        BY <1>1, <2>1, <3>1, Zenon DEF CatalogInv, Edges, Live, Links
    <2>7. (\A x \in Objects, r, q \in Places :
             x \notin back /\ link[r] = x /\ Seen(x, r) /\ db.edge[q] = x => q = r)'
      <3> SUFFICES ASSUME NEW x \in Objects, NEW r \in Places, NEW q \in Places,
                          x \notin back', link'[r] = x, Seen(x, r)', db'.edge[q] = x
                   PROVE  q = r
        BY Zenon
      <3>1. x # None
        BY Constants, Zenon
      <3>2. x \notin back /\ link[r] = x /\ Seen(x, r) /\ db.edge[q] = x
        BY <1>1, <2>1, <2>2, <3>1, Zenon
      <3>. QED
        BY <3>2, Zenon DEF CatalogInv, Edges
    <2>8. Edges'
      BY <2>4, <2>5, <2>6, <2>7, Zenon DEF Edges
    <2>. QED
      BY <1>9, <2>3, <2>8, Zenon DEF CatalogInv
  <1>. QED
    BY <1>10, <1>11, Zenon

\* Ingest makes the edges of an object its names, and its row has one of them.
LEMMA IngestAgrees ==
  ASSUME CatalogInv, PurgeInv', NEW o \in Objects, Ingest(o)
  PROVE  CatalogInv'
  <1>1. /\ UNCHANGED <<world, work, fate, cargo, targets, link, made, been, back>>
        /\ db' = Synced(o) /\ pend' = pend \ {o}
    BY Zenon DEF Ingest, user, past
  <1>2. /\ \A p \in Places : db'.edge[p] = IF link[p] = o THEN o ELSE IF db.edge[p] = o THEN None ELSE db.edge[p]
        /\ \A x \in Objects : x # o => db'.entry[x] = db.entry[x]
        /\ o \notin Live => db'.entry[o] = None
        /\ o \in Live => db'.entry[o] # None /\ At(db'.entry[o]) \in Links(o)
    <2>1. db \in Tables /\ link \in [Places -> Objects \cup {None}]
      BY Zenon DEF CatalogInv, PurgeInv, Types, Shared
    <2>. QED
      BY <1>1, <2>1, SyncedFacts
  <1>3. o # None
    BY Constants, Zenon
  <1>4. Been'
    <2>1. db'.entry[o] # None => <<o, At(db'.entry[o])>> \in been
      BY <1>2, <1>3, ZenonT(30) DEF Links, CatalogInv, Been
    <2>. QED
      BY <1>1, <1>2, <2>1, Zenon DEF CatalogInv, Been
  <1>5. Edges'
    <2>1. (\A p \in Places : db.edge[p] # None /\ db.edge[p] # link[p] => db.edge[p] \in pend)'
      BY <1>1, <1>2, ZenonT(30) DEF CatalogInv, Edges
    <2>2. (\A p \in Places : link[p] # None /\ db.edge[p] # link[p] => link[p] \in pend \cup back)'
      BY <1>1, <1>2, Zenon DEF CatalogInv, Edges
    <2>3. (\A x \in Live : db.entry[x] = None => x \in pend \cup back)'
      BY <1>1, <1>2, ZenonT(30) DEF CatalogInv, Edges, Live, Links
    <2>4. ASSUME NEW x \in Objects, NEW p \in Places, NEW q \in Places,
                 x \notin back, link[p] = x, Seen(x, p)', db'.edge[q] = x
          PROVE  q = p
      <3>1. CASE x = o
        <4>1. link[q] = o /\ link[p] = o
          BY <1>2, <1>3, <2>4, <3>1, Zenon
        <4>. QED
          BY <1>3, <4>1, Zenon DEF CatalogInv, PurgeInv, Namespace
      <3>2. CASE x # o
        <4>1. Seen(x, p)
          BY <1>1, <1>2, <2>4, <3>2, Zenon DEF Seen, At1
        <4>2. db.edge[q] = x
          BY <1>2, <2>4, <3>2, Constants, Zenon
        <4>. QED
          BY <2>4, <4>1, <4>2, Zenon DEF CatalogInv, Edges
      <3>. QED
        BY <3>1, <3>2, Zenon
    <2>. QED
      BY <1>1, <2>1, <2>2, <2>3, <2>4, ZenonT(30) DEF Edges
  <1>6. Shifts
    BY <1>1, NoShift, Zenon
  <1>7. ASSUME NEW v \in Workers PROVE Remembers(v)' /\ Finds(v)'
    <2>1. ASSUME At1(v) = "resolve", db'.entry[work[v].obj] = None, db.entry[work[v].obj] # None
          PROVE  Left(v)
      <3>1. work[v].obj \in Objects /\ work[v].at \in Places
        BY <2>1, ZenonT(30) DEF CatalogInv, PurgeInv, Types, Shared, Holds, At1
      <3>2. work[v].obj = o /\ o \notin Live
        BY <1>2, <2>1, <3>1, Zenon
      <3>. QED
        BY <3>1, <3>2, Zenon DEF Left, Live, Links
    <2>. QED
      BY <1>1, <1>6, <2>1, OthersFind, Zenon
  <1>. QED
    BY <1>4, <1>5, <1>7, Zenon DEF CatalogInv

-----------------------------------------------------------------------------
(* Steps that change the namespace.                                          *)

\* An object that moves to another place comes there.
LEMMA MoveShifts ==
  ASSUME PurgeInv, PurgeInv', NEW p \in Places, NEW q \in Places, link[p] # None, p # q,
         link' = [link EXCEPT ![p] = None, ![q] = link[p]],
         pend \subseteq pend', link[p] \in pend', link[q] # None => link[q] \in pend',
         Comes(link[p], q), made' = made
  PROVE  Shifts
  <1>1. link \in [Places -> Objects \cup {None}]
    BY Zenon DEF PurgeInv, Types, Shared
  <1>2. \A r \in Places : link'[r] = IF r = q THEN link[p] ELSE IF r = p THEN None ELSE link[r]
    BY <1>1, Zenon
  <1>3. \A o \in Objects, r \in Places : <<o, r>> \in been' => <<o, r>> \in been \/ link'[r] = o
    BY <1>2, Zenon DEF Comes
  <1>4. /\ been \subseteq been' /\ back \subseteq back' /\ <<link[p], q>> \in been'
        /\ <<link[p], q>> \in been => link[p] \in back'
    BY Zenon DEF Comes
  <1>5. \A r \in Places : link'[r] # link[r] /\ link'[r] # None => r = q /\ link'[r] = link[p]
    BY <1>2, Zenon
  <1>. QED
    BY <1>2, <1>3, <1>4, <1>5, Zenon DEF Shifts

\* An object that loses its name has a record for ingest.
LEMMA LossShifts ==
  ASSUME PurgeInv, NEW p \in Places, link' = [link EXCEPT ![p] = None],
         link[p] \in pend', UNCHANGED <<been, back, made>>
  PROVE  Shifts
  <1>1. link \in [Places -> Objects \cup {None}]
    BY Zenon DEF PurgeInv, Types, Shared
  <1>. QED
    BY <1>1, Zenon DEF Shifts

\* What users do to names.
LEMMA OperationAgrees ==
  ASSUME CatalogInv, PurgeInv', Operation
  PROVE  CatalogInv'
  <1>1. UNCHANGED <<world, work, db>>
    BY Zenon DEF Operation, Create, Rename, Delete, WriteFile, Uses
  <1>2. ASSUME Shifts, pend \subseteq pend' PROVE CatalogInv'
    <2>1. \A v \in Workers : Remembers(v)' /\ Finds(v)'
      BY <1>1, <1>2, OthersFind, Zenon
    <2>2. \A o \in Objects, p \in Places : Seen(o, p)' => Seen(o, p)
      BY <1>1, Zenon DEF Seen, At1
    <2>. QED
      BY <1>1, <1>2, <2>1, <2>2, TablesKept, Zenon
  <1>3. ASSUME NEW o \in Objects, NEW p \in Visible, Create(o, p) PROVE CatalogInv'
    <2>1. /\ link' = [link EXCEPT ![p] = o] /\ made' = made \cup {o} /\ pend' = pend \cup {o}
          /\ Comes(o, p) /\ link[p] = None /\ p \in Places
      BY <1>3, Zenon DEF Create, Visible
    <2>2. link \in [Places -> Objects \cup {None}]
      BY Zenon DEF CatalogInv, PurgeInv, Types, Shared
    <2>3. Shifts
      BY <2>1, <2>2, Zenon DEF Shifts, Comes
    <2>. QED
      BY <1>2, <2>1, <2>3, Zenon
  <1>4. ASSUME NEW p \in Visible, NEW q \in Visible, Rename(p, q) PROVE CatalogInv'
    <2>1. /\ UNCHANGED made /\ link' = [link EXCEPT ![p] = None, ![q] = link[p]]
          /\ pend' = pend \cup ({link[p], link[q]} \ {None})
          /\ Comes(link[p], q) /\ link[p] # None /\ p # q /\ p \in Places /\ q \in Places
      BY <1>4, Zenon DEF Rename, Visible
    <2>2. Shifts
      BY <2>1, MoveShifts, Zenon DEF CatalogInv
    <2>. QED
      BY <1>2, <2>1, <2>2, Zenon
  <1>5. ASSUME NEW p \in Visible, Delete(p) PROVE CatalogInv'
    <2>1. /\ UNCHANGED <<made, been, back>> /\ link' = [link EXCEPT ![p] = None]
          /\ pend' = pend \cup {link[p]} /\ p \in Places
      BY <1>5, Zenon DEF Delete, Visible
    <2>2. Shifts
      BY <2>1, LossShifts, ZenonT(30) DEF CatalogInv
    <2>. QED
      BY <1>2, <2>1, <2>2, Zenon
  <1>6. ASSUME NEW o \in Objects, WriteFile(o) PROVE CatalogInv'
    BY <1>2, <1>6, NoShift, Zenon DEF WriteFile
  <1>. QED
    BY <1>3, <1>4, <1>5, <1>6, Zenon DEF Operation

\* A purge moves its object to a quarantine name.
LEMMA CaptureAgrees ==
  ASSUME CatalogInv, PurgeInv', NEW w \in Workers, Capture(w)
  PROVE  CatalogInv'
  <1>1. UNCHANGED <<world, made, targets, db>> /\ At1(w) = "act"
    BY Zenon DEF Capture, user
  <1>2. CASE Fail(w) /\ UNCHANGED <<link, pend, past>>
    BY <1>1, <1>2, ToStill, Zenon DEF Fail, Pcs, past
  <1>3. ASSUME NEW q \in Asides, cargo[q] = None, link[work[w].path] # None, Moves(work[w].path, Kept(q)),
               Goes(w, [work[w] EXCEPT !.pc = "captured", !.aside = q])
        PROVE  CatalogInv'
    <2> DEFINE rec == [work[w] EXCEPT !.pc = "captured", !.aside = q]
    <2>1. work \in [Workers -> Jobs] /\ work[w] \in Jobs
      BY Zenon DEF CatalogInv, PurgeInv, Types
    <2>2. /\ rec.pc = "captured" /\ rec.path = work[w].path /\ rec.obj = work[w].obj /\ rec.at = work[w].at
          /\ rec.row = work[w].row
      BY <2>1, Zenon DEF Jobs
    <2>3. work' = [work EXCEPT ![w] = rec]
      BY <1>3, Zenon DEF Goes
    <2> HIDE DEF rec
    <2>4. work'[w] = rec /\ \A v \in Workers : v # w => work'[v] = work[v]
      BY <2>1, <2>3, Zenon
    <2>5. PICK p \in Places : p = work[w].path
      BY <1>1, Zenon DEF CatalogInv, PurgeInv, Holds, At1
    <2>6. Kept(q) \in Places /\ link[Kept(q)] = None
      BY <1>3, Constants, Zenon DEF CatalogInv, PurgeInv, Namespace
    <2>7. Shifts /\ pend \subseteq pend'
      <3>1. /\ link' = [link EXCEPT ![p] = None, ![Kept(q)] = link[p]] /\ pend' = pend \cup {link[p]}
            /\ Comes(link[p], Kept(q)) /\ link[p] # None /\ p # Kept(q)
        BY <1>3, <2>5, <2>6, Zenon DEF Moves
      <3>. QED
        BY <1>1, <2>6, <3>1, MoveShifts, Zenon DEF CatalogInv
    <2>8. Carries(w)
      BY <1>1, <2>2, <2>4, Zenon DEF Carries
    <2>9. Remembers(w)' /\ Finds(w)'
      BY <1>1, <2>2, <2>4, <2>7, ZenonT(30) DEF CatalogInv, Remembers, Finds, At1, Shifts
    <2>. QED
      BY <1>1, <2>7, <2>8, <2>9, CarriesOn, Zenon
  <1>. QED
    BY <1>2, <1>3, Zenon DEF Capture

\* It puts back what is not its object.
LEMMA RestoreAgrees ==
  ASSUME CatalogInv, PurgeInv', NEW w \in Workers, Restore(w)
  PROVE  CatalogInv'
  <1>1. UNCHANGED <<world, made, targets, cargo, db>> /\ At1(w) = "restore" /\ To(w, "failed") /\ "failed" \in Pcs
    BY Zenon DEF Restore, user, Fail, Pcs
  <1>2. CASE UNCHANGED <<link, pend, been, back>>
    BY <1>1, <1>2, ToStill, Zenon
  <1>3. CASE link[work[w].path] = None /\ Captured(w) # None /\ Moves(Kept(work[w].aside), work[w].path)
    <2>1. PICK p \in Places : p = work[w].path
      BY <1>1, ZenonT(30) DEF CatalogInv, PurgeInv, Holds, At1
    <2>2. PICK q \in Asides : q = work[w].aside
      BY <1>1, Zenon DEF CatalogInv, PurgeInv, Types, Jobs, Holds, At1
    <2>3. /\ Kept(q) \in Places /\ Kept(q) # p /\ link[p] = None /\ link[Kept(q)] # None
          /\ link' = [link EXCEPT ![Kept(q)] = None, ![p] = link[Kept(q)]]
          /\ pend' = pend \cup {link[Kept(q)]} /\ Comes(link[Kept(q)], p)
      BY <1>3, <2>1, <2>2, Constants, Zenon DEF Moves, Captured
    <2>4. Shifts /\ pend \subseteq pend'
      BY <1>1, <2>3, MoveShifts, ZenonT(30) DEF CatalogInv
    <2>. QED
      BY <1>1, <2>4, ToAgrees, Zenon
  <1>. QED
    BY <1>2, <1>3, Zenon DEF Restore

\* It removes its object.
LEMMA RemoveFileAgrees ==
  ASSUME CatalogInv, PurgeInv', NEW w \in Workers, RemoveFile(w)
  PROVE  CatalogInv'
  <1>1. /\ UNCHANGED <<world, made, targets, cargo, db, been, back>> /\ At1(w) = "remove"
        /\ To(w, "removed") /\ "removed" \in Pcs
    BY Zenon DEF RemoveFile, OnlyWorker, user, past, Pcs
  <1>2. PICK q \in Asides : q = work[w].aside
    BY <1>1, Zenon DEF CatalogInv, PurgeInv, Types, Jobs, Holds, At1
  <1>3. /\ Kept(q) \in Places /\ link' = [link EXCEPT ![Kept(q)] = None]
        /\ pend' = pend \cup {work[w].obj} /\ link[Kept(q)] # None
    BY <1>2, Constants, Zenon DEF RemoveFile, Captured
  <1>4. link[Kept(q)] = work[w].obj
    BY <1>1, <1>2, <1>3, ZenonT(30) DEF CatalogInv, PurgeInv, Namespace, Purges, At1
  <1>5. Shifts /\ pend \subseteq pend'
    BY <1>1, <1>3, <1>4, LossShifts, Zenon DEF CatalogInv
  <1>. QED
    BY <1>1, <1>5, ToAgrees, Zenon

-----------------------------------------------------------------------------
(* The invariant holds.                                                      *)

\* It holds at the start.
LEMMA CatalogInit ==
  ASSUME Init
  PROVE  CatalogInv
  <1>1. PurgeInv
    BY PurgeInit, Zenon
  <1>2. /\ \A p \in Places : link[p] = IF p = Home THEN First ELSE None
        /\ pend = {} /\ \A w \in Workers : work[w] = Idle
        /\ made = {First} /\ been = {<<First, Home>>} /\ back = {}
    BY Zenon DEF Init
  <1>3. PICK d \in Dirs \cup {Root}, n \in Names : Home = <<d, n>>
    BY FirstFile DEF Places
  <1>4. At(FileRow(Home)) = Home
    BY <1>3, Zenon DEF At, FileRow
  <1>5. /\ \A o \in Objects : db.entry[o] = IF o = First THEN FileRow(Home) ELSE None
        /\ \A p \in Places : db.edge[p] = IF p = Home THEN First ELSE None
    BY FirstTables, Zenon
  <1>6. First # None /\ FileRow(Home) # None
    BY FirstFile, Constants, Zenon
  <1>7. Been
    BY <1>2, <1>4, <1>5, <1>6, FirstFile, Zenon DEF Been
  <1>8. Edges
    <2>1. \A o \in Live : db.entry[o] # None
      BY <1>2, <1>5, <1>6, Constants, Zenon DEF Live, Links
    <2>2. \A o \in Objects, p, q \in Places : link[p] = o /\ db.edge[q] = o => q = p
      BY <1>2, <1>5, Constants, Zenon
    <2>3. \A p \in Places : db.edge[p] = link[p]
      BY <1>2, <1>5, Zenon
    <2>. QED
      BY <2>1, <2>2, <2>3, Zenon DEF Edges
  <1>9. \A w \in Workers : Remembers(w) /\ Finds(w)
    <2>1. ASSUME NEW w \in Workers PROVE work[w].pc = "idle" /\ work[w].row = None
      BY <1>2 DEF Idle
    <2>. QED
      BY <2>1, Zenon DEF Remembers, Finds, At1
  <1>. QED
    BY <1>1, <1>7, <1>8, <1>9, Zenon DEF CatalogInv

\* Every step keeps it.
LEMMA CatalogStep ==
  ASSUME CatalogInv, [Next]_vars
  PROVE  CatalogInv'
  <1>1. PurgeInv'
    BY PurgeStep, Zenon DEF CatalogInv
  <1>2. CASE Operation \/ Crash
    BY <1>1, <1>2, OperationAgrees, CrashAgrees, Zenon
  <1>3. ASSUME NEW o \in Objects, Ingest(o) PROVE CatalogInv'
    BY <1>1, <1>3, IngestAgrees, Zenon
  <1>4. CASE UNCHANGED <<world, work, db, link, pend, been, back, made>>
    <2>1. Shifts
      BY <1>4, NoShift, Zenon
    <2>2. \A v \in Workers : Remembers(v)' /\ Finds(v)'
      BY <1>4, <2>1, OthersFind, Zenon
    <2>3. \A o \in Objects, p \in Places : Seen(o, p)' => Seen(o, p)
      BY <1>4, Zenon DEF Seen, At1
    <2>. QED
      BY <1>1, <1>4, <2>1, <2>2, <2>3, TablesKept, Zenon
  <1>5. ASSUME NEW o \in Objects, NEW k \in HsmKinds, Coordinate(k, o) PROVE CatalogInv'
    BY <1>4, <1>5, Zenon DEF Coordinate, past
  <1>6. ASSUME NEW w \in Workers, Starts(w) PROVE CatalogInv'
    BY <1>1, <1>6, StartAgrees, Zenon DEF Starts
  <1>7. ASSUME NEW w \in Workers, Step(w) PROVE CatalogInv'
    <2>1. CASE Resolve(w) \/ VerifyPath(w)
      BY <1>1, <2>1, ResolveAgrees, VerifyPathAgrees, Zenon
    <2>2. CASE Capture(w) \/ Restore(w) \/ RemoveFile(w)
      BY <1>1, <2>2, CaptureAgrees, RestoreAgrees, RemoveFileAgrees, Zenon
    <2>3. CASE CheckCaptured(w) \/ CheckErrs(w) \/ RemoveErrs(w) \/ RestoreErrs(w) \/ Deliver(w)
      BY <1>1, <2>3, PlainAgrees, Zenon
    <2>4. CASE ReadStatus(w) \/ WriteStatus(w) \/ UnlinkRow(w)
      BY <1>1, <2>4, ReadStatusAgrees, WriteStatusAgrees, UnlinkRowAgrees, Zenon
    <2>5. CASE HsmCheck(w) \/ HsmSubmit(w)
      BY <1>1, <2>5, HsmAgrees, Zenon
    <2>. QED
      BY <1>7, <2>1, <2>2, <2>3, <2>4, <2>5, Zenon DEF Step
  <1>8. CASE UNCHANGED vars
    BY <1>4, <1>8, Zenon DEF vars
  <1>. QED
    BY <1>2, <1>3, <1>5, <1>6, <1>7, <1>8, Zenon DEF Next

\* The invariant gives the types and the agreement.
LEMMA Agreement ==
  ASSUME CatalogInv
  PROVE  ConvergedWhenQuiet
  <1>1. CatalogOK(db)
    <2>1. \A row \in FileRows : RowOK(row)
      <3> SUFFICES ASSUME NEW row \in FileRows PROVE RowOK(row)
        BY Zenon
      <3>1. row.nlink \in 0..MaxLinks
        BY CatalogAssumption DEF FileRows
      <3>2. StatusOK(row.sm)
        <4>1. CASE row.sm = None
          BY <4>1, Zenon DEF StatusOK
        <4>2. CASE row.sm # None
          <5>1. row.sm \in [last_action : Results]
            BY <4>2, Zenon DEF FileRows
          <5>2. DOMAIN row.sm = {"last_action"}
            BY <5>1, Zenon
          <5>. QED
            BY <5>2, Zenon DEF StatusOK
        <4>. QED
          BY <4>1, <4>2, Zenon
      <3>3. row.parent \in Dirs \cup {Root, None} /\ row.name \in Names /\ row.kind \in {"file", "dir"}
        BY Zenon DEF FileRows
      <3>. QED
        BY <3>1, <3>2, <3>3, Zenon DEF RowOK
    <2>. QED
      BY <2>1, Zenon DEF CatalogOK, CatalogInv, PurgeInv, Types, Shared, Tables
  <1>2. TypeOK
    BY <1>1, Zenon DEF TypeOK, CatalogInv, PurgeInv, Types, Shared, Holds, At1
  <1>3. ASSUME Quiet
        PROVE  /\ \A p \in Places : db.edge[p] # link[p] => link[p] \in back
               /\ \A o \in Live \ back : db.entry[o] # None
    BY <1>3, Zenon DEF Quiet, CatalogInv, Edges
  <1>. QED
    BY <1>2, <1>3, Zenon DEF ConvergedWhenQuiet

\* When ingest has no record left, catalog and namespace agree, but for files that came
\* back to a name they had left and files that a purge could not look up: purges remove
\* no edge and no row of any other file that is still there (execute_purge,
\* apply_scoped_unlink), however often calls fail and whenever the daemon dies.
THEOREM CatalogConverges == Spec => []ConvergedWhenQuiet
  <1>1. Init => CatalogInv
    BY CatalogInit, Zenon
  <1>2. CatalogInv /\ [Next]_vars => CatalogInv'
    BY CatalogStep, Zenon
  <1>3. CatalogInv => ConvergedWhenQuiet
    BY Agreement, Zenon
  <1>. QED
    BY <1>1, <1>2, <1>3, PTL DEF Spec
=============================================================================
