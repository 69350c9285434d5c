---------------------------- MODULE Classifiers ----------------------------
(***************************************************************************)
(* Classifiers tag catalog rows.  Their definitions are rows of the        *)
(* database, edited by REST handlers; every edit is followed by a reload   *)
(* of a cache that changelog ingest reads under a lock                     *)
(* (rbh-api/src/classifier_handlers.rs, rbh-daemon/src/changelog.rs).      *)
(* run_classifier tags the catalog page by page, up to MaxEntries rows.    *)
(* Tags are written by reading a row, changing it and writing it back; so  *)
(* is the rest of sm_status, by the HSM poller and by actions              *)
(* (patch_scoped_sm_status), whose copy of the row may be old by then.     *)
(*                                                                         *)
(* There is one classifier and one ingest loop.  now is the clock.  ready, *)
(* stale, missed, since and asOf are history: whether a run returned       *)
(* undisturbed since the last edit, whether the cache may have missed an   *)
(* edit, the objects that may have been left without their tags since the  *)
(* last run began, when that was, and when the rules were last evaluated   *)
(* on each object.                                                         *)
(***************************************************************************)
EXTENDS Conditions, FiniteSets

CONSTANTS
  Admins,    \* handlers that may run at once
  Patchers,  \* writers of sm_status
  Objects,   \* a set of integers: ids order the pages
  NewRow(_), \* what ingest writes for a file of some size
  Sizes,
  Keys,      \* of tags
  Values,
  Defs,      \* definitions that clients send
  PageSize,
  MaxEntries, \* MAX_ENTRIES
  Times,     \* what the clock may show
  Budgets    \* bounds on edits, ingested records, removals, runs, patches and failures

Tags == UNION {[K -> Values] : K \in SUBSET Keys}
Terms == [field : STRING, cmp : STRING, value : [minus : BOOLEAN, n : Nat, unit : STRING]]
Comps == [op : {"cmp"}, field : STRING, cmp : STRING, value : Int]
Conds == Comps \cup [op : {"and"}, children : Seq(Comps)]
RowOf(s, z, t) == [NewRow(s) EXCEPT !.size = z, !.xattr = t]
Bounded == {"edits", "records", "removals", "runs", "patches", "failures"}
Rows == UNION {UNION {{RowOf(s, z, t) : t \in Tags} : z \in Sizes} : s \in Sizes}

\* The columns that conditions name are columns of the table.
ASSUME ClassifierAssumption ==
  /\ IsFiniteSet(Objects) /\ Objects \subseteq Int
  /\ PageSize \in Nat \ {0} /\ MaxEntries \in Nat \ {0} /\ Times \subseteq Int
  /\ \A s \in Sizes : /\ NewRow(s) = [c \in DOMAIN NewRow(s) |-> NewRow(s)[c]]
                      /\ WhenFields \cup {"xattr"} \subseteq DOMAIN NewRow(s)
                      /\ NewRow(s).size \in Sizes /\ NewRow(s).xattr \in Tags
  /\ \A d \in Defs : d.rules \in Seq({d.rules[i] : i \in DOMAIN d.rules})
  /\ \A d \in Defs : \A i \in DOMAIN d.rules :
       /\ d.rules[i].set \in Tags
       /\ d.rules[i].when = Null \/ d.rules[i].when \in Seq(Terms)
  /\ Null \notin Int /\ Null \notin Conds /\ Null \notin Defs /\ Null \notin Tags /\ Null \notin Rows
  /\ \A b \in Budgets : b \in [Bounded -> Nat]

VARIABLES rows, store, cache, admin, ing, run, patch, now, ready, stale, missed, since, asOf, left
cvars == <<rows, store, cache, admin, ing, run, patch, now, ready, stale, missed, since, asOf, left>>

AdminIdle == [pc |-> "idle", list |-> Null]
IngIdle == [pc |-> "idle", obj |-> Null, def |-> Null, set |-> Null, row |-> Null]
RunIdle == [pc |-> "idle", def |-> Null, offset |-> 0, batch |-> <<>>, full |-> FALSE, set |-> Null,
            row |-> Null, alone |-> FALSE]
PatchIdle == [obj |-> Null, row |-> Null]

validate_classifier(def) ==
  /\ def.manages # {} /\ def.rules # <<>>
  /\ \A i \in DOMAIN def.rules : def.rules[i].when # Null => parse_when(def.rules[i].when, now) # Null

\* The daemon starts with what the table of definitions holds, or with nothing when listing it
\* fails; the catalog is empty or has rows without tags, from the initial scan.
ClassifierInit(budget) ==
  /\ rows \in [Objects -> {NewRow(s) : s \in Sizes} \cup {Null}]
  /\ now \in Times
  /\ store \in {d \in Defs : validate_classifier(d)} \cup {Null}
  /\ cache \in {store, Null} /\ stale = (cache # store)
  /\ admin = [a \in Admins |-> AdminIdle]
  /\ ing = IngIdle /\ run = RunIdle /\ patch = [w \in Patchers |-> PatchIdle]
  /\ ready = FALSE /\ missed = {}
  /\ since = now /\ asOf = [o \in Objects |-> now]
  /\ left = budget

Live == {o \in Objects : rows[o] # Null}
Spend(what) == left[what] > 0 /\ left' = [left EXCEPT ![what] = @ - 1]

-----------------------------------------------------------------------------
(* The handlers that edit the classifier.                                    *)

Edit(a, def) ==
  /\ admin[a].pc = "idle" /\ Spend("edits")
  /\ store' = def
  /\ admin' = [admin EXCEPT ![a].pc = "list"]
  /\ stale' = (\E b \in Admins \ {a} : admin[b].pc # "idle")
  /\ ready' = FALSE
  /\ run' = [run EXCEPT !.alone = FALSE]
  /\ UNCHANGED <<rows, cache, ing, patch, now, missed, since, asOf>>
create_classifier(a, def) == store = Null /\ validate_classifier(def) /\ Edit(a, def)
update_classifier(a, def) == store # Null /\ validate_classifier(def) /\ Edit(a, def)
delete_classifier(a) == store # Null /\ Edit(a, Null)

\* reload_cache: list the database, then replace the cache under its lock.
ReloadList(a) ==
  /\ admin[a].pc = "list"
  /\ admin' = [admin EXCEPT ![a] = [pc |-> "swap", list |-> store]]
  /\ UNCHANGED <<rows, store, cache, ing, run, patch, now, ready, stale, missed, since, asOf, left>>
ReloadFails(a) ==
  /\ admin[a].pc = "list" /\ Spend("failures")
  /\ admin' = [admin EXCEPT ![a] = AdminIdle] /\ stale' = TRUE
  /\ UNCHANGED <<rows, store, cache, ing, run, patch, now, ready, missed, since, asOf>>
Locked == ing.pc \in {"get", "write"}
\* Fault: the handler keeps what was in the cache.
SwapDropped(a) ==
  /\ admin[a].pc = "swap" /\ ~Locked
  /\ admin' = [admin EXCEPT ![a] = AdminIdle]
  /\ UNCHANGED <<rows, store, cache, ing, run, patch, now, ready, stale, missed, since, asOf, left>>
ReloadSwap(a) ==
  /\ admin[a].pc = "swap" /\ ~Locked
  /\ cache' = admin[a].list
  /\ admin' = [admin EXCEPT ![a] = AdminIdle]
  /\ UNCHANGED <<rows, store, ing, run, patch, now, ready, stale, missed, since, asOf, left>>

-----------------------------------------------------------------------------
(* Writing tags.                                                              *)

\* Fault: the keys that the classifier owns are not cleared first.
XattrKeepsKeys(r, set, manages) ==
  [r EXCEPT !.xattr = [k \in DOMAIN @ \cup DOMAIN set |-> IF k \in DOMAIN set THEN set[k] ELSE @[k]]]
update_scoped_xattr(r, set, manages) ==
  [r EXCEPT !.xattr = [k \in (DOMAIN @ \ manages) \cup DOMAIN set |->
                         IF k \in DOMAIN set THEN set[k] ELSE @[k]]]

(* Changelog ingest: apply_event, then apply_classifiers with the cache.      *)
Ingest(o, size) ==
  /\ ing.pc = "idle" /\ Spend("records")
  /\ rows' = [rows EXCEPT ![o] = IF @ = Null THEN NewRow(size) ELSE [@ EXCEPT !.size = size]]
  /\ ing' = [ing EXCEPT !.pc = "lock", !.obj = o]
  /\ missed' = IF run.pc = "idle" THEN missed \ {o} ELSE missed \cup {o}
  /\ UNCHANGED <<store, cache, admin, run, patch, now, ready, stale, since, asOf>>
IngestRemoves(o) ==
  /\ ing.pc = "idle" /\ rows[o] # Null /\ Spend("removals")
  /\ rows' = [rows EXCEPT ![o] = Null]
  /\ run' = [run EXCEPT !.alone = FALSE]
  /\ UNCHANGED <<store, cache, admin, ing, patch, now, ready, stale, missed, since, asOf>>
IngestLocks ==
  /\ ing.pc = "lock"
  /\ LET used == cache # Null /\ cache.enabled
         set == IF used THEN evaluate_classifier(cache.rules, rows[ing.obj], now) ELSE Null
     IN /\ ing' = IF set = Null THEN IngIdle ELSE [ing EXCEPT !.pc = "get", !.def = cache, !.set = set]
        /\ asOf' = IF used THEN [asOf EXCEPT ![ing.obj] = now] ELSE asOf
  /\ UNCHANGED <<rows, store, cache, admin, run, patch, now, ready, stale, missed, since, left>>
IngestGets ==
  /\ ing.pc = "get"
  /\ ing' = [ing EXCEPT !.pc = "write", !.row = rows[ing.obj]]
  /\ UNCHANGED <<rows, store, cache, admin, run, patch, now, ready, stale, missed, since, asOf, left>>
IngestTags ==
  /\ ing.pc = "write"
  /\ rows' = [rows EXCEPT ![ing.obj] = update_scoped_xattr(ing.row, ing.set, ing.def.manages)]
  /\ ing' = IngIdle
  /\ UNCHANGED <<store, cache, admin, run, patch, now, ready, stale, missed, since, asOf, left>>
\* Reading the row again or writing it fails: the batch is given up, and will be replayed.
IngestFails ==
  /\ ing.pc # "idle" /\ Spend("failures")
  /\ ing' = IngIdle /\ missed' = missed \cup {ing.obj}
  /\ UNCHANGED <<rows, store, cache, admin, run, patch, now, ready, stale, since, asOf>>

(* patch_scoped_sm_status: the copy of the row is written back whole, with a  *)
(* new hsm_state or the like, which neither rules nor tags depend on; a row    *)
(* that was removed in between is written again.                              *)
PatchReads(w, o) ==
  /\ patch[w] = PatchIdle /\ rows[o] # Null /\ Spend("patches")
  /\ patch' = [patch EXCEPT ![w] = [obj |-> o, row |-> rows[o]]]
  /\ UNCHANGED <<rows, store, cache, admin, ing, run, now, ready, stale, missed, since, asOf>>
PatchWrites(w) ==
  /\ patch[w] # PatchIdle
  /\ rows' = [rows EXCEPT ![patch[w].obj] = patch[w].row]
  /\ missed' = IF rows[patch[w].obj] = patch[w].row THEN missed ELSE missed \cup {patch[w].obj}
  /\ patch' = [patch EXCEPT ![w] = PatchIdle]
  /\ UNCHANGED <<store, cache, admin, ing, run, now, ready, stale, since, asOf, left>>

-----------------------------------------------------------------------------
(* run_classifier.                                                            *)

RunStarts ==
  /\ run.pc = "idle" /\ store # Null /\ store.enabled /\ Spend("runs")
  /\ run' = [RunIdle EXCEPT !.pc = "page", !.def = store,
                            !.alone = \A a \in Admins : admin[a].pc = "idle"]
  /\ missed' = IF ing.pc = "idle" THEN {} ELSE {ing.obj}
  /\ ready' = FALSE /\ since' = now
  /\ UNCHANGED <<rows, store, cache, admin, ing, patch, now, stale, asOf>>

\* The pages are cut from the rows in the order of their ids.
Rank(o) == Cardinality({x \in Live : x < o})
OnPage(offset, limit) == {o \in Live : Rank(o) >= offset /\ Rank(o) < offset + limit}
Page(offset, limit) ==
  [i \in 1..Cardinality(OnPage(offset, limit)) |->
     LET o == CHOOSE x \in OnPage(offset, limit) : Rank(x) = offset + i - 1
     IN [obj |-> o, row |-> rows[o]]]
Limit == IF PageSize <= MaxEntries - run.offset THEN PageSize ELSE MaxEntries - run.offset
RunReturns == run' = RunIdle /\ ready' = run.alone
RunPages ==
  /\ run.pc = "page" /\ run.offset < MaxEntries
  /\ LET batch == Page(run.offset, Limit)
     IN IF batch = <<>> THEN RunReturns
        ELSE /\ run' = [run EXCEPT !.pc = "tag", !.batch = batch, !.full = Len(batch) = Limit,
                                   !.offset = @ + Len(batch)]
             /\ UNCHANGED ready
  /\ UNCHANGED <<rows, store, cache, admin, ing, patch, now, stale, missed, since, asOf, left>>
\* The run has scanned MaxEntries rows and leaves the others alone.
RunCapped ==
  /\ run.pc = "page" /\ run.offset >= MaxEntries
  /\ RunReturns
  /\ missed' = missed \cup {o \in Live : Rank(o) >= run.offset}
  /\ UNCHANGED <<rows, store, cache, admin, ing, patch, now, stale, since, asOf, left>>
\* A page that cannot be read ends the run with an error.
RunFails ==
  /\ run.pc = "page" /\ Spend("failures")
  /\ run' = RunIdle
  /\ UNCHANGED <<rows, store, cache, admin, ing, patch, now, ready, stale, missed, since, asOf>>

Entry == Head(run.batch)
RunTags == evaluate_classifier(run.def.rules, Entry.row, now)
Rest == [run EXCEPT !.pc = "tag", !.batch = Tail(@), !.set = Null, !.row = Null]
RunGets ==
  /\ run.pc = "tag" /\ run.batch # <<>>
  /\ run' = IF RunTags = Null \/ rows[Entry.obj] = Null THEN Rest
            ELSE [run EXCEPT !.pc = "write", !.set = RunTags, !.row = rows[Entry.obj]]
  /\ asOf' = [asOf EXCEPT ![Entry.obj] = now]
  /\ UNCHANGED <<rows, store, cache, admin, ing, patch, now, ready, stale, missed, since, left>>
RunWrites ==
  /\ run.pc = "write"
  /\ rows' = [rows EXCEPT ![Entry.obj] = update_scoped_xattr(run.row, run.set, run.def.manages)]
  /\ run' = Rest
  /\ UNCHANGED <<store, cache, admin, ing, patch, now, ready, stale, missed, since, asOf, left>>
\* An update that fails is counted, and the run goes on.
RunWriteFails ==
  /\ run.pc = "write" /\ Spend("failures")
  /\ run' = Rest /\ missed' = missed \cup {Entry.obj}
  /\ UNCHANGED <<rows, store, cache, admin, ing, patch, now, ready, stale, since, asOf>>
RunPageDone ==
  /\ run.pc = "tag" /\ run.batch = <<>>
  /\ IF run.full THEN run' = [run EXCEPT !.pc = "page"] /\ UNCHANGED ready ELSE RunReturns
  /\ UNCHANGED <<rows, store, cache, admin, ing, patch, now, stale, missed, since, asOf, left>>

-----------------------------------------------------------------------------
Handlers ==
  \E a \in Admins :
    \/ \E d \in Defs : create_classifier(a, d) \/ update_classifier(a, d)
    \/ delete_classifier(a)
    \/ ReloadList(a) \/ ReloadFails(a) \/ ReloadSwap(a)
IngestStep ==
  \/ \E o \in Objects : IngestRemoves(o) \/ \E s \in Sizes : Ingest(o, s)
  \/ IngestLocks \/ IngestGets \/ IngestTags \/ IngestFails
PatchStep == \E w \in Patchers : PatchWrites(w) \/ \E o \in Objects : PatchReads(w, o)
RunStep ==
  \/ RunStarts \/ RunPages \/ RunCapped \/ RunFails
  \/ RunGets \/ RunWrites \/ RunWriteFails \/ RunPageDone
Tick ==
  /\ \E t \in Times : t > now /\ now' = t
  /\ UNCHANGED <<rows, store, cache, admin, ing, run, patch, ready, stale, missed, since, asOf, left>>

Init == \E b \in Budgets : ClassifierInit(b)
Next == Handlers \/ IngestStep \/ PatchStep \/ RunStep \/ Tick
Spec == Init /\ [][Next]_cvars

-----------------------------------------------------------------------------
(* Types, and that a definition with a rule that cannot be parsed is never    *)
(* stored, so that neither the cache nor a run ever holds one.                *)
TypeOK ==
  /\ {store, cache, run.def, ing.def} \subseteq Defs \cup {Null}
  /\ \A d \in {store, cache, run.def, ing.def} \ {Null} : \A i \in DOMAIN d.rules :
       d.rules[i].when # Null => parse_when(d.rules[i].when, now) # Null
  /\ \A o \in Live : rows[o].size \in Sizes
  /\ run.pc \in {"idle", "page", "tag", "write"} /\ run.offset <= Cardinality(Objects)
  /\ missed \subseteq Objects

(* When no handler is running, ingest classifies with the definition that is  *)
(* stored: reload_cache lists and replaces in two steps, which is right after *)
(* every edit that overlapped no other and whose list did not fail.  Edits    *)
(* that overlap, and a list that fails, at the start or in a reload, are set  *)
(* apart by stale: after them the cache may hold another definition until the *)
(* next edit.                                                                 *)
(* The types hold in every state.                                             *)
CacheIsStored ==
  /\ TypeOK
  /\ (\A a \in Admins : admin[a].pc = "idle") /\ ~stale => cache = store

(* After run_classifier has returned, and until the next edit, every row has  *)
(* under the keys that the classifier manages exactly the tags of the first   *)
(* rule that matched it when it was last evaluated, if one did; and that was  *)
(* not before the run began, whatever ingest changed and however the clock    *)
(* moved since then.  (The row keeps those tags when it ages into another     *)
(* rule.)  It is so for a run that no edit or removal overlapped, and all     *)
(* rows but those in missed: the rows beyond MaxEntries, the ones that ingest *)
(* wrote while the run was under way, the ones on which an update failed, and *)
(* the ones that a writer of sm_status put back to an older copy.             *)
TagsFollowRules ==
  ready /\ ~stale /\ ing.pc = "idle" /\ run.pc = "idle"
    => \A o \in Live \ missed :
         LET set == evaluate_classifier(store.rules, rows[o], asOf[o])
         IN /\ asOf[o] >= since
            /\ set # Null => \A k \in store.manages :
                               Tag(rows[o], k) = IF k \in DOMAIN set THEN set[k] ELSE Null
=============================================================================
