--------------------------- MODULE MCClassifiers ---------------------------
(* Classifiers and Predicates on small instances.                            *)
EXTENDS Classifiers, Predicates, TLC

CONSTANTS a1, a2, w1

MCObjects == 1..4
MCSizes == {0, 2048}
MCTimes == {9500000, 10000000}

Base == [size |-> 0, nlink |-> 1, atime |-> 9000000, mtime |-> 9000000, ctime |-> 9000000,
         uid |-> 0, gid |-> 0, depth |-> 0, stripe_count |-> Null,
         name |-> <<"a", "b">>, pool |-> Null, hsm_state |-> Null, xattr |-> <<>>, osts |-> {}]
MCNewRow(size) == [Base EXCEPT !.size = size]

\* Tags, with the ranks of "10", "9" and "hot" among the texts.
Number(n) == [kind |-> "number", text |-> IF n = 10 THEN 1 ELSE 2, num |-> n]
String(n) == [Number(n) EXCEPT !.kind = "string"]
Hot == [kind |-> "string", text |-> 3, num |-> 0]

MCSamples ==
  {Base,
   [Base EXCEPT !.size = 2048, !.stripe_count = 2, !.osts = {1}, !.name = <<"A", "b", "b">>],
   [Base EXCEPT !.pool = <<"a">>, !.hsm_state = "archived", !.xattr = (<<"tier">> :> Hot), !.name = <<"b">>],
   [Base EXCEPT !.hsm_state = "none", !.xattr = (<<"tier">> :> String(10) @@ <<"own">> :> Number(9)), !.name = <<>>],
   [Base EXCEPT !.name = <<"a", "%", "a", "b">>, !.pool = <<"A">>, !.stripe_count = 0,
                !.xattr = (<<"user", "tier">> :> Hot @@ <<"own">> :> Number(10))],
   [Base EXCEPT !.name = <<"a", Raw>>]}

MCLeaves ==
  {True, False,
   [op |-> "cmp", field |-> "size", cmp |-> ">=", value |-> 2048],
   [op |-> "cmp", field |-> "stripe_count", cmp |-> "<", value |-> 1],
   [op |-> "like", pattern |-> <<"a", "%", "b">>],
   [op |-> "like", pattern |-> <<"%", "b", "_">>],
   [op |-> "like", pattern |-> <<"%", "_", "%", "%", "b">>],
   [op |-> "like", pattern |-> <<"a", Escape, "%", "%">>],
   [op |-> "ilike", pattern |-> <<"A", "%">>],
   [op |-> "regex", part |-> <<"a">>, rust |-> TRUE, sql |-> TRUE],
   [op |-> "regex", part |-> <<"b">>, rust |-> FALSE, sql |-> TRUE],
   [op |-> "xattr", key |-> <<"tier">>, cmp |-> "!=", value |-> Hot],
   [op |-> "xattr", key |-> <<"own">>, cmp |-> "<", value |-> Number(10)],
   [op |-> "xattr", key |-> <<"user", "tier">>, cmp |-> "=", value |-> Hot],
   [op |-> "pool", pool |-> <<"a">>],
   [op |-> "hsm", state |-> "archived"],
   [op |-> "tags", match_tags |-> (<<"tier">> :> String(10) @@ <<"own">> :> String(9))],
   [op |-> "tags", match_tags |-> (<<"tier">> :> Hot)],
   [op |-> "tags", match_tags |-> <<>>],
   [op |-> "ost", osts |-> {1, 2}]}

Term(field, cmp, minus, n, unit) ==
  [field |-> field, cmp |-> cmp, value |-> [minus |-> minus, n |-> n, unit |-> unit]]
Rule(when, set) == [when |-> when, set |-> set]
Def(rules, enabled) == [manages |-> {"tier", "own"}, rules |-> rules, enabled |-> enabled]

Big == <<Term("size", ">=", FALSE, 2, "KB"), Term("atime", "<", TRUE, 7, "d")>>
MCDefs ==
  {Def(<<Rule(Big, "tier" :> 1), Rule(Null, "own" :> 3)>>, TRUE),
   Def(<<Rule(<<Term("nlink", "=", FALSE, 1, "none"), Term("size", "<", FALSE, 1, "KB")>>, "tier" :> 2)>>, TRUE),
   Def(<<Rule(Null, "tier" :> 4)>>, FALSE),
   Def(<<Rule(<<Term("owner", "=", FALSE, 1, "none")>>, "tier" :> 5)>>, TRUE)}

Bound(e, rec, rm, r, p, f) ==
  [edits |-> e, records |-> rec, removals |-> rm, runs |-> r, patches |-> p, failures |-> f]
MCBudgets ==
  {Bound(1, 1, 0, 1, 0, 0), Bound(0, 1, 0, 1, 1, 0), Bound(0, 1, 1, 1, 0, 1), Bound(3, 1, 0, 0, 0, 1)}
\* The rows that the initial scan wrote: more than MaxEntries where they are patched.
Scanned(budget) ==
  IF budget.patches > 0 THEN Objects
  ELSE IF budget.removals > 0 THEN Objects \ {2}
  ELSE IF budget.runs > 0 THEN {1, 3} ELSE {}
MCKeys == {"tier", "own"}
MCValues == 1..5

\* The two ways to evaluate a condition agree.
ASSUME \A d \in MCDefs : \A i \in DOMAIN d.rules :
  LET p == IF d.rules[i].when = Null THEN Null ELSE parse_when(d.rules[i].when, 10000000)
  IN p # Null => \A r \in Samples : when_matches(p, r) <=> matches(p, r)

\* Predicates grow in some behaviours, classifiers are edited in the others.
MCInit ==
  \/ PredInit /\ ClassifierInit([w \in Bounded |-> 0])
        /\ store = Null /\ now = 10000000 /\ \A o \in Objects : rows[o] = Null
  \/ row = Base /\ pred = True /\ depth = MaxDepth
     /\ \E b \in Budgets : /\ rows = [o \in Objects |-> IF o \in Scanned(b) THEN NewRow(0) ELSE Null]
                           /\ now = 9500000 /\ ClassifierInit(b)
MCNext ==
  \/ PredNext /\ UNCHANGED cvars
  \/ Next /\ UNCHANGED pvars
MCSpec == MCInit /\ [][MCNext]_<<pvars, cvars>>
Symmetric == Permutations(Admins)
=============================================================================
