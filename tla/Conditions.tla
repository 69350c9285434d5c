----------------------------- MODULE Conditions -----------------------------
(***************************************************************************)
(* The rules of a classifier (rbh-policy/src/classifier.rs).  A when       *)
(* expression is a sequence of terms, each a field, an operator, a number  *)
(* and a unit, or none; times may be relative to the clock.  It is parsed, *)
(* at every evaluation, into a predicate, which is evaluated in memory; at *)
(* is the time, in seconds, that the clock shows then.                     *)
(*                                                                         *)
(* A row has integer columns, some of which may be Null, a name (a         *)
(* sequence of characters), and the two members hsm_state and xattr of     *)
(* sm_status.                                                              *)
(***************************************************************************)
EXTENDS Integers, Sequences

CONSTANT Null

And(children) == [op |-> "and", children |-> children]

cmp_ord(x, cmp, y) ==
  CASE cmp = "=" -> x = y [] cmp = "!=" -> x # y [] cmp = ">" -> x > y
    [] cmp = ">=" -> x >= y [] cmp = "<" -> x < y [] cmp = "<=" -> x <= y

extract_field(field, r) == IF r[field] = Null THEN 0 ELSE r[field]

Tag(r, key) == IF key \in DOMAIN r.xattr THEN r.xattr[key] ELSE Null

TimeUnit(u) == CASE u = "d" -> 86400 [] u = "h" -> 3600 [] u = "m" -> 60
parse_time_value(v, at) ==
  IF v.minus THEN IF v.unit \in {"d", "h", "m"} THEN at - v.n * TimeUnit(v.unit) ELSE Null
  ELSE IF v.unit = "none" THEN v.n ELSE Null

SizeUnit(u) ==
  CASE u = "none" -> 1 [] u = "KB" -> 1024 [] u = "MB" -> 1024 * 1024
    [] u = "GB" -> 1024 * 1024 * 1024 [] u = "TB" -> 1024 * 1024 * 1024 * 1024
parse_numeric_value(v) ==
  IF v.unit \notin {"none", "KB", "MB", "GB", "TB"} THEN Null
  ELSE (IF v.minus THEN -v.n ELSE v.n) * SizeUnit(v.unit)

TimeFields == {"atime", "mtime", "ctime"}
WhenFields == TimeFields \cup {"size", "uid", "gid", "depth", "nlink"}
parse_term(term, at) ==
  LET value == IF term.field \in TimeFields THEN parse_time_value(term.value, at)
                                            ELSE parse_numeric_value(term.value)
  IN IF term.field \notin WhenFields \/ value = Null THEN Null
     ELSE [op |-> "cmp", field |-> term.field, cmp |-> term.cmp, value |-> value]
parse_when(terms, at) ==
  LET parsed == [i \in DOMAIN terms |-> parse_term(terms[i], at)]
  IN IF terms = <<>> \/ \E i \in DOMAIN parsed : parsed[i] = Null THEN Null
     ELSE IF Len(terms) = 1 THEN parsed[1] ELSE And(parsed)

\* rbh_predicate::matches on what parse_when returns, a comparison or a
\* conjunction of them.
Comparisons(p) == IF p.op = "and" THEN {p.children[i] : i \in DOMAIN p.children} ELSE {p}
when_matches(p, r) == \A c \in Comparisons(p) : cmp_ord(extract_field(c.field, r), c.cmp, c.value)

\* The first rule that matches decides; a rule without condition always does,
\* and one that cannot be parsed never.
RuleMatches(rule, r, at) ==
  rule.when = Null \/ LET p == parse_when(rule.when, at) IN p # Null /\ when_matches(p, r)
Hits(rules, r, at) == {i \in DOMAIN rules : RuleMatches(rules[i], r, at)}
evaluate_classifier(rules, r, at) ==
  LET hit == Hits(rules, r, at)
  IN IF hit = {} THEN Null ELSE rules[CHOOSE i \in hit : \A j \in hit : i <= j].set
=============================================================================
