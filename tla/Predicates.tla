----------------------------- MODULE Predicates -----------------------------
(***************************************************************************)
(* Predicates over catalog rows, which robinhood evaluates in two places:  *)
(* in memory when it classifies (rbh-predicate/src/eval.rs), and in the    *)
(* database when it selects (rbh-predicate/src/sql.rs builds the WHERE     *)
(* clause).  A clause has the value true, false or Null, and selects the   *)
(* rows for which it is true.                                              *)
(*                                                                         *)
(* A predicate is a record with a field op; a row is as in Conditions.     *)
(* Texts that are compared by their characters are sequences of these.  A  *)
(* tag is a member of the JSON object xattr: a string or a number, with    *)
(* the rank of its text among all texts and the number that SQL makes of   *)
(* the text.  Its key is cut at the dots.  A regular expression is reduced *)
(* to a text that is looked for anywhere in the name, and to whether the   *)
(* crate regex and the database accept its syntax.                         *)
(***************************************************************************)
EXTENDS Conditions

CONSTANTS
  Samples,  \* the rows that predicates are tried on
  Leaves,   \* predicates without children
  MaxLike,  \* MAX_LIKE_PATTERN_LEN
  MaxDepth  \* how often a predicate is extended

VARIABLES row, pred, depth
pvars == <<row, pred, depth>>

True  == [op |-> "true"]
False == [op |-> "false"]
Or(children)  == [op |-> "or", children |-> children]
Not(inner)    == [op |-> "not", inner |-> inner]

-----------------------------------------------------------------------------
(* In memory.                                                               *)

RECURSIVE like_match(_, _)
like_match(text, pattern) ==
  IF pattern = <<>> THEN text = <<>>
  ELSE CASE Head(pattern) = "%" ->
              \E i \in 0..Len(text) : like_match(SubSeq(text, i + 1, Len(text)), Tail(pattern))
         [] Head(pattern) = "_" -> text # <<>> /\ like_match(Tail(text), Tail(pattern))
         [] OTHER -> /\ text # <<>> /\ Head(text) = Head(pattern)
                     /\ like_match(Tail(text), Tail(pattern))

\* ASCII case folding, for the letters that occur.
Fold(text) == [i \in DOMAIN text |-> IF text[i] = "A" THEN "a" ELSE text[i]]
name_like(text, pattern) == Len(pattern) <= MaxLike /\ like_match(text, pattern)

\* Both kinds of regular expression are searched for.
Contains(text, part) ==
  \E i \in 0..(Len(text) - Len(part)) : SubSeq(text, i + 1, i + Len(part)) = part
\* A name with a byte that is not UTF-8.
Raw == "\\xff"
is_utf8(text) == \A i \in DOMAIN text : text[i] # Raw

\* A string is compared with a string, a number with a number.
compare(x, cmp, y) ==
  x.kind = y.kind /\ IF y.kind = "string" THEN cmp_ord(x.text, cmp, y.text) ELSE cmp_ord(x.num, cmp, y.num)

leaf_matches(p, r) ==
  CASE p.op = "true"  -> TRUE
    [] p.op = "false" -> FALSE
    [] p.op = "cmp"   -> cmp_ord(extract_field(p.field, r), p.cmp, p.value)
    [] p.op = "like"  -> name_like(r.name, p.pattern)
    [] p.op = "ilike" -> name_like(Fold(r.name), Fold(p.pattern))
    [] p.op = "regex" -> is_utf8(r.name) /\ p.rust /\ Contains(r.name, p.part)
    [] p.op = "xattr" -> Tag(r, p.key) # Null /\ compare(Tag(r, p.key), p.cmp, p.value)
    [] p.op = "pool"  -> r.pool = p.pool
    [] p.op = "hsm"   -> r.hsm_state = p.state
    [] p.op = "tags"  -> \A k \in DOMAIN p.match_tags :
                           Tag(r, k) # Null /\ compare(Tag(r, k), "=", p.match_tags[k])
    [] p.op = "ost"   -> FALSE

RECURSIVE matches(_, _)
matches(p, r) ==
  CASE p.op = "and" -> \A i \in DOMAIN p.children : matches(p.children[i], r)
    [] p.op = "or"  -> \E i \in DOMAIN p.children : matches(p.children[i], r)
    [] p.op = "not" -> ~matches(p.inner, r)
    [] OTHER -> leaf_matches(p, r)

-----------------------------------------------------------------------------
(* In the database.                                                         *)

\* NOT, AND and OR of SQL.
SqlNot(x) == IF x = Null THEN Null ELSE ~x
SqlAll(values) == IF FALSE \in values THEN FALSE ELSE IF Null \in values THEN Null ELSE TRUE
SqlSome(values) == IF TRUE \in values THEN TRUE ELSE IF Null \in values THEN Null ELSE FALSE
SqlCmp(x, cmp, y) == IF x = Null THEN Null ELSE cmp_ord(x, cmp, y)
SqlSame(x, y) == IF x = Null THEN Null ELSE x = y

\* name is a VARBINARY column, so LIKE compares bytes and LOWER(name) is name.
\* LIKE: the name is cut into one piece for each character of the pattern; the
\* character after an escape stands for itself.
Escape == "\\"
SqlLike(text, pattern) ==
  LET escape[i \in 0..Len(pattern)] ==
        0 < i /\ i < Len(pattern) /\ pattern[i] = Escape /\ ~escape[i - 1]
  IN \E cut \in [0..Len(pattern) -> 0..Len(text)] :
       /\ cut[0] = 0 /\ cut[Len(pattern)] = Len(text)
       /\ \A i \in 1..Len(pattern) :
            IF escape[i] THEN cut[i] = cut[i - 1]
            ELSE IF pattern[i] = "%" /\ ~escape[i - 1] THEN cut[i - 1] <= cut[i]
            ELSE /\ cut[i] = cut[i - 1] + 1
                 /\ pattern[i] = text[cut[i]] \/ (pattern[i] = "_" /\ ~escape[i - 1])

\* JSON_EXTRACT with "$.xattr.{key}": a dot leads to a member of a member, and
\* the members of xattr, strings and numbers, have none.
SqlTag(r, key) == IF Len(key) = 1 THEN Tag(r, key) ELSE Null
\* JSON_UNQUOTE gives a text; compared with a number it is converted to one.
SqlTagCmp(x, cmp, y) ==
  IF x = Null THEN Null
  ELSE IF y.kind = "string" THEN cmp_ord(x.text, cmp, y.text) ELSE cmp_ord(x.num, cmp, y.num)
\* pool_name is a VARCHAR column, compared without regard to case.
SqlSamePool(x, y) == IF x = Null THEN Null ELSE Fold(x) = Fold(y)

build_leaf(p, r) ==
  CASE p.op = "true"  -> TRUE
    [] p.op = "false" -> FALSE
    [] p.op = "cmp"   -> SqlCmp(r[p.field], p.cmp, p.value)
    [] p.op = "like"  -> SqlLike(r.name, p.pattern)
    [] p.op = "ilike" -> SqlLike(r.name, Fold(p.pattern))
    [] p.op = "regex" -> Contains(r.name, p.part)
    [] p.op = "xattr" -> SqlTagCmp(SqlTag(r, p.key), p.cmp, p.value)
    [] p.op = "pool"  -> SqlSamePool(r.pool, p.pool)
    [] p.op = "hsm"   -> SqlSame(r.hsm_state, p.state)
    [] p.op = "tags"  -> SqlAll({SqlTagCmp(SqlTag(r, k), "=", p.match_tags[k]) : k \in DOMAIN p.match_tags})
    [] p.op = "ost"   -> p.osts \cap r.osts # {}

\* Fault: a disjunction of no predicates selects every row.
RECURSIVE BuildEmptyOr(_, _)
BuildEmptyOr(p, r) ==
  CASE p.op = "and" -> SqlAll({BuildEmptyOr(p.children[i], r) : i \in DOMAIN p.children})
    [] p.op = "or"  -> IF p.children = <<>> THEN TRUE
                       ELSE SqlSome({BuildEmptyOr(p.children[i], r) : i \in DOMAIN p.children})
    [] p.op = "not" -> SqlNot(BuildEmptyOr(p.inner, r))
    [] OTHER -> build_leaf(p, r)
RECURSIVE build(_, _)
build(p, r) ==
  CASE p.op = "and" -> SqlAll({build(p.children[i], r) : i \in DOMAIN p.children})
    [] p.op = "or"  -> SqlSome({build(p.children[i], r) : i \in DOMAIN p.children})
    [] p.op = "not" -> SqlNot(build(p.inner, r))
    [] OTHER -> build_leaf(p, r)

RECURSIVE LeavesOf(_)
LeavesOf(p) ==
  CASE p.op \in {"and", "or"} -> UNION {LeavesOf(p.children[i]) : i \in DOMAIN p.children}
    [] p.op = "not" -> LeavesOf(p.inner)
    [] OTHER -> {p}
\* A statement with a regular expression that the database refuses returns no row.
selects(p, r) == (\A l \in LeavesOf(p) : l.op = "regex" => l.sql) /\ build(p, r) = TRUE

-----------------------------------------------------------------------------
(* A predicate grows from a leaf.                                            *)

PredInit == row \in Samples /\ pred \in Leaves \cup {And(<<>>), Or(<<>>)} /\ depth = 0
Grow(p) == depth < MaxDepth /\ depth' = depth + 1 /\ pred' = p /\ UNCHANGED row
PredNext ==
  \/ Grow(Not(pred))
  \/ \E l \in Leaves : Grow(And(<<pred, l>>)) \/ Grow(Or(<<pred, l>>))

Nullable(p) ==
  CASE p.op = "cmp" -> p.field \in {"stripe_count", "stripe_size"}
    [] p.op \in {"xattr", "pool", "hsm", "tags"} -> TRUE
    [] OTHER -> FALSE
\* No NOT above a leaf that can be Null.
RECURSIVE Positive(_)
Positive(p) ==
  CASE p.op \in {"and", "or"} -> \A i \in DOMAIN p.children : Positive(p.children[i])
    [] p.op = "not" -> \A l \in LeavesOf(p) : ~Nullable(l)
    [] OTHER -> TRUE

\* Where the evaluator and the clause differ by themselves: the OSTs, which a row
\* in memory does not have; an absent stripe count, which is 0 in memory; an
\* overlong pattern, and a pattern with an escape, which only LIKE knows; capitals
\* in the name, which LOWER leaves there, or in a pool; a name that is not UTF-8, or
\* an expression that one of the two engines refuses; a key with a dot, which the
\* clause never finds; and a tag that is not of the type it is compared with.
SameTag(r, key, value) == Len(key) = 1 /\ (Tag(r, key) # Null => Tag(r, key).kind = value.kind)
SameLeaf(l, r) ==
  /\ l.op # "ost"
  /\ l.op = "cmp" => r[l.field] # Null
  /\ l.op \in {"like", "ilike"} =>
       Len(l.pattern) <= MaxLike /\ \A i \in DOMAIN l.pattern : l.pattern[i] # Escape
  /\ l.op = "ilike" => Fold(r.name) = r.name
  /\ l.op = "pool" /\ r.pool # Null => (Fold(r.pool) = Fold(l.pool) => r.pool = l.pool)
  /\ l.op = "regex" => is_utf8(r.name) /\ l.rust /\ l.sql
  /\ l.op = "xattr" => SameTag(r, l.key, l.value)
  /\ l.op = "tags" => \A k \in DOMAIN l.match_tags : SameTag(r, k, l.match_tags[k])

(* matches accepts a row in memory exactly if the database selects it with the *)
(* clause of build, so that incremental classification and policy queries      *)
(* agree: whatever AND, OR and NOT are made of, empty ones included, if no NOT *)
(* stands above a column that can be null and no leaf is one of those of       *)
(* SameLeaf, on which the two differ.  like_match is compared with the         *)
(* definition of LIKE.                                                         *)
MemoryAgreesWithSql ==
  Positive(pred) /\ (\A l \in LeavesOf(pred) : SameLeaf(l, row))
    => (matches(pred, row) <=> selects(pred, row))
=============================================================================
