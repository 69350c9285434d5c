-------------------------- MODULE ClassifierProofs --------------------------
(***************************************************************************)
(* The cache of classifiers follows the table, and the tags of the catalog *)
(* follow the rules after a run, for every set of rows, definitions,       *)
(* handlers and writers of sm_status, every page size and every clock.     *)
(***************************************************************************)
EXTENDS Classifiers, FiniteSetTheorems, TLAPS

-----------------------------------------------------------------------------
(* Ranks: how many elements of a set of integers lie below one.             *)

Below(S, o) == {x \in S : x < o}
Rk(S, o) == Cardinality(Below(S, o))

(* A rank is a number below the size of the set. *)
LEMMA RankBound ==
  ASSUME NEW S, IsFiniteSet(S), S \subseteq Int, NEW o \in S
  PROVE  /\ IsFiniteSet(Below(S, o)) /\ Rk(S, o) \in Nat /\ Cardinality(S) \in Nat
         /\ Rk(S, o) < Cardinality(S)
  <1>1. Below(S, o) \in SUBSET (S \ {o})
    BY DEF Below
  <1>2. IsFiniteSet(S \ {o}) /\ Cardinality(S \ {o}) = Cardinality(S) - 1 /\ Cardinality(S) \in Nat
    BY FS_RemoveElement, FS_CardinalityType, Zenon
  <1>3. IsFiniteSet(Below(S, o)) /\ Cardinality(Below(S, o)) <= Cardinality(S \ {o})
    BY <1>1, <1>2, FS_Subset, Zenon
  <1>4. Cardinality(Below(S, o)) \in Nat
    BY <1>3, FS_CardinalityType, Zenon
  <1>. QED
    BY <1>2, <1>3, <1>4 DEF Rk

(* Ranks grow with the elements. *)
LEMMA RankLess ==
  ASSUME NEW S, IsFiniteSet(S), S \subseteq Int, NEW o \in S, NEW p \in S, o < p
  PROVE  Rk(S, o) < Rk(S, p)
  <1>1. IsFiniteSet(Below(S, o)) /\ Rk(S, o) \in Nat /\ IsFiniteSet(Below(S, p)) /\ Rk(S, p) \in Nat
    BY RankBound, Zenon
  <1>2. o \notin Below(S, o) /\ Below(S, o) \cup {o} \in SUBSET Below(S, p)
    <2>1. ~(o < o) /\ \A x \in S : x < o => x < p
      OBVIOUS
    <2>. QED
      BY <2>1, Zenon DEF Below
  <1>3. Cardinality(Below(S, o) \cup {o}) = Cardinality(Below(S, o)) + 1
    BY <1>1, <1>2, FS_AddElement, Zenon
  <1>4. Cardinality(Below(S, o) \cup {o}) <= Cardinality(Below(S, p))
    BY <1>1, <1>2, FS_Subset, Zenon
  <1>. QED
    BY <1>1, <1>3, <1>4 DEF Rk

(* Every number below the size of the set is a rank. *)
LEMMA RankOnto ==
  ASSUME NEW S, IsFiniteSet(S), S \subseteq Int, NEW i \in Nat, i < Cardinality(S)
  PROVE  \E o \in S : Rk(S, o) = i
  <1>0. \A o \in S : Rk(S, o) \in Nat /\ Rk(S, o) < Cardinality(S)
    BY RankBound, Zenon
  <1> DEFINE n == Cardinality(S)
             T == 0..(n - 1)
             f == [o \in S |-> Rk(S, o)]
  <1>1. n \in Nat
    BY FS_CardinalityType, Zenon
  <1>2. IsFiniteSet(T) /\ Cardinality(T) = n
    <2>1. 0 \in Int /\ n - 1 \in Int /\ (n = 0 => 0 > n - 1) /\ (n # 0 => ~(0 > n - 1) /\ (n - 1) - 0 + 1 = n)
      BY <1>1
    <2>. QED
      BY <2>1, FS_Interval, Zenon
  <1>3. \A o \in S : Rk(S, o) \in T
    BY <1>0, <1>1
  <1>4. \A o, p \in S : Rk(S, o) = Rk(S, p) => o = p
    <2>1. ASSUME NEW o \in S, NEW p \in S, Rk(S, o) = Rk(S, p), o # p PROVE FALSE
      <3>1. o < p \/ p < o
        BY <2>1
      <3>2. Rk(S, o) \in Nat /\ Rk(S, p) \in Nat
        BY <1>0, Zenon
      <3>3. Rk(S, o) < Rk(S, p) \/ Rk(S, p) < Rk(S, o)
        BY <3>1, RankLess, Zenon
      <3>. QED
        BY <2>1, <3>2, <3>3
    <2>. QED
      BY <2>1, Zenon
  <1>5. f \in Injection(S, T)
    BY <1>3, <1>4, Zenon DEF Injection, IsInjective
  <1>6. f \in Surjection(S, T)
    <2> HIDE DEF f, T, n
    <2>. QED
      BY <1>2, <1>5, FS_Injection, Zenon DEF n
  <1>7. i \in T
    BY <1>1
  <1>. QED
    BY <1>6, <1>7, Zenon DEF Surjection

(* Ranks do not fall when the set grows. *)
LEMMA RankGrows ==
  ASSUME NEW S, NEW T, IsFiniteSet(T), T \subseteq Int, S \subseteq T, NEW o \in S
  PROVE  Rk(S, o) \in Nat /\ Rk(T, o) \in Nat /\ Rk(S, o) <= Rk(T, o)
  <1>1. IsFiniteSet(S) /\ S \subseteq Int /\ o \in T
    BY FS_Subset, Zenon
  <1>2. IsFiniteSet(Below(T, o)) /\ Rk(S, o) \in Nat /\ Rk(T, o) \in Nat
    BY <1>1, RankBound, Zenon
  <1>3. Below(S, o) \in SUBSET Below(T, o)
    BY Zenon DEF Below
  <1>4. Cardinality(Below(S, o)) <= Cardinality(Below(T, o))
    BY <1>2, <1>3, FS_Subset, Zenon
  <1>. QED
    BY <1>2, <1>4, Zenon DEF Rk

(* A set of integers that is not empty has a least element. *)
LEMMA LeastOf ==
  ASSUME NEW S, IsFiniteSet(S), S \subseteq Int, S # {}
  PROVE  \E o \in S : \A p \in S : o <= p
  <1>1. Cardinality(S) \in Nat /\ Cardinality(S) # 0
    BY FS_CardinalityType, FS_EmptySet, Zenon
  <1>2. 0 \in Nat /\ 0 < Cardinality(S)
    BY <1>1
  <1>3. PICK o \in S : Rk(S, o) = 0
    BY <1>2, RankOnto, Zenon
  <1>4. Below(S, o) = {}
    BY <1>3, RankBound, FS_EmptySet, Zenon DEF Rk
  <1>. QED
    BY <1>4 DEF Below

\* The elements with the ps ranks from off on, and what k of them in P are like.
Cut(S, off, ps) == {o \in S : Rk(S, o) >= off /\ Rk(S, o) < off + ps}
CutsTo(S, off, ps, P, k) ==
  /\ k \in Nat /\ k <= ps
  /\ \A i \in 1..k : \E x \in P : Rk(S, x) = off + i - 1
  /\ \A x \in P : Rk(S, x) - off + 1 \in 1..k
  /\ k # 0 => off + k <= Cardinality(S)
  /\ \A o \in S : Rk(S, o) >= off + ps => k = ps

(* A page has consecutive ranks, and is full unless the set ends before. *)
LEMMA CutPage ==
  ASSUME NEW S, IsFiniteSet(S), S \subseteq Int, NEW off \in Nat, NEW ps \in Nat \ {0}
  PROVE  CutsTo(S, off, ps, Cut(S, off, ps), Cardinality(Cut(S, off, ps)))
  <1> PICK P : P = Cut(S, off, ps)
    BY Zenon
  <1> PICK k : k = Cardinality(P)
    BY Zenon
  <1>0. \A o \in S : Rk(S, o) \in Nat /\ Rk(S, o) < Cardinality(S)
    BY RankBound, Zenon
  <1>1. PICK n \in Nat : n = Cardinality(S)
    BY FS_CardinalityType, Zenon
  <1>2. PICK m \in Nat : m = IF off + ps <= n THEN off + ps ELSE n
    OBVIOUS
  <1>3. PICK J : J = off..(m - 1)
    BY Zenon
  <1>4. \A x \in P : Rk(S, x) \in J
    BY <1>0, <1>1, <1>2, <1>3 DEF Cut
  <1>5. \A j \in J : \E x \in P : Rk(S, x) = j
    <2>1. ASSUME NEW j \in J PROVE \E x \in P : Rk(S, x) = j
      <3>1. j \in Nat /\ j < n /\ j >= off /\ j < off + ps
        BY <1>2, <1>3
      <3>2. PICK x \in S : Rk(S, x) = j
        BY <1>1, <3>1, RankOnto, Zenon
      <3>. QED
        BY <3>1, <3>2, Zenon DEF Cut
    <2>. QED
      BY <2>1, Zenon
  <1>6. \A x, y \in P : Rk(S, x) = Rk(S, y) => x = y
    <2>1. ASSUME NEW x \in P, NEW y \in P, Rk(S, x) = Rk(S, y), x # y PROVE FALSE
      <3>1. x \in S /\ y \in S /\ (x < y \/ y < x) /\ Rk(S, x) \in Nat /\ Rk(S, y) \in Nat
        BY <1>0, <2>1 DEF Cut
      <3>2. Rk(S, x) < Rk(S, y) \/ Rk(S, y) < Rk(S, x)
        BY <3>1, RankLess, Zenon
      <3>. QED
        BY <2>1, <3>1, <3>2
    <2>. QED
      BY <2>1, Zenon
  <1>7. ExistsBijection(P, J)
    <2> DEFINE f == [x \in P |-> Rk(S, x)]
    <2>1. f \in [P -> J] /\ \A x \in P : f[x] = Rk(S, x)
      BY <1>4, Zenon
    <2> HIDE DEF f
    <2>2. f \in Injection(P, J)
      BY <1>6, <2>1 DEF Injection, IsInjective
    <2>3. f \in Surjection(P, J)
      BY <1>5, <2>1, Zenon DEF Surjection
    <2>. QED
      BY <2>2, <2>3, Zenon DEF Bijection, ExistsBijection
  <1>8. IsFiniteSet(P)
    <2>1. P \in SUBSET S
      BY Zenon DEF Cut
    <2>. QED
      BY <2>1, FS_Subset, Zenon
  <1>9. Cardinality(J) = k
    BY <1>7, <1>8, FS_Bijection, Zenon
  <1>10. k = IF off > m - 1 THEN 0 ELSE m - 1 - off + 1
    <2>1. off \in Int /\ m - 1 \in Int
      OBVIOUS
    <2>. QED
      BY <1>3, <1>9, <2>1, FS_Interval, Zenon
  <1>11. \A i \in 1..k : \E x \in P : Rk(S, x) = off + i - 1
    <2>1. \A i \in 1..k : off + i - 1 \in J
      BY <1>3, <1>10
    <2>. QED
      BY <1>5, <2>1, Zenon
  <1>12. \A x \in P : Rk(S, x) - off + 1 \in 1..k
    BY <1>0, <1>3, <1>4, <1>10
  <1>13. k \in Nat /\ k <= ps /\ (k # 0 => off + k <= n)
    BY <1>2, <1>10
  <1>14. \A o \in S : Rk(S, o) >= off + ps => k = ps
    BY <1>0, <1>1, <1>2, <1>10
  <1>. QED
    BY <1>1, <1>11, <1>12, <1>13, <1>14, Zenon DEF CutsTo

-----------------------------------------------------------------------------
(* Rows and rules.                                                          *)

\* Conditions cannot tell the two rows apart.
Alike(r, s) == \A c \in WhenFields : r[c] = s[c]

(* The rows are those that ingest and tagging make of a new one. *)
LEMMA RowsAre ==
  \A r : r \in Rows <=> \E s, z \in Sizes, t \in Tags : r = RowOf(s, z, t)
BY DEF Rows

(* What a row is, and that rows stay rows when they are written. *)
LEMMA RowFacts ==
  ASSUME NEW r \in Rows
  PROVE  /\ r # Null /\ r.size \in Sizes /\ r.xattr \in Tags
         /\ \A z \in Sizes : [r EXCEPT !.size = z] \in Rows
         /\ \A t \in Tags : /\ [r EXCEPT !.xattr = t] \in Rows
                            /\ [r EXCEPT !.xattr = t].xattr = t
                            /\ Alike([r EXCEPT !.xattr = t], r)
  <1>1. PICK s \in Sizes, y \in Sizes, u \in Tags : r = RowOf(s, y, u)
    BY RowsAre, Zenon
  <1>2. PICK b : b = NewRow(s)
    BY Zenon
  <1>3. PICK D : D = DOMAIN b
    BY Zenon
  <1>4. b = [c \in D |-> b[c]] /\ WhenFields \cup {"xattr"} \subseteq D
    BY <1>2, <1>3, ClassifierAssumption, Zenon
  <1>5. "size" \in D /\ "xattr" \in D
    BY <1>4, Zenon DEF WhenFields
  <1>6. r = [b EXCEPT !.size = y, !.xattr = u]
    BY <1>1, <1>2, Zenon DEF RowOf
  <1>7. r = [c \in D |-> IF c = "xattr" THEN u ELSE IF c = "size" THEN y ELSE b[c]]
    BY <1>4, <1>5, <1>6, Zenon
  <1>8. r.size = y /\ r.xattr = u
    BY <1>5, <1>7, Zenon
  <1>9. ASSUME NEW z \in Sizes PROVE [r EXCEPT !.size = z] \in Rows
    <2>1. [r EXCEPT !.size = z] = [b EXCEPT !.size = z, !.xattr = u]
      BY <1>4, <1>5, <1>7, Zenon
    <2>. QED
      BY <1>2, <2>1, RowsAre, Zenon DEF RowOf
  <1>10. ASSUME NEW t \in Tags
         PROVE  /\ [r EXCEPT !.xattr = t] \in Rows
                /\ [r EXCEPT !.xattr = t].xattr = t
                /\ Alike([r EXCEPT !.xattr = t], r)
    <2>1. PICK q : q = [r EXCEPT !.xattr = t]
      BY Zenon
    <2>2. q = [b EXCEPT !.size = y, !.xattr = t]
      BY <1>4, <1>5, <1>7, <2>1, Zenon
    <2>3. q \in Rows
      BY <1>2, <2>2, RowsAre, Zenon DEF RowOf
    <2>4. q.xattr = t
      BY <1>5, <1>7, <2>1, Zenon
    <2>5. \A c \in D : c # "xattr" => q[c] = r[c]
      BY <1>5, <1>7, <2>1, Zenon
    <2>6. Alike(q, r)
      <3>1. \A c \in WhenFields : c \in D /\ c # "xattr"
        BY <1>4, Zenon DEF WhenFields, TimeFields
      <3>. QED
        BY <2>5, <3>1, Zenon DEF Alike
    <2>. QED
      BY <2>1, <2>3, <2>4, <2>6, Zenon
  <1>11. r # Null
    BY ClassifierAssumption, Zenon
  <1>. QED
    BY <1>8, <1>9, <1>10, <1>11, Zenon

(* A row that ingest creates. *)
LEMMA NewRowFacts ==
  ASSUME NEW s \in Sizes
  PROVE  NewRow(s) \in Rows
  <1>1. PICK b : b = NewRow(s)
    BY Zenon
  <1>2. /\ b = [c \in DOMAIN b |-> b[c]]
        /\ WhenFields \cup {"xattr"} \subseteq DOMAIN b
        /\ b.size \in Sizes /\ b.xattr \in Tags
    BY <1>1, ClassifierAssumption, Zenon
  <1>3. b = [b EXCEPT !.size = b.size, !.xattr = b.xattr]
    BY <1>2, Zenon
  <1>. QED
    BY <1>1, <1>2, <1>3, RowsAre, Zenon DEF RowOf

(* A term that can be parsed compares a column that conditions may name. *)
LEMMA TermFacts ==
  ASSUME NEW term, NEW at, parse_term(term, at) # Null
  PROVE  parse_term(term, at).op = "cmp" /\ parse_term(term, at).field \in WhenFields
  <1> DEFINE value == IF term.field \in TimeFields THEN parse_time_value(term.value, at)
                                                   ELSE parse_numeric_value(term.value)
  <1>1. PICK v : v = value
    BY Zenon
  <1> HIDE DEF value
  <1>2. parse_term(term, at) = IF term.field \notin WhenFields \/ v = Null THEN Null
                               ELSE [op |-> "cmp", field |-> term.field, cmp |-> term.cmp, value |-> v]
    BY <1>1, Zenon DEF parse_term, value
  <1>. QED
    BY <1>2

\* The condition with the given terms, and the tags of the first rule of a set.
Joined(terms, parsed) ==
  IF terms = <<>> \/ \E i \in DOMAIN parsed : parsed[i] = Null THEN Null
  ELSE IF Len(terms) = 1 THEN parsed[1] ELSE And(parsed)
FirstOf(rules, hit) ==
  IF hit = {} THEN Null ELSE rules[CHOOSE i \in hit : \A j \in hit : i <= j].set

(* The number of a term is an integer, whatever the clock shows. *)
LEMMA ValueTypes ==
  ASSUME NEW v \in [minus : BOOLEAN, n : Nat, unit : STRING], NEW at \in Int
  PROVE  /\ parse_time_value(v, at) \in Int \cup {Null}
         /\ parse_numeric_value(v) \in Int \cup {Null}
         /\ \A u \in Int : parse_time_value(v, at) # Null => parse_time_value(v, u) # Null
  <1>1. Null \notin Int /\ v.n \in Nat /\ v.n \in Int /\ -v.n \in Int
    BY ClassifierAssumption
  <1>2. v.unit \in {"d", "h", "m"} => TimeUnit(v.unit) \in Int
    BY DEF TimeUnit
  <1>4. \A i, j \in Int : i * j \in Int /\ i - j \in Int
    OBVIOUS
  <1>3. v.unit \in {"none", "KB", "MB", "GB", "TB"} => SizeUnit(v.unit) \in Int
    BY DEF SizeUnit
  <1>5. v.unit \in {"d", "h", "m"} => \A u \in Int : u - v.n * TimeUnit(v.unit) \in Int
    BY <1>1, <1>2, <1>4, Zenon
  <1>6. \A u \in Int : parse_time_value(v, u) \in Int \cup {Null}
    BY <1>1, <1>5, Zenon DEF parse_time_value
  <1>7. parse_numeric_value(v) \in Int \cup {Null}
    BY <1>1, <1>3, <1>4, Zenon DEF parse_numeric_value
  <1>8. ASSUME NEW u \in Int, parse_time_value(v, at) # Null PROVE parse_time_value(v, u) # Null
    <2>1. CASE v.minus /\ v.unit \in {"d", "h", "m"}
      BY <1>1, <1>5, <2>1, Zenon DEF parse_time_value
    <2>2. CASE ~(v.minus /\ v.unit \in {"d", "h", "m"})
      BY <1>8, <2>2, Zenon DEF parse_time_value
    <2>. QED
      BY <2>1, <2>2, Zenon
  <1>. QED
    BY <1>6, <1>7, <1>8, Zenon

(* A term is parsed to a comparison, or it is rejected whatever the clock shows. *)
LEMMA TermParses ==
  ASSUME NEW term \in Terms, NEW at \in Int
  PROVE  /\ parse_term(term, at) \in Comps \cup {Null}
         /\ \A u \in Int : parse_term(term, at) # Null => parse_term(term, u) # Null
  <1> DEFINE value(u) == IF term.field \in TimeFields THEN parse_time_value(term.value, u)
                                                      ELSE parse_numeric_value(term.value)
             comp(u) == [op |-> "cmp", field |-> term.field, cmp |-> term.cmp, value |-> value(u)]
  <1>1. term.value \in [minus : BOOLEAN, n : Nat, unit : STRING] /\ term.field \in STRING /\ term.cmp \in STRING
    BY Zenon DEF Terms
  <1>2. \A u \in Int : value(u) \in Int \cup {Null}
    BY <1>1, ValueTypes, Zenon
  <1>3. \A u \in Int : value(at) # Null => value(u) # Null
    BY <1>1, ValueTypes, Zenon
  <1>4. \A u : parse_term(term, u) = IF term.field \notin WhenFields \/ value(u) = Null THEN Null ELSE comp(u)
    BY Zenon DEF parse_term
  <1>5. \A u \in Int : value(u) # Null => comp(u) \in Comps
    <2>1. ASSUME NEW u \in Int, value(u) # Null PROVE comp(u) \in Comps
      <3>1. PICK w \in Int : w = value(u)
        BY <1>2, <2>1, Zenon
      <3> HIDE DEF value
      <3>. QED
        BY <1>1, <3>1, Zenon DEF Comps
    <2> HIDE DEF value, comp
    <2>. QED
      BY <2>1, Zenon
  <1>6. Null \notin Comps
    BY ClassifierAssumption, Zenon DEF Conds
  <1> HIDE DEF value, comp
  <1>. QED
    BY <1>3, <1>4, <1>5, <1>6, Zenon

(* So is a condition: one that was accepted can be parsed whenever it is evaluated. *)
LEMMA WhenParses ==
  ASSUME NEW terms \in Seq(Terms), NEW at \in Int, NEW u \in Int, parse_when(terms, at) # Null
  PROVE  parse_when(terms, u) # Null
  <1>1. \A i \in DOMAIN terms : terms[i] \in Terms
    <2> DEFINE T == Terms
    <2>1. terms \in Seq(T)
      BY Zenon
    <2> HIDE DEF T
    <2>2. \A i \in DOMAIN terms : terms[i] \in T
      BY <2>1
    <2>. QED
      BY <2>2, Zenon DEF T
  <1>2. PICK p, q : p = [i \in DOMAIN terms |-> parse_term(terms[i], at)] /\ q = [i \in DOMAIN terms |-> parse_term(terms[i], u)]
    BY Zenon
  <1>3. parse_when(terms, at) = Joined(terms, p) /\ parse_when(terms, u) = Joined(terms, q)
    <2>1. \A t : parse_when(terms, t) = Joined(terms, [i \in DOMAIN terms |-> parse_term(terms[i], t)])
      BY Zenon DEF parse_when, Joined
    <2>. QED
      BY <1>2, <2>1, Zenon
  <1>4. terms # <<>> /\ \A i \in DOMAIN terms : p[i] # Null
    BY <1>2, <1>3, Zenon DEF Joined
  <1>5. \A i \in DOMAIN terms : q[i] \in Comps /\ q[i] # Null
    <2>1. \A i \in DOMAIN terms : parse_term(terms[i], u) \in Comps /\ parse_term(terms[i], u) # Null
      BY <1>1, <1>2, <1>4, TermParses, Zenon
    <2>. QED
      BY <1>2, <2>1, Zenon
  <1>6. DOMAIN q = DOMAIN terms
    BY <1>2, Zenon
  <1>7. Joined(terms, q) = IF Len(terms) = 1 THEN q[1] ELSE And(q)
    BY <1>4, <1>5, <1>6, Zenon DEF Joined
  <1>8. CASE Len(terms) = 1
    <2>1. 1 \in DOMAIN terms
      BY <1>8
    <2>. QED
      BY <1>3, <1>5, <1>7, <1>8, <2>1, Zenon
  <1>9. CASE Len(terms) # 1
    <2>1. q \in Seq(Comps)
      <3> DEFINE C == Comps
                 n == Len(terms)
      <3>1. n \in Nat /\ DOMAIN terms = 1..n
        OBVIOUS
      <3>2. q \in [1..n -> C]
        BY <1>2, <1>5, <3>1, Zenon
      <3> HIDE DEF C, n
      <3>3. q \in Seq(C)
        BY <3>1, <3>2
      <3>. QED
        BY <3>3, Zenon DEF C
    <2>2. And(q) \in Conds
      BY <2>1, Zenon DEF And, Conds
    <2>. QED
      BY <1>3, <1>7, <1>9, <2>2, ClassifierAssumption, Zenon
  <1>. QED
    BY <1>8, <1>9, Zenon

(* So do the comparisons of a condition. *)
LEMMA ConditionFacts ==
  ASSUME NEW terms \in Seq(Terms), NEW at, parse_when(terms, at) # Null
  PROVE  \A c \in Comparisons(parse_when(terms, at)) : c.field \in WhenFields
  <1>1. PICK parsed : parsed = [i \in DOMAIN terms |-> parse_term(terms[i], at)]
    BY Zenon
  <1>2. PICK p : p = parse_when(terms, at)
    BY Zenon
  <1>3. p = Joined(terms, parsed)
    <2>1. parse_when(terms, at) = Joined(terms, [i \in DOMAIN terms |-> parse_term(terms[i], at)])
      BY Zenon DEF parse_when, Joined
    <2>. QED
      BY <1>1, <1>2, <2>1, Zenon
  <1>4. /\ \A i \in DOMAIN parsed : parsed[i] # Null
        /\ p = IF Len(terms) = 1 THEN parsed[1] ELSE And(parsed)
    BY <1>2, <1>3, Zenon DEF Joined
  <1>5. \A i \in DOMAIN parsed : parsed[i].op = "cmp" /\ parsed[i].field \in WhenFields
    <2>1. \A i \in DOMAIN parsed : parsed[i] = parse_term(terms[i], at)
      BY <1>1, Zenon
    <2>. QED
      BY <1>4, <2>1, TermFacts, Zenon
  <1>6. CASE Len(terms) = 1
    <2>1. 1 \in DOMAIN parsed
      BY <1>1, <1>6
    <2>2. PICK q : q = parsed[1]
      BY Zenon
    <2>3. q.op = "cmp" /\ q.field \in WhenFields /\ p = q
      BY <1>4, <1>5, <1>6, <2>1, <2>2, Zenon
    <2>4. Comparisons(p) = {q}
      BY <2>3, Zenon DEF Comparisons
    <2>. QED
      BY <1>2, <2>3, <2>4
  <1>7. CASE Len(terms) # 1
    <2>1. p = [op |-> "and", children |-> parsed]
      BY <1>4, <1>7, Zenon DEF And
    <2>2. p.op = "and" /\ p.children = parsed
      BY <2>1, Zenon
    <2>3. Comparisons(p) = {parsed[i] : i \in DOMAIN parsed}
      BY <2>2, Zenon DEF Comparisons
    <2>. QED
      BY <1>2, <1>5, <2>3, Zenon
  <1>. QED
    BY <1>6, <1>7, Zenon

(* The rules of a classifier name no tags, so writing tags does not change which of *)
(* them matches a row. *)
LEMMA RuleAlike ==
  ASSUME NEW d \in Defs, NEW i \in DOMAIN d.rules, NEW r, NEW s, NEW at, Alike(r, s)
  PROVE  RuleMatches(d.rules[i], r, at) <=> RuleMatches(d.rules[i], s, at)
  <1>1. PICK w : w = d.rules[i].when
    BY Zenon
  <1>2. w = Null \/ w \in Seq(Terms)
    BY <1>1, ClassifierAssumption, Zenon
  <1>3. PICK p : p = parse_when(w, at)
    BY Zenon
  <1>4. ASSUME w # Null, p # Null
        PROVE  when_matches(p, r) <=> when_matches(p, s)
    <2>1. \A c \in Comparisons(p) : c.field \in WhenFields
      BY <1>2, <1>3, <1>4, ConditionFacts, Zenon
    <2>2. \A c \in Comparisons(p) : extract_field(c.field, r) = extract_field(c.field, s)
      BY <2>1, Zenon DEF Alike, extract_field
    <2>3. when_matches(p, r) => when_matches(p, s)
      BY <2>2, Zenon DEF when_matches
    <2>4. when_matches(p, s) => when_matches(p, r)
      BY <2>2, Zenon DEF when_matches
    <2>. QED
      BY <2>3, <2>4, Zenon
  <1>5. RuleMatches(d.rules[i], r, at) => RuleMatches(d.rules[i], s, at)
    BY <1>1, <1>3, <1>4, Zenon DEF RuleMatches
  <1>6. RuleMatches(d.rules[i], s, at) => RuleMatches(d.rules[i], r, at)
    BY <1>1, <1>3, <1>4, Zenon DEF RuleMatches
  <1>. QED
    BY <1>5, <1>6, Zenon

\* Rows with the same columns get the same tags.
LEMMA EvalAlike ==
  ASSUME NEW d \in Defs, NEW r, NEW s, NEW at, Alike(r, s)
  PROVE  evaluate_classifier(d.rules, r, at) = evaluate_classifier(d.rules, s, at)
  <1>1. \A i \in DOMAIN d.rules : (RuleMatches(d.rules[i], r, at) <=> RuleMatches(d.rules[i], s, at))
    BY RuleAlike, Zenon
  <1>2. Hits(d.rules, r, at) = Hits(d.rules, s, at)
    BY <1>1, Zenon DEF Hits
  <1>3. \A q : evaluate_classifier(d.rules, q, at) = FirstOf(d.rules, Hits(d.rules, q, at))
    BY Zenon DEF evaluate_classifier, FirstOf
  <1>. QED
    BY <1>2, <1>3, Zenon

(* evaluate_classifier returns the tags of a rule, or nothing. *)
LEMMA EvalType ==
  ASSUME NEW d \in Defs, NEW r, NEW at
  PROVE  evaluate_classifier(d.rules, r, at) \in Tags \cup {Null}
  <1>1. PICK rules : rules = d.rules
    BY Zenon
  <1>2. rules \in Seq({rules[i] : i \in DOMAIN rules}) /\ \A i \in DOMAIN rules : rules[i].set \in Tags
    BY <1>1, ClassifierAssumption, Zenon
  <1>3. PICK hit : hit = Hits(rules, r, at)
    BY Zenon
  <1>4. hit \subseteq DOMAIN rules
    BY <1>3, Zenon DEF Hits
  <1>5. DOMAIN rules = 1..Len(rules) /\ Len(rules) \in Nat
    BY <1>2
  <1>6. IsFiniteSet(DOMAIN rules) /\ DOMAIN rules \subseteq Int
    <2>1. 1 \in Int /\ Len(rules) \in Int /\ 1..Len(rules) \subseteq Int
      BY <1>5
    <2>. QED
      BY <1>5, <2>1, FS_Interval, Zenon
  <1>7. CASE hit # {}
    <2>1. hit \in SUBSET DOMAIN rules /\ hit \subseteq Int
      BY <1>4, <1>6, Zenon
    <2>2. IsFiniteSet(hit)
      BY <1>6, <2>1, FS_Subset, Zenon
    <2>3. \E i \in hit : \A j \in hit : i <= j
      BY <1>7, <2>1, <2>2, LeastOf, Zenon
    <2>4. (CHOOSE i \in hit : \A j \in hit : i <= j) \in hit
      BY <2>3, Zenon
    <2>. QED
      BY <1>1, <1>2, <1>3, <1>4, <1>7, <2>4, Zenon DEF evaluate_classifier
  <1>8. CASE hit = {}
    BY <1>1, <1>3, <1>8, Zenon DEF evaluate_classifier
  <1>. QED
    BY <1>7, <1>8, Zenon

(* What writing tags does to a row: the keys that the classifier manages have exactly *)
(* the new tags, and conditions do not notice. *)
LEMMA ScopedFacts ==
  ASSUME NEW r \in Rows, NEW set \in Tags, NEW manages
  PROVE  /\ update_scoped_xattr(r, set, manages) \in Rows
         /\ Alike(update_scoped_xattr(r, set, manages), r)
         /\ \A k \in manages : Tag(update_scoped_xattr(r, set, manages), k) =
                                 IF k \in DOMAIN set THEN set[k] ELSE Null
  <1>1. PICK x \in Tags : x = r.xattr
    BY RowFacts, Zenon
  <1>2. PICK t : t = [k \in (DOMAIN x \ manages) \cup DOMAIN set |->
                        IF k \in DOMAIN set THEN set[k] ELSE x[k]]
    BY Zenon
  <1>3. t \in Tags
    <2>1. PICK J \in SUBSET Keys : x \in [J -> Values]
      BY Zenon DEF Tags
    <2>2. PICK K \in SUBSET Keys : set \in [K -> Values]
      BY Zenon DEF Tags
    <2>3. (J \ manages) \cup K \in SUBSET Keys /\ t \in [(J \ manages) \cup K -> Values]
      BY <1>2, <2>1, <2>2, Zenon
    <2>. QED
      BY <2>3, Zenon DEF Tags
  <1>4. PICK q : q = [r EXCEPT !.xattr = t]
    BY Zenon
  <1>5. update_scoped_xattr(r, set, manages) = q
    BY <1>1, <1>2, <1>4, Zenon DEF update_scoped_xattr
  <1>6. q \in Rows /\ q.xattr = t /\ Alike(q, r)
    BY <1>3, <1>4, RowFacts, Zenon
  <1>7. \A k \in manages : Tag(q, k) = IF k \in DOMAIN set THEN set[k] ELSE Null
    BY <1>2, <1>6, Zenon DEF Tag
  <1>. QED
    BY <1>5, <1>6, <1>7, Zenon

-----------------------------------------------------------------------------
(* Pages.                                                                   *)

(* Two elements of a set do not have the same rank. *)
LEMMA RankSame ==
  ASSUME NEW S, IsFiniteSet(S), S \subseteq Int, NEW o \in S, NEW p \in S, Rk(S, o) = Rk(S, p)
  PROVE  o = p
  <1>1. Rk(S, o) \in Nat /\ Rk(S, p) \in Nat
    BY RankBound, Zenon
  <1>2. o < p => Rk(S, o) < Rk(S, p)
    BY RankLess, Zenon
  <1>3. p < o => Rk(S, p) < Rk(S, o)
    BY RankLess, Zenon
  <1>4. o \in Int /\ p \in Int
    BY Zenon
  <1>. QED
    BY <1>1, <1>2, <1>3, <1>4

(* The live rows. *)
LEMMA LiveFacts ==
  /\ IsFiniteSet(Live) /\ Live \subseteq Int /\ Cardinality(Live) <= Cardinality(Objects)
  /\ Cardinality(Live) \in Nat /\ Cardinality(Objects) \in Nat
  /\ \A o \in Live : o \in Objects /\ rows[o] # Null
  /\ \A o : Rank(o) = Rk(Live, o)
  <1>1. Live \in SUBSET Objects /\ \A o \in Live : o \in Objects /\ rows[o] # Null
    BY Zenon DEF Live
  <1>2. IsFiniteSet(Objects) /\ Objects \subseteq Int
    BY ClassifierAssumption, Zenon
  <1>3. IsFiniteSet(Live) /\ Cardinality(Live) <= Cardinality(Objects)
    BY <1>1, <1>2, FS_Subset, Zenon
  <1>4. Cardinality(Live) \in Nat /\ Cardinality(Objects) \in Nat
    BY <1>2, <1>3, FS_CardinalityType, Zenon
  <1>5. \A o : Rank(o) = Rk(Live, o)
    BY Zenon DEF Rank, Rk, Below
  <1>. QED
    BY <1>1, <1>2, <1>3, <1>4, <1>5, Zenon

\* What a page of at most lim rows from the offset on holds.
PageIs(b, off, lim) ==
  /\ b \in Seq([obj : Objects, row : Rows])
  /\ \A i \in DOMAIN b : b[i].obj \in Live /\ b[i].row = rows[b[i].obj]
  /\ b # <<>> => off + Len(b) \in 0..Cardinality(Objects)
  /\ \A o \in Live : \/ Rank(o) < off
                     \/ \E i \in DOMAIN b : b[i].obj = o
                     \/ Len(b) = lim /\ Rank(o) >= off + Len(b)

(* A page holds rows as they are, is no longer than it may be, and a live row has a *)
(* rank below it, is on it, or comes after a full page. *)
LEMMA PageFacts ==
  ASSUME rows \in [Objects -> Rows \cup {Null}], NEW off \in Nat, NEW lim \in Nat \ {0}, NEW b,
         b = Page(off, lim)
  PROVE  PageIs(b, off, lim)
  <1>1. PICK P : P = OnPage(off, lim)
    BY Zenon
  <1>2. P = {o \in Live : Rk(Live, o) >= off /\ Rk(Live, o) < off + lim}
    <2>1. P = {o \in Live : Rank(o) >= off /\ Rank(o) < off + lim}
      BY <1>1, Zenon DEF OnPage
    <2>2. \A o : Rank(o) = Rk(Live, o)
      BY LiveFacts, Zenon
    <2>. QED
      BY <2>1, <2>2, Zenon
  <1>3. PICK k : k = Cardinality(P)
    BY Zenon
  <1>4. /\ k \in Nat /\ k <= lim
        /\ \A i \in 1..k : \E x \in P : Rk(Live, x) = off + i - 1
        /\ \A x \in P : Rk(Live, x) - off + 1 \in 1..k
        /\ k # 0 => off + k <= Cardinality(Live)
        /\ \A o \in Live : Rk(Live, o) >= off + lim => k = lim
    <2>1. PICK S : S = Live
      BY Zenon
    <2>2. IsFiniteSet(S) /\ S \subseteq Int
      BY <2>1, LiveFacts, Zenon
    <2>3. P = Cut(S, off, lim)
      BY <1>2, <2>1, Zenon DEF Cut
    <2>4. CutsTo(S, off, lim, P, k)
      BY <1>3, <2>2, <2>3, CutPage, Zenon
    <2>. QED
      BY <2>1, <2>4, Zenon DEF CutsTo
  <1> DEFINE at(i) == CHOOSE x \in P : Rk(Live, x) = off + i - 1
  <1>5. \A i \in 1..k : at(i) \in P /\ Rk(Live, at(i)) = off + i - 1
    BY <1>4, Zenon
  <1>6. b = [i \in 1..k |-> [obj |-> at(i), row |-> rows[at(i)]]]
    <2>1. \A i, x : Rank(x) = off + i - 1 <=> Rk(Live, x) = off + i - 1
      BY LiveFacts, Zenon
    <2>2. \A i : (CHOOSE x \in P : Rank(x) = off + i - 1) = at(i)
      BY <2>1, Zenon
    <2>. QED
      BY <1>1, <1>3, <2>2, Zenon DEF Page
  <1> HIDE DEF at
  <1>7. P \subseteq Live
    BY <1>2, Zenon
  <1>8. \A i \in 1..k : at(i) \in Live /\ at(i) \in Objects /\ rows[at(i)] \in Rows
    BY <1>5, <1>7, LiveFacts, Zenon
  <1>9. /\ b \in Seq([obj : Objects, row : Rows]) /\ DOMAIN b = 1..k /\ Len(b) = k
        /\ \A i \in 1..k : b[i].obj = at(i) /\ b[i].row = rows[at(i)]
    BY <1>4, <1>6, <1>8
  <1>10. b # <<>> => off + Len(b) \in 0..Cardinality(Objects)
    <2>1. b # <<>> => k # 0
      BY <1>4, <1>9
    <2>2. Cardinality(Live) \in Nat /\ Cardinality(Objects) \in Nat
          /\ Cardinality(Live) <= Cardinality(Objects)
      BY LiveFacts, Zenon
    <2>. QED
      BY <1>4, <1>9, <2>1, <2>2
  <1>11. ASSUME NEW o \in Live
         PROVE  \/ Rank(o) < off
                \/ \E i \in DOMAIN b : b[i].obj = o
                \/ Len(b) = lim /\ Rank(o) >= off + Len(b)
    <2>1. PICK r \in Nat : r = Rk(Live, o) /\ r = Rank(o)
      BY LiveFacts, RankBound, Zenon
    <2>2. CASE r < off
      BY <2>1, <2>2, Zenon
    <2>3. CASE r >= off /\ r < off + lim
      <3>1. o \in P
        BY <1>2, <2>1, <2>3, Zenon
      <3>2. PICK i \in 1..k : i = r - off + 1
        BY <1>4, <2>1, <3>1, Zenon
      <3>3. off + i - 1 = r
        BY <3>2
      <3>4. at(i) \in Live /\ Rk(Live, at(i)) = Rk(Live, o)
        BY <1>5, <1>8, <2>1, <3>3, Zenon
      <3>5. at(i) = o
        BY <3>4, LiveFacts, RankSame, Zenon
      <3>. QED
        BY <1>9, <3>5, Zenon
    <2>4. CASE r >= off + lim
      BY <1>4, <1>9, <2>1, <2>4, Zenon
    <2>. QED
      BY <2>1, <2>2, <2>3, <2>4
  <1>12. \A i \in DOMAIN b : b[i].obj \in Live /\ b[i].row = rows[b[i].obj]
    BY <1>8, <1>9, Zenon
  <1>. QED
    BY <1>9, <1>10, <1>11, <1>12, Zenon DEF PageIs

(* A page is not empty by its limit. *)
LEMMA LimitFacts ==
  ASSUME run.offset \in Nat, run.offset < MaxEntries
  PROVE  Limit \in Nat \ {0}
  BY ClassifierAssumption DEF Limit

-----------------------------------------------------------------------------
(* The inductive invariant.                                                 *)

Settled == \A a \in Admins : admin[a].pc = "idle"
Valid(d) == \A t \in Times : \A i \in DOMAIN d.rules :
              d.rules[i].when # Null => parse_when(d.rules[i].when, t) # Null
Known == {d \in Defs : Valid(d)} \cup {Null}

\* Types, and that every definition that was accepted can be parsed.
AdminRecs == [pc : {"idle", "list", "swap"}, list : Known]
IngRecs == [pc : {"idle", "lock", "get", "write"}, obj : Objects \cup {Null}, def : Known,
            set : Tags \cup {Null}, row : Rows \cup {Null}]
Batches == Seq([obj : Objects, row : Rows])
RunRecs == [pc : {"idle", "page", "tag", "write"}, def : Known, offset : 0..Cardinality(Objects),
            batch : Batches, full : BOOLEAN, set : Tags \cup {Null}, row : Rows \cup {Null},
            alone : BOOLEAN]
Budget == [Bounded -> Int]
Types ==
  /\ rows \in [Objects -> Rows \cup {Null}]
  /\ store \in Known /\ cache \in Known
  /\ admin \in [Admins -> AdminRecs] /\ ing \in IngRecs /\ run \in RunRecs
  /\ ready \in BOOLEAN /\ stale \in BOOLEAN /\ missed \subseteq Objects
  /\ left \in Budget

\* What ingest and the run hold at each step.
IngHolds ==
  /\ ing.pc # "idle" => ing.obj # Null /\ rows[ing.obj] # Null
  /\ ing.pc \in {"get", "write"} => ing.def # Null /\ ing.set # Null
  /\ ing.pc = "write" => ing.row # Null
RunHolds ==
  /\ run.pc # "idle" => run.def # Null
  /\ run.pc = "write" => run.batch # <<>> /\ run.row # Null /\ run.set # Null
Base == Types /\ IngHolds /\ RunHolds

\* The clock, what was read from it, and the copies that writers of sm_status hold.
Clocked ==
  /\ now \in Times /\ since \in Times /\ since <= now /\ asOf \in [Objects -> Times]
  /\ patch \in [Patchers -> [obj : Objects, row : Rows] \cup {PatchIdle}]

\* After an edit that overlapped no other, the cache is or will be what is stored.
Cached ==
  ~stale => /\ \A a, b \in Admins : admin[a].pc # "idle" /\ admin[b].pc # "idle" => a = b
            /\ \A a \in Admins : admin[a].pc = "swap" => admin[a].list = store
            /\ Settled => cache = store

\* While a run is undisturbed, and until the next edit, the definition it works with
\* is the stored one, and no handler is under way.
Undisturbed ==
  /\ run.alone => run.pc # "idle" /\ run.def = store
  /\ ready => run.pc = "idle"
  /\ ready \/ run.alone => Settled /\ store # Null /\ store.enabled
  /\ run.pc # "idle" /\ ing.pc # "idle" => ing.obj \in missed

Expected(o) == evaluate_classifier(store.rules, rows[o], asOf[o])
Tagged(o) ==
  /\ asOf[o] >= since
  /\ Expected(o) # Null => \A k \in store.manages :
       Tag(rows[o], k) = IF k \in DOMAIN Expected(o) THEN Expected(o)[k] ELSE Null

\* An undisturbed run has tagged what it has passed, but for the rest of its page.
InBatch(o) == \E i \in DOMAIN run.batch : run.batch[i].obj = o
Ahead(o) == Rank(o) >= run.offset /\ (run.pc = "page" \/ run.full)
Fetched(e) == e.obj \notin missed => rows[e.obj] # Null /\ Alike(e.row, rows[e.obj])
Held(o) == Alike(run.row, rows[o]) /\ run.set = Expected(o) /\ asOf[o] >= since
Passed ==
  /\ run.pc = "page" => run.batch = <<>>
  /\ \A i \in DOMAIN run.batch : Fetched(run.batch[i])
  /\ run.pc = "write" /\ Entry.obj \notin missed => Held(Entry.obj)
  /\ \A o \in Live \ missed : Tagged(o) \/ InBatch(o) \/ Ahead(o)

\* After the run every row is tagged, but for the one that ingest is about to tag.
AtIngest(o) == ing.pc # "idle" /\ ing.obj = o
Brings(o) ==
  /\ ing.pc \in {"get", "write"} => ing.def = store /\ ing.set = Expected(o) /\ asOf[o] >= since
  /\ ing.pc = "write" => Alike(ing.row, rows[o])
Kept == \A o \in Live \ missed : IF AtIngest(o) THEN Brings(o) ELSE Tagged(o)

ClassInv ==
  /\ Base /\ Clocked /\ Cached /\ Undisturbed
  /\ run.alone => Passed
  /\ ready /\ ~stale => Kept

-----------------------------------------------------------------------------
(* What the steps do.                                                       *)

(* A definition that is not Null has rules. *)
LEMMA KnownFacts ==
  /\ Null \in Known
  /\ \A d \in Known : d # Null => d \in Defs
  BY ClassifierAssumption, Zenon DEF Known

(* A definition that is accepted can be parsed at any time. *)
LEMMA Accepted ==
  ASSUME Clocked, NEW d \in Defs, validate_classifier(d)
  PROVE  d \in Known
  <1>1. now \in Int /\ Times \subseteq Int
    BY ClassifierAssumption, Zenon DEF Clocked
  <1>2. ASSUME NEW t \in Times, NEW i \in DOMAIN d.rules, d.rules[i].when # Null
        PROVE  parse_when(d.rules[i].when, t) # Null
    <2>1. PICK w : w = d.rules[i].when
      BY Zenon
    <2>2. w \in Seq(Terms) /\ parse_when(w, now) # Null
      BY <1>2, <2>1, ClassifierAssumption, Zenon DEF validate_classifier
    <2>3. t \in Int
      BY <1>1, Zenon
    <2>4. PICK n \in Int : n = now
      BY <1>1, Zenon
    <2>5. parse_when(w, t) # Null
      BY <2>2, <2>3, <2>4, WhenParses, Zenon
    <2>. QED
      BY <2>1, <2>5, Zenon
  <1>. QED
    BY <1>2, Zenon DEF Known, Valid

(* What is spent is a budget. *)
LEMMA SpendFacts ==
  ASSUME left \in Budget, NEW what \in Bounded, Spend(what)
  PROVE  left' \in Budget
  BY DEF Spend, Budget

(* The records that are written. *)
LEMMA Idles ==
  /\ AdminIdle \in AdminRecs /\ AdminIdle.pc = "idle"
  /\ IngIdle \in IngRecs /\ IngIdle.pc = "idle"
  /\ RunIdle \in RunRecs /\ RunIdle.pc = "idle" /\ RunIdle.batch = <<>> /\ ~RunIdle.alone
  <1>1. 0 \in 0..Cardinality(Objects) /\ <<>> \in Batches
    <2>1. Cardinality(Objects) \in Nat
      BY ClassifierAssumption, FS_CardinalityType, Zenon
    <2>. QED
      BY <2>1 DEF Batches
  <1>. QED
    BY <1>1, KnownFacts, Zenon DEF AdminIdle, AdminRecs, IngIdle, IngRecs, RunIdle, RunRecs

(* The elements of a page. *)
LEMMA BatchElems ==
  ASSUME NEW b \in Batches
  PROVE  \A i \in DOMAIN b : b[i] \in [obj : Objects, row : Rows]
  <1> DEFINE R == [obj : Objects, row : Rows]
  <1>1. b \in Seq(R)
    BY Zenon DEF Batches
  <1> HIDE DEF R
  <1>2. \A i \in DOMAIN b : b[i] \in R
    BY <1>1
  <1>. QED
    BY <1>2, Zenon DEF R

(* The head and the rest of a page. *)
LEMMA BatchHas ==
  ASSUME NEW b \in Batches, b # <<>>
  PROVE  /\ 1 \in DOMAIN b /\ Head(b) = b[1] /\ Head(b).obj \in Objects /\ Head(b).row \in Rows
         /\ Tail(b) \in Batches
         /\ \A i \in DOMAIN Tail(b) : \E j \in DOMAIN b : Tail(b)[i] = b[j]
         /\ \A j \in DOMAIN b : j = 1 \/ \E i \in DOMAIN Tail(b) : Tail(b)[i] = b[j]
  <1> DEFINE R == [obj : Objects, row : Rows]
  <1> HIDE DEF R
  <1>1. b \in Seq(R)
    BY Zenon DEF Batches, R
  <1>2. /\ 1 \in DOMAIN b /\ Head(b) = b[1] /\ Head(b) \in R /\ Tail(b) \in Seq(R)
        /\ Len(Tail(b)) = Len(b) - 1 /\ \A i \in 1..Len(Tail(b)) : Tail(b)[i] = b[i + 1]
    BY <1>1
  <1>3. \A i \in DOMAIN Tail(b) : i + 1 \in DOMAIN b /\ Tail(b)[i] = b[i + 1]
    BY <1>1, <1>2
  <1>4. \A j \in DOMAIN b : j = 1 \/ (j - 1 \in DOMAIN Tail(b) /\ Tail(b)[j - 1] = b[j])
    BY <1>1, <1>2
  <1>5. Head(b).obj \in Objects /\ Head(b).row \in Rows
    BY <1>2, Zenon DEF R
  <1>. QED
    BY <1>2, <1>3, <1>4, <1>5, Zenon DEF Batches, R

(* The handlers keep the types. *)
LEMMA HandlersBase ==
  ASSUME Base, Clocked, Handlers
  PROVE  Base'
  <1>1. PICK a \in Admins :
          \/ \E d \in Defs : create_classifier(a, d) \/ update_classifier(a, d)
          \/ delete_classifier(a)
          \/ ReloadList(a) \/ ReloadFails(a) \/ ReloadSwap(a)
    BY Zenon DEF Handlers
  <1>2. /\ admin \in [Admins -> AdminRecs] /\ left \in Budget /\ store \in Known /\ cache \in Known
        /\ admin[a] \in AdminRecs /\ admin[a].list \in Known /\ run \in RunRecs
    BY Zenon DEF Base, Types, AdminRecs
  <1>3. ASSUME NEW d \in Known, Edit(a, d) PROVE Base'
    <2>1. admin' \in [Admins -> AdminRecs] /\ store' \in Known /\ stale' \in BOOLEAN /\ ready' \in BOOLEAN
      BY <1>2, <1>3, Zenon DEF Edit, AdminRecs
    <2>2. left' \in Budget
      BY <1>2, <1>3, SpendFacts, Zenon DEF Bounded, Edit
    <2>3. /\ run' \in RunRecs
          /\ run'.pc = run.pc /\ run'.def = run.def /\ run'.batch = run.batch /\ run'.row = run.row /\ run'.set = run.set
      BY <1>2, <1>3, Zenon DEF Edit, RunRecs
    <2>4. UNCHANGED <<rows, cache, ing, missed>>
      BY <1>3, Zenon DEF Edit
    <2>. QED
      BY <2>1, <2>2, <2>3, <2>4, Zenon DEF Base, Types, IngHolds, RunHolds
  <1>4. CASE \E d \in Defs : create_classifier(a, d) \/ update_classifier(a, d)
    <2>1. PICK d \in Defs : validate_classifier(d) /\ Edit(a, d)
      BY <1>4, Zenon DEF create_classifier, update_classifier
    <2>2. d \in Known
      BY <2>1, Accepted, Zenon
    <2>. QED
      BY <1>3, <2>1, <2>2, Zenon
  <1>5. CASE delete_classifier(a)
    BY <1>3, <1>5, KnownFacts, Zenon DEF delete_classifier
  <1>6. CASE ReloadList(a)
    <2>1. admin' \in [Admins -> AdminRecs]
      BY <1>2, <1>6, Zenon DEF ReloadList, AdminRecs
    <2>. QED
      BY <1>6, <2>1, Zenon DEF ReloadList, Base, Types, IngHolds, RunHolds
  <1>7. CASE ReloadFails(a)
    <2>1. admin' \in [Admins -> AdminRecs] /\ stale' \in BOOLEAN
      BY <1>2, <1>7, Idles, Zenon DEF ReloadFails
    <2>2. left' \in Budget
      BY <1>2, <1>7, SpendFacts, Zenon DEF Bounded, ReloadFails
    <2>. QED
      BY <1>7, <2>1, <2>2, Zenon DEF ReloadFails, Base, Types, IngHolds, RunHolds
  <1>8. CASE ReloadSwap(a)
    <2>1. admin' \in [Admins -> AdminRecs] /\ cache' \in Known
      BY <1>2, <1>8, Idles, Zenon DEF ReloadSwap
    <2>. QED
      BY <1>8, <2>1, Zenon DEF ReloadSwap, Base, Types, IngHolds, RunHolds
  <1>. QED
    BY <1>1, <1>4, <1>5, <1>6, <1>7, <1>8, Zenon

(* So does ingest. *)
LEMMA IngestBase ==
  ASSUME Base, IngestStep
  PROVE  Base'
  <1>1. /\ rows \in [Objects -> Rows \cup {Null}] /\ ing \in IngRecs /\ run \in RunRecs /\ left \in Budget
        /\ cache \in Known /\ missed \subseteq Objects /\ IngHolds
    BY Zenon DEF Base, Types
  <1>2. /\ ing.pc \in {"idle", "lock", "get", "write"} /\ ing.obj \in Objects \cup {Null}
        /\ ing.def \in Known /\ ing.set \in Tags \cup {Null} /\ ing.row \in Rows \cup {Null}
    BY <1>1, Zenon DEF IngRecs
  <1>3. ASSUME NEW o \in Objects, NEW s \in Sizes, Ingest(o, s) PROVE Base'
    <2>1. (IF rows[o] = Null THEN NewRow(s) ELSE [rows[o] EXCEPT !.size = s]) \in Rows
      BY <1>1, RowFacts, NewRowFacts, Zenon
    <2>2. rows' \in [Objects -> Rows \cup {Null}] /\ rows'[o] # Null
      BY <1>1, <1>3, <2>1, RowFacts, Zenon DEF Ingest
    <2>3. ing' \in IngRecs /\ ing'.pc = "lock" /\ ing'.obj = o
      BY <1>1, <1>3, Zenon DEF Ingest, IngRecs
    <2>4. o # Null
      BY ClassifierAssumption, Zenon
    <2>5. left' \in Budget /\ missed' \subseteq Objects
      BY <1>1, <1>3, SpendFacts, Zenon DEF Bounded, Ingest
    <2>6. UNCHANGED <<store, cache, admin, run, ready, stale>>
      BY <1>3, Zenon DEF Ingest
    <2>. QED
      BY <2>2, <2>3, <2>4, <2>5, <2>6, Zenon DEF Base, Types, IngHolds, RunHolds
  <1>4. ASSUME NEW o \in Objects, IngestRemoves(o) PROVE Base'
    <2>1. rows' \in [Objects -> Rows \cup {Null}] /\ ing.pc = "idle"
      BY <1>1, <1>4, Zenon DEF IngestRemoves
    <2>2. /\ run' \in RunRecs
          /\ run'.pc = run.pc /\ run'.def = run.def /\ run'.batch = run.batch /\ run'.row = run.row /\ run'.set = run.set
      BY <1>1, <1>4, Zenon DEF IngestRemoves, RunRecs
    <2>3. left' \in Budget
      BY <1>1, <1>4, SpendFacts, Zenon DEF Bounded, IngestRemoves
    <2>4. UNCHANGED <<store, cache, admin, ing, ready, stale, missed>>
      BY <1>4, Zenon DEF IngestRemoves
    <2>. QED
      BY <2>1, <2>2, <2>3, <2>4, Zenon DEF Base, Types, IngHolds, RunHolds
  <1>5. CASE IngestLocks
    <2>1. \A r, t : cache # Null => evaluate_classifier(cache.rules, r, t) \in Tags \cup {Null}
      BY <1>1, KnownFacts, EvalType, Zenon
    <2> DEFINE set == IF cache # Null /\ cache.enabled THEN evaluate_classifier(cache.rules, rows[ing.obj], now) ELSE Null
    <2>2. /\ set \in Tags \cup {Null} /\ (set # Null => cache # Null)
          /\ ing' = IF set = Null THEN IngIdle ELSE [ing EXCEPT !.pc = "get", !.def = cache, !.set = set]
      BY <1>5, <2>1, Zenon DEF IngestLocks
    <2> HIDE DEF set
    <2>3. ing' \in IngRecs /\ (ing'.pc # "idle" => /\ ing'.pc = "get" /\ ing'.obj = ing.obj
                                                   /\ ing'.def # Null /\ ing'.set # Null)
      BY <1>1, <2>2, Idles, Zenon DEF IngRecs
    <2>4. ing.pc = "lock" /\ UNCHANGED <<rows, store, cache, admin, run, ready, stale, missed, left>>
      BY <1>5, Zenon DEF IngestLocks
    <2>. QED
      BY <2>3, <2>4, Zenon DEF Base, Types, IngHolds, RunHolds
  <1>6. CASE IngestGets
    <2>1. ing.pc = "get" /\ UNCHANGED <<rows, store, cache, admin, run, ready, stale, missed, left>>
      BY <1>6, Zenon DEF IngestGets
    <2>2. rows[ing.obj] \in Rows /\ rows[ing.obj] # Null
      BY <1>1, <1>2, <2>1, Zenon DEF IngHolds
    <2>3. /\ ing' \in IngRecs /\ ing'.pc = "write" /\ ing'.obj = ing.obj /\ ing'.def = ing.def /\ ing'.set = ing.set
          /\ ing'.row = rows[ing.obj]
      BY <1>1, <1>6, <2>2, Zenon DEF IngestGets, IngRecs
    <2>. QED
      BY <2>1, <2>2, <2>3, Zenon DEF Base, Types, IngHolds, RunHolds
  <1>7. CASE IngestTags
    <2>1. ing.pc = "write" /\ UNCHANGED <<store, cache, admin, run, ready, stale, missed, left>> /\ ing' = IngIdle
      BY <1>7, Zenon DEF IngestTags
    <2>2. update_scoped_xattr(ing.row, ing.set, ing.def.manages) \in Rows /\ ing.obj \in Objects
      BY <1>1, <1>2, <2>1, ScopedFacts, Zenon DEF IngHolds
    <2>3. rows' \in [Objects -> Rows \cup {Null}]
      BY <1>1, <1>7, <2>2, Zenon DEF IngestTags
    <2>. QED
      BY <2>1, <2>3, Idles, Zenon DEF Base, Types, IngHolds, RunHolds
  <1>8. CASE IngestFails
    <2>1. ing.pc # "idle" /\ ing' = IngIdle /\ missed' = missed \cup {ing.obj} /\ Spend("failures")
          /\ UNCHANGED <<rows, store, cache, admin, run, ready, stale>>
      BY <1>8, Zenon DEF IngestFails
    <2>2. missed' \subseteq Objects
      BY <1>1, <1>2, <2>1, Zenon DEF IngHolds
    <2>3. left' \in Budget
      BY <1>1, <2>1, SpendFacts, Zenon DEF Bounded
    <2>. QED
      BY <2>1, <2>2, <2>3, Idles, Zenon DEF Base, Types, IngHolds, RunHolds
  <1>. QED
    BY <1>3, <1>4, <1>5, <1>6, <1>7, <1>8, Zenon DEF IngestStep

(* A copy that is written back is one of a row. *)
LEMMA Copies ==
  ASSUME Clocked, NEW w \in Patchers, PatchWrites(w)
  PROVE  patch[w].obj \in Objects /\ patch[w].row \in Rows
  <1>1. patch[w] # PatchIdle /\ patch \in [Patchers -> [obj : Objects, row : Rows] \cup {PatchIdle}]
    BY Zenon DEF Clocked, PatchWrites
  <1>2. patch[w] \in [obj : Objects, row : Rows]
    BY <1>1, Zenon
  <1>. QED
    BY <1>2, Zenon

(* So do the writers of sm_status, and the clock. *)
LEMMA OthersBase ==
  ASSUME Base, Clocked, PatchStep \/ Tick
  PROVE  Base'
  <1>1. /\ rows \in [Objects -> Rows \cup {Null}] /\ left \in Budget /\ missed \subseteq Objects /\ IngHolds
        /\ ing.obj \in Objects \cup {Null}
    BY Zenon DEF Base, Types, IngRecs
  <1>2. ASSUME NEW w \in Patchers, PatchWrites(w) PROVE Base'
    <2>1. PICK o \in Objects, r \in Rows : o = patch[w].obj /\ r = patch[w].row
      BY <1>2, Copies, Zenon
    <2>2. /\ rows' = [rows EXCEPT ![o] = r] /\ UNCHANGED <<store, cache, admin, ing, run, ready, stale, left>>
          /\ missed' = IF rows[o] = r THEN missed ELSE missed \cup {o}
      BY <1>2, <2>1, Zenon DEF PatchWrites
    <2>3. rows' \in [Objects -> Rows \cup {Null}] /\ missed' \subseteq Objects
      BY <1>1, <2>2, Zenon
    <2>4. \A x \in Objects : rows[x] # Null => rows'[x] # Null
      BY <1>1, <2>2, RowFacts, Zenon
    <2>5. IngHolds' /\ RunHolds'
      BY <1>1, <2>2, <2>4, Zenon DEF Base, IngHolds, RunHolds
    <2>. QED
      BY <2>2, <2>3, <2>5, Zenon DEF Base, Types
  <1>3. ASSUME NEW w \in Patchers, NEW o \in Objects, PatchReads(w, o) PROVE Base'
    <2>1. left' \in Budget /\ UNCHANGED <<rows, store, cache, admin, ing, run, ready, stale, missed>>
      BY <1>1, <1>3, SpendFacts, Zenon DEF Bounded, PatchReads
    <2>. QED
      BY <2>1, Zenon DEF Base, Types, IngHolds, RunHolds
  <1>4. CASE Tick
    <2>1. UNCHANGED <<rows, store, cache, admin, ing, run, ready, stale, missed, left>>
      BY <1>4, Zenon DEF Tick
    <2>. QED
      BY <2>1, Zenon DEF Base, Types, IngHolds, RunHolds
  <1>. QED
    BY <1>2, <1>3, <1>4, Zenon DEF PatchStep

(* So does the run. *)
LEMMA RunBase ==
  ASSUME Base, RunStep
  PROVE  Base'
  <1>1. /\ rows \in [Objects -> Rows \cup {Null}] /\ run \in RunRecs /\ ing \in IngRecs /\ left \in Budget
        /\ missed \subseteq Objects /\ store \in Known /\ RunHolds /\ ready \in BOOLEAN /\ IngHolds
    BY Zenon DEF Base, Types
  <1>2. /\ run.pc \in {"idle", "page", "tag", "write"} /\ run.def \in Known /\ run.batch \in Batches
        /\ run.offset \in 0..Cardinality(Objects) /\ run.full \in BOOLEAN /\ run.row \in Rows \cup {Null}
        /\ run.set \in Tags \cup {Null}
        /\ run.alone \in BOOLEAN /\ run.offset \in Nat
    BY <1>1 DEF RunRecs
  <1>3. /\ run.batch # <<>> => /\ Entry.obj \in Objects /\ Rest \in RunRecs
                               /\ Rest.pc = "tag" /\ Rest.def = run.def
        /\ run.pc # "idle" => \A r, t : evaluate_classifier(run.def.rules, r, t) \in Tags \cup {Null}
    <2>1. run.batch # <<>> => Entry.obj \in Objects /\ Tail(run.batch) \in Batches
      BY <1>2, BatchHas, Zenon DEF Entry
    <2>2. run.batch # <<>> => Rest \in RunRecs /\ Rest.pc = "tag" /\ Rest.def = run.def
      BY <1>1, <2>1, Zenon DEF Rest, RunRecs
    <2>3. run.pc # "idle" => \A r, t : evaluate_classifier(run.def.rules, r, t) \in Tags \cup {Null}
      BY <1>1, <1>2, KnownFacts, EvalType, Zenon DEF RunHolds
    <2>. QED
      BY <2>1, <2>2, <2>3, Zenon
  <1>4. CASE RunStarts
    <2>1. run' \in RunRecs /\ run'.pc = "page" /\ run'.def # Null
      BY <1>1, <1>4, Idles, Zenon DEF RunStarts, RunRecs
    <2>2. left' \in Budget
      BY <1>1, <1>4, SpendFacts, Zenon DEF Bounded, RunStarts
    <2>3. missed' \subseteq Objects
      BY <1>1, <1>4, Zenon DEF RunStarts, IngRecs, IngHolds
    <2>4. ready' = FALSE /\ UNCHANGED <<rows, store, cache, admin, ing, stale>>
      BY <1>4, Zenon DEF RunStarts
    <2>. QED
      BY <2>1, <2>2, <2>3, <2>4, Zenon DEF Base, Types, IngHolds, RunHolds
  <1>5. ASSUME RunReturns PROVE run' \in RunRecs /\ run'.pc = "idle" /\ ready' \in BOOLEAN
    BY <1>2, <1>5, Idles, Zenon DEF RunReturns
  <1>6. CASE RunPages
    <2>1. PICK b : b = Page(run.offset, Limit)
      BY Zenon
    <2>2. /\ run.pc = "page" /\ UNCHANGED <<rows, store, cache, admin, ing, stale, missed, left>>
          /\ run.offset < MaxEntries
          /\ IF b = <<>> THEN RunReturns
             ELSE run' = [run EXCEPT !.pc = "tag", !.batch = b, !.full = Len(b) = Limit,
                                     !.offset = @ + Len(b)] /\ UNCHANGED ready
      BY <1>6, <2>1, Zenon DEF RunPages
    <2>3. b \in Batches /\ (b # <<>> => run.offset + Len(b) \in 0..Cardinality(Objects))
      <3>1. PICK off \in Nat, lim \in Nat \ {0} : off = run.offset /\ lim = Limit
        BY <1>2, <2>2, LimitFacts, Zenon
      <3>2. PageIs(b, off, lim)
        <4>1. b = Page(off, lim)
          BY <2>1, <3>1, Zenon
        <4>. QED
          BY <1>1, <3>1, <4>1, PageFacts, Zenon
      <3>. QED
        BY <3>1, <3>2, Zenon DEF Batches, PageIs
    <2>4. b # <<>> => run' \in RunRecs /\ run'.pc = "tag" /\ run'.def = run.def /\ ready' \in BOOLEAN
      <3> SUFFICES ASSUME b # <<>> PROVE run' \in RunRecs /\ run'.pc = "tag" /\ run'.def = run.def /\ ready' \in BOOLEAN
        BY Zenon
      <3> DEFINE full == Len(b) = Limit
                 off  == run.offset + Len(b)
      <3>1. /\ run' = [run EXCEPT !.pc = "tag", !.batch = b, !.full = full, !.offset = off] /\ ready' = ready
            /\ full \in BOOLEAN /\ off \in 0..Cardinality(Objects)
        BY <2>2, <2>3, Zenon
      <3> HIDE DEF full, off
      <3>. QED
        BY <1>1, <2>3, <3>1, Zenon DEF RunRecs
    <2>5. run' \in RunRecs /\ ready' \in BOOLEAN /\ (run'.pc = "idle" \/ (run'.pc = "tag" /\ run'.def = run.def))
      BY <1>5, <2>2, <2>4, Zenon
    <2>. QED
      BY <2>2, <2>5, Zenon DEF Base, Types, IngHolds, RunHolds
  <1>7. CASE RunGets
    <2>1. /\ run.pc = "tag" /\ run.batch # <<>> /\ UNCHANGED <<rows, store, cache, admin, ing, ready, stale, missed, left>>
          /\ run' = IF RunTags = Null \/ rows[Entry.obj] = Null THEN Rest
                    ELSE [run EXCEPT !.pc = "write", !.set = RunTags, !.row = rows[Entry.obj]]
      BY <1>7, Zenon DEF RunGets
    <2>2. CASE RunTags = Null \/ rows[Entry.obj] = Null
      BY <1>1, <1>3, <2>1, <2>2, Zenon DEF Base, Types, IngHolds, RunHolds
    <2>3. CASE ~(RunTags = Null \/ rows[Entry.obj] = Null)
      <3>1. rows[Entry.obj] \in Rows
        BY <1>1, <1>3, <2>1, <2>3, Zenon
      <3>2. PICK set \in Tags : set = RunTags /\ set # Null
        BY <1>3, <2>1, <2>3, Zenon DEF RunTags
      <3>3. /\ run' \in RunRecs /\ run'.pc = "write" /\ run'.def = run.def /\ run'.batch = run.batch
            /\ run'.row = rows[Entry.obj] /\ run'.set = set
        BY <1>1, <2>1, <2>3, <3>1, <3>2, Zenon DEF RunRecs
      <3>4. RunHolds'
        BY <1>1, <2>1, <2>3, <3>2, <3>3, Zenon DEF RunHolds
      <3>. QED
        BY <2>1, <3>3, <3>4, Zenon DEF Base, Types, IngHolds
    <2>. QED
      BY <2>2, <2>3, Zenon
  <1>8. CASE RunWrites
    <2>1. /\ run.pc = "write" /\ run' = Rest /\ UNCHANGED <<store, cache, admin, ing, ready, stale, missed, left>>
          /\ rows' = [rows EXCEPT ![Entry.obj] = update_scoped_xattr(run.row, run.set, run.def.manages)]
      BY <1>8, Zenon DEF RunWrites
    <2>2. run.batch # <<>> /\ run.row \in Rows /\ run.set \in Tags /\ run.def # Null
      BY <1>1, <1>2, <2>1, Zenon DEF RunHolds
    <2>3. update_scoped_xattr(run.row, run.set, run.def.manages) \in Rows
      BY <2>2, ScopedFacts, Zenon
    <2>4. rows' \in [Objects -> Rows \cup {Null}] /\ \A o \in Objects : rows[o] # Null => rows'[o] # Null
      BY <1>1, <1>3, <2>1, <2>2, <2>3, RowFacts, Zenon
    <2>5. ing.obj \in Objects \cup {Null}
      BY <1>1, Zenon DEF IngRecs
    <2>6. IngHolds' /\ RunHolds'
      BY <1>1, <1>3, <2>1, <2>2, <2>4, <2>5, Zenon DEF IngHolds, RunHolds
    <2>. QED
      BY <1>3, <2>1, <2>2, <2>4, <2>6, Zenon DEF Base, Types
  <1>9. CASE RunWriteFails
    <2>1. /\ run.pc = "write" /\ run' = Rest /\ Spend("failures") /\ missed' = missed \cup {Entry.obj}
          /\ UNCHANGED <<rows, store, cache, admin, ing, ready, stale>>
      BY <1>9, Zenon DEF RunWriteFails
    <2>2. run.batch # <<>> /\ run.def # Null
      BY <1>1, <2>1, Zenon DEF RunHolds
    <2>3. run' \in RunRecs /\ run'.pc = "tag" /\ run'.def = run.def /\ missed' \subseteq Objects
      BY <1>1, <1>3, <2>1, <2>2, Zenon
    <2>4. left' \in Budget
      BY <1>1, <2>1, SpendFacts, Zenon DEF Bounded
    <2>. QED
      BY <2>1, <2>2, <2>3, <2>4, Zenon DEF Base, Types, IngHolds, RunHolds
  <1>11. CASE RunCapped
    <2>1. RunReturns /\ UNCHANGED <<rows, store, cache, admin, ing, stale, left>> /\ missed' \subseteq Objects
      BY <1>1, <1>11, Zenon DEF RunCapped, Live
    <2>. QED
      BY <1>5, <2>1, Zenon DEF Base, Types, IngHolds, RunHolds
  <1>12. CASE RunFails
    <2>1. run' = RunIdle /\ UNCHANGED <<rows, store, cache, admin, ing, ready, stale, missed>>
      BY <1>12, Zenon DEF RunFails
    <2>2. left' \in Budget
      BY <1>1, <1>12, SpendFacts, Zenon DEF Bounded, RunFails
    <2>. QED
      BY <2>1, <2>2, Idles, Zenon DEF Base, Types, IngHolds, RunHolds
  <1>10. CASE RunPageDone
    <2>1. /\ run.pc = "tag" /\ UNCHANGED <<rows, store, cache, admin, ing, stale, missed, left>>
          /\ IF run.full THEN run' = [run EXCEPT !.pc = "page"] /\ UNCHANGED ready ELSE RunReturns
      BY <1>10, Zenon DEF RunPageDone
    <2>2. run.full => run' \in RunRecs /\ run'.pc = "page" /\ run'.def = run.def /\ ready' \in BOOLEAN
      BY <1>1, <2>1, Zenon DEF RunRecs
    <2>3. run' \in RunRecs /\ ready' \in BOOLEAN /\ (run'.pc = "idle" \/ (run'.pc = "page" /\ run'.def = run.def))
      BY <1>5, <2>1, <2>2, Zenon
    <2>. QED
      BY <2>1, <2>3, Zenon DEF Base, Types, IngHolds, RunHolds
  <1>. QED
    BY <1>4, <1>6, <1>7, <1>8, <1>9, <1>10, <1>11, <1>12, Zenon DEF RunStep

(* The clock goes on, and is what ingest and the run read. *)
LEMMA ClockedNext ==
  ASSUME Base, Clocked, Next
  PROVE  Clocked'
  <1>1. /\ now \in Times /\ since \in Times /\ asOf \in [Objects -> Times] /\ since <= now
        /\ patch \in [Patchers -> [obj : Objects, row : Rows] \cup {PatchIdle}]
        /\ now \in Int /\ since \in Int /\ Times \subseteq Int
    BY ClassifierAssumption, Zenon DEF Clocked
  <1>2. CASE UNCHANGED <<now, since, asOf, patch>>
    BY <1>2, Zenon DEF Clocked
  <1>3. CASE Handlers
    <2>1. UNCHANGED <<now, since, asOf, patch>>
      BY <1>3, Zenon DEF Handlers, create_classifier, update_classifier, delete_classifier, Edit, ReloadList,
           ReloadFails, ReloadSwap
    <2>. QED
      BY <1>2, <2>1, Zenon
  <1>4. CASE IngestLocks
    <2>1. asOf' \in [Objects -> Times] /\ UNCHANGED <<now, since, patch>>
      BY <1>1, <1>4, Zenon DEF IngestLocks
    <2>. QED
      BY <1>1, <2>1, Zenon DEF Clocked
  <1>5. CASE IngestStep /\ ~IngestLocks
    <2>1. UNCHANGED <<now, since, asOf, patch>>
      BY <1>5, Zenon DEF IngestStep, Ingest, IngestRemoves, IngestGets, IngestTags, IngestFails
    <2>. QED
      BY <1>2, <2>1, Zenon
  <1>6. ASSUME NEW w \in Patchers, PatchWrites(w) PROVE Clocked'
    <2>1. patch' \in [Patchers -> [obj : Objects, row : Rows] \cup {PatchIdle}] /\ UNCHANGED <<now, since, asOf>>
      BY <1>1, <1>6, Zenon DEF PatchWrites
    <2>. QED
      BY <1>1, <2>1, Zenon DEF Clocked
  <1>7. ASSUME NEW w \in Patchers, NEW o \in Objects, PatchReads(w, o) PROVE Clocked'
    <2>1. rows[o] \in Rows
      BY <1>7, Zenon DEF Base, Types, PatchReads
    <2>2. patch' \in [Patchers -> [obj : Objects, row : Rows] \cup {PatchIdle}] /\ UNCHANGED <<now, since, asOf>>
      BY <1>1, <1>7, <2>1, Zenon DEF PatchReads
    <2>. QED
      BY <1>1, <2>2, Zenon DEF Clocked
  <1>8. CASE RunStarts
    <2>1. since' = now /\ UNCHANGED <<now, asOf, patch>> /\ now <= now
      BY <1>1, <1>8 DEF RunStarts
    <2>. QED
      BY <1>1, <2>1, Zenon DEF Clocked
  <1>9. CASE RunGets
    <2>1. asOf' \in [Objects -> Times] /\ UNCHANGED <<now, since, patch>>
      BY <1>1, <1>9, Zenon DEF RunGets
    <2>. QED
      BY <1>1, <2>1, Zenon DEF Clocked
  <1>10. CASE RunStep /\ ~RunStarts /\ ~RunGets
    <2>1. UNCHANGED <<now, since, asOf, patch>>
      BY <1>10, Zenon DEF RunStep, RunPages, RunCapped, RunFails, RunWrites, RunWriteFails, RunPageDone
    <2>. QED
      BY <1>2, <2>1, Zenon
  <1>11. CASE Tick
    <2>1. PICK t \in Times : t > now /\ now' = t /\ UNCHANGED <<since, asOf, patch>>
      BY <1>11, Zenon DEF Tick
    <2>2. since <= t
      BY <1>1, <2>1
    <2>. QED
      BY <1>1, <2>1, <2>2, Zenon DEF Clocked
  <1>. QED
    BY <1>3, <1>4, <1>5, <1>6, <1>7, <1>8, <1>9, <1>10, <1>11, Zenon DEF Next, PatchStep

(* When no handler is running, the cache is what is stored. *)
LEMMA CachedNext ==
  ASSUME Base, Cached, Next
  PROVE  Cached'
  <1>1. admin \in [Admins -> AdminRecs]
    BY Zenon DEF Base, Types
  <1>2. ASSUME NEW a \in Admins, NEW d, Edit(a, d) PROVE Cached'
    <2> SUFFICES ASSUME ~stale' PROVE Cached'
      BY Zenon DEF Cached
    <2>1. \A b \in Admins : b # a => admin[b].pc = "idle"
      BY <1>2, Zenon DEF Edit
    <2>2. admin'[a].pc = "list" /\ \A b \in Admins : b # a => admin'[b] = admin[b]
      BY <1>1, <1>2, Zenon DEF Edit, AdminRecs
    <2>. QED
      BY <2>1, <2>2 DEF Cached, Settled
  <1>3. ASSUME NEW a \in Admins, ReloadList(a) PROVE Cached'
    <2>1. /\ admin[a].pc = "list" /\ admin'[a].pc = "swap" /\ admin'[a].list = store
          /\ \A b \in Admins : b # a => admin'[b] = admin[b]
      BY <1>1, <1>3, Zenon DEF ReloadList
    <2>2. UNCHANGED <<store, cache, stale>>
      BY <1>3, Zenon DEF ReloadList
    <2>. QED
      BY <2>1, <2>2 DEF Cached, Settled
  <1>4. ASSUME NEW a \in Admins, ReloadFails(a) PROVE Cached'
    BY <1>4, Zenon DEF ReloadFails, Cached
  <1>5. ASSUME NEW a \in Admins, ReloadSwap(a) PROVE Cached'
    <2>1. /\ admin[a].pc = "swap" /\ admin'[a].pc = "idle" /\ cache' = admin[a].list
          /\ \A b \in Admins : b # a => admin'[b] = admin[b]
      BY <1>1, <1>5, Zenon DEF ReloadSwap, AdminIdle
    <2>2. UNCHANGED <<store, stale>>
      BY <1>5, Zenon DEF ReloadSwap
    <2>. QED
      BY <2>1, <2>2, Zenon DEF Cached, Settled
  <1>6. CASE Handlers
    BY <1>2, <1>3, <1>4, <1>5, <1>6, Zenon DEF Handlers, create_classifier, update_classifier, delete_classifier
  <1>7. CASE UNCHANGED <<store, cache, admin, stale>>
    BY <1>7, Zenon DEF Cached, Settled
  <1>8. CASE IngestStep
    <2>1. UNCHANGED <<store, cache, admin, stale>>
      BY <1>8, Zenon DEF IngestStep, Ingest, IngestRemoves, IngestLocks, IngestGets, IngestTags, IngestFails
    <2>. QED
      BY <1>7, <2>1, Zenon
  <1>9. CASE RunStep
    <2>1. UNCHANGED <<store, cache, admin, stale>>
      BY <1>9, Zenon DEF RunStep, RunStarts, RunPages, RunCapped, RunFails, RunGets, RunWrites, RunWriteFails,
           RunPageDone
    <2>. QED
      BY <1>7, <2>1, Zenon
  <1>10. CASE PatchStep \/ Tick
    <2>1. UNCHANGED <<store, cache, admin, stale>>
      BY <1>10, Zenon DEF PatchStep, PatchReads, PatchWrites, Tick
    <2>. QED
      BY <1>7, <2>1, Zenon
  <1>. QED
    BY <1>6, <1>8, <1>9, <1>10, Zenon DEF Next

-----------------------------------------------------------------------------
(* Tags.                                                                    *)

Lasting == Undisturbed /\ (run.alone => Passed) /\ (ready /\ ~stale => Kept)

(* Alike is an equivalence. *)
LEMMA AlikeFacts ==
  /\ \A r : Alike(r, r)
  /\ \A r, s : Alike(r, s) => Alike(s, r)
  /\ \A r, s, t : Alike(r, s) /\ Alike(s, t) => Alike(r, t)
  BY Zenon DEF Alike

(* A row that is not written keeps its tags and the rule that matches it. *)
LEMMA SameRow ==
  ASSUME store' = store, since' = since, NEW o, rows'[o] = rows[o], asOf'[o] = asOf[o]
  PROVE  /\ Expected(o)' = Expected(o)
         /\ Tagged(o)' <=> Tagged(o)
  BY Zenon DEF Expected, Tagged

(* A row that was written with the tags that are expected of it. *)
LEMMA WrittenRow ==
  ASSUME NEW o, NEW r \in Rows, NEW set \in Tags, store \in Known, store # Null, store' = store,
         Alike(r, rows[o]), set = Expected(o), asOf[o] >= since, asOf'[o] = asOf[o], since' = since,
         rows'[o] = update_scoped_xattr(r, set, store.manages)
  PROVE  Tagged(o)'
  <1>1. /\ Alike(rows'[o], r)
        /\ \A k \in store.manages : Tag(rows'[o], k) = IF k \in DOMAIN set THEN set[k] ELSE Null
    <2>1. PICK m : m = store.manages
      BY Zenon
    <2>2. /\ Alike(update_scoped_xattr(r, set, m), r)
          /\ \A k \in m : Tag(update_scoped_xattr(r, set, m), k) = IF k \in DOMAIN set THEN set[k] ELSE Null
      BY ScopedFacts, Zenon
    <2>3. update_scoped_xattr(r, set, m) = rows'[o]
      BY <2>1, Zenon
    <2>. QED
      BY <2>1, <2>2, <2>3, Zenon
  <1>2. Alike(rows'[o], rows[o])
    BY <1>1, AlikeFacts, Zenon
  <1>3. Expected(o)' = set
    <2>1. PICK d \in Defs : d = store
      BY KnownFacts, Zenon
    <2>2. PICK x, y, t : x = rows'[o] /\ y = rows[o] /\ t = asOf[o]
      BY Zenon
    <2>3. evaluate_classifier(d.rules, x, t) = evaluate_classifier(d.rules, y, t)
      <3>1. Alike(x, y)
        BY <1>2, <2>2, Zenon
      <3>. QED
        BY <3>1, EvalAlike, Zenon
    <2>. QED
      BY <2>1, <2>2, <2>3, Zenon DEF Expected
  <1>. QED
    BY <1>1, <1>3, Zenon DEF Tagged

(* When rows are added, the ranks of the others do not fall. *)
LEMMA AheadStays ==
  ASSUME \A o \in Objects : rows[o] # Null => rows'[o] # Null, NEW o \in Live,
         run \in RunRecs, run'.offset = run.offset, run'.full = run.full, run'.pc = "page" <=> run.pc = "page",
         Ahead(o)
  PROVE  Ahead(o)'
  <1>1. /\ IsFiniteSet(Live') /\ Live' \subseteq Int /\ Live \subseteq Live'
    <2>1. Live' \subseteq Objects /\ Live \subseteq Live'
      BY Zenon DEF Live
    <2>. QED
      BY <2>1, ClassifierAssumption, FS_Subset, Zenon
  <1>2. Rk(Live, o) \in Nat /\ Rk(Live', o) \in Nat /\ Rk(Live, o) <= Rk(Live', o)
    BY <1>1, RankGrows, Zenon
  <1>3. Rank(o) = Rk(Live, o) /\ Rank(o)' = Rk(Live', o)
    BY Zenon DEF Rank, Rk, Below
  <1>4. run.offset \in Nat
    BY DEF RunRecs
  <1>5. Rank(o) >= run.offset => Rank(o)' >= run.offset
    BY <1>2, <1>3, <1>4
  <1>. QED
    BY <1>5, Zenon DEF Ahead

(* Handlers end what was undisturbed. *)
LEMMA HandlersKeep ==
  ASSUME ClassInv, Handlers
  PROVE  Lasting'
  <1>1. PICK a \in Admins :
          \/ \E d \in Defs \cup {Null} : Edit(a, d)
          \/ ReloadList(a) \/ ReloadFails(a) \/ ReloadSwap(a)
    BY Zenon DEF Handlers, create_classifier, update_classifier, delete_classifier
  <1>2. run \in RunRecs /\ Undisturbed
    BY Zenon DEF ClassInv, Base, Types
  <1>3. CASE \E d \in Defs \cup {Null} : Edit(a, d)
    <2>1. PICK d : Edit(a, d)
      BY <1>3, Zenon
    <2>2. run'.alone = FALSE /\ run'.pc = run.pc /\ ready' = FALSE /\ UNCHANGED <<ing, missed>>
      BY <1>2, <2>1, Zenon DEF Edit, RunRecs
    <2>. QED
      BY <1>2, <2>2, Zenon DEF Lasting, Undisturbed
  <1>4. CASE ReloadList(a) \/ ReloadFails(a) \/ ReloadSwap(a)
    <2>1. admin[a].pc # "idle" /\ UNCHANGED <<run, ready, ing, missed>>
      BY <1>4, Zenon DEF ReloadList, ReloadFails, ReloadSwap
    <2>2. ~run.alone /\ ~ready
      BY <1>2, <2>1, Zenon DEF Undisturbed, Settled
    <2>. QED
      BY <1>2, <2>1, <2>2, Zenon DEF Lasting, Undisturbed
  <1>. QED
    BY <1>1, <1>3, <1>4, Zenon

(* A step that changes none of it: the clock moves, a copy is read. *)
LEMMA StillLasts ==
  ASSUME ClassInv, UNCHANGED <<rows, store, admin, ing, run, ready, stale, missed, since, asOf>>
  PROVE  Lasting'
  <1>1. Undisturbed /\ (run.alone => Passed) /\ (ready /\ ~stale => Kept)
    BY Zenon DEF ClassInv
  <1>2. Undisturbed'
    BY <1>1, Zenon DEF Undisturbed, Settled
  <1>3. run.alone => Passed'
    BY <1>1, Zenon DEF Passed, Fetched, Held, Entry, Live, Tagged, Expected, InBatch, Ahead, Rank
  <1>4. ready /\ ~stale => Kept'
    BY <1>1, Zenon DEF Kept, AtIngest, Brings, Live, Tagged, Expected
  <1>. QED
    BY <1>2, <1>3, <1>4, Zenon DEF Lasting

(* A step that changes no more than the row of one object, and when it was evaluated. *)
Touches(o) ==
  /\ \A x \in Objects : x # o => rows'[x] = rows[x] /\ asOf'[x] = asOf[x]
  /\ missed' \cup {o} = missed \cup {o}
  /\ UNCHANGED <<store, since>>

(* What a run has passed it has passed, when the step is on a row that it missed. *)
LEMMA PassedBut ==
  ASSUME ClassInv, run.alone, NEW o \in Objects, Touches(o), o \in missed', rows[o] # Null => rows'[o] # Null,
         run' = run
  PROVE  Passed'
  <1>1. run \in RunRecs /\ Passed /\ RunHolds
    BY Zenon DEF ClassInv, Base, Types
  <1>2. \A x \in Live' \ missed' : x \in Objects /\ x # o /\ x \in Live \ missed /\ (Tagged(x)' <=> Tagged(x))
    BY SameRow, Zenon DEF Live, Touches
  <1>3. \A i \in DOMAIN run.batch : Fetched(run.batch[i])'
    <2>1. \A e \in [obj : Objects, row : Rows] : Fetched(e) => Fetched(e)'
      BY Zenon DEF Fetched, Touches
    <2>2. \A i \in DOMAIN run.batch : run.batch[i] \in [obj : Objects, row : Rows]
      BY <1>1, BatchElems, Zenon DEF RunRecs
    <2>. QED
      BY <1>1, <2>1, <2>2, Zenon DEF Passed
  <1>4. ASSUME run'.pc = "write", Entry'.obj \notin missed' PROVE Held(Entry.obj)'
    <2>0. Entry' = Entry
      BY Zenon DEF Entry
    <2>1. PICK x \in Objects : x = Entry.obj /\ x = Entry'.obj
      BY <1>1, <1>4, <2>0, BatchHas, Zenon DEF RunHolds, RunRecs, Entry
    <2>2. x # o /\ x \notin missed /\ Held(Entry.obj)
      BY <1>1, <1>4, <2>1, Zenon DEF Passed, Touches
    <2>3. rows'[x] = rows[x] /\ asOf'[x] = asOf[x] /\ since' = since /\ store' = store
      BY <2>2, Zenon DEF Touches
    <2>. QED
      BY <2>1, <2>2, <2>3, Zenon DEF Held, Expected
  <1>5. ASSUME NEW x \in Live' \ missed' PROVE Tagged(x)' \/ InBatch(x)' \/ Ahead(x)'
    <2>1. Ahead(x) => Ahead(x)'
      <3>1. \A y \in Objects : rows[y] # Null => rows'[y] # Null
        BY Zenon DEF Touches
      <3>. QED
        BY <1>1, <1>2, <1>5, <3>1, AheadStays, Zenon
    <2>2. InBatch(x) => InBatch(x)'
      BY Zenon DEF InBatch
    <2>. QED
      BY <1>1, <1>2, <1>5, <2>1, <2>2, Zenon DEF Passed
  <1>6. run.pc = "page" => run.batch = <<>>
    BY <1>1, Zenon DEF Passed
  <1>. QED
    BY <1>3, <1>4, <1>5, <1>6, Zenon DEF Passed

(* The other rows keep their tags. *)
LEMMA KeptBut ==
  ASSUME Kept, NEW o \in Objects, Touches(o),
         ing' = ing \/ ((ing.pc # "idle" => ing.obj = o) /\ (ing'.pc # "idle" => ing'.obj = o)),
         o \in Live' \ missed' => IF AtIngest(o)' THEN Brings(o)' ELSE Tagged(o)'
  PROVE  Kept'
  <1> SUFFICES ASSUME NEW x \in Live' \ missed', x # o PROVE IF AtIngest(x)' THEN Brings(x)' ELSE Tagged(x)'
    BY Zenon DEF Kept
  <1>2. x \in Objects /\ rows'[x] = rows[x] /\ asOf'[x] = asOf[x] /\ store' = store /\ since' = since
    BY Zenon DEF Live, Touches
  <1>1. x \in Live \ missed
    <2>1. x \in Live
      BY <1>2, Zenon DEF Live
    <2>2. x \in missed => x \in missed' \cup {o}
      BY Zenon DEF Touches
    <2>. QED
      BY <2>1, <2>2, Zenon
  <1>3. Expected(x)' = Expected(x) /\ (Tagged(x)' <=> Tagged(x))
    BY <1>2, SameRow, Zenon
  <1>4. IF AtIngest(x) THEN Brings(x) ELSE Tagged(x)
    BY <1>1, Zenon DEF Kept
  <1>5. CASE ing' = ing
    <2>1. (AtIngest(x)' <=> AtIngest(x)) /\ (Brings(x)' <=> Brings(x))
      BY <1>2, <1>3, <1>5, Zenon DEF AtIngest, Brings
    <2>. QED
      BY <1>3, <1>4, <2>1, Zenon
  <1>6. CASE (ing.pc # "idle" => ing.obj = o) /\ (ing'.pc # "idle" => ing'.obj = o)
    <2>1. ~AtIngest(x) /\ ~AtIngest(x)'
      BY <1>6, Zenon DEF AtIngest
    <2>. QED
      BY <1>3, <1>4, <2>1, Zenon
  <1>. QED
    BY <1>5, <1>6, Zenon

(* A record on an object: what it writes is missed by a run under way, and tagged next *)
(* when there is none. *)
LEMMA IngestKeeps ==
  ASSUME ClassInv, NEW o \in Objects, NEW s \in Sizes, Ingest(o, s)
  PROVE  Lasting'
  <1>1. /\ rows \in [Objects -> Rows \cup {Null}] /\ ing \in IngRecs /\ Undisturbed
        /\ ready /\ ~stale => Kept
    BY Zenon DEF ClassInv, Base, Types
  <1>2. /\ \A x \in Objects : x # o => rows'[x] = rows[x]
        /\ rows'[o] # Null
        /\ ing.pc = "idle" /\ ing'.pc = "lock" /\ ing'.obj = o
        /\ missed' = IF run.pc = "idle" THEN missed \ {o} ELSE missed \cup {o}
        /\ UNCHANGED <<store, cache, admin, run, ready, stale, since, asOf>>
    <2>1. (IF rows[o] = Null THEN NewRow(s) ELSE [rows[o] EXCEPT !.size = s]) # Null
      BY <1>1, RowFacts, NewRowFacts, Zenon
    <2>. QED
      BY <1>1, <2>1, Zenon DEF Ingest, IngRecs
  <1>3. Undisturbed'
    BY <1>1, <1>2, Zenon DEF Undisturbed, Settled
  <1>4. Touches(o)
    BY <1>2, Zenon DEF Touches
  <1>5. ASSUME run.alone PROVE Passed'
    <2>1. o \in missed'
      BY <1>1, <1>2, <1>5, Zenon DEF Undisturbed
    <2>. QED
      BY <1>2, <1>4, <1>5, <2>1, PassedBut, Zenon
  <1>6. ASSUME ready, ~stale PROVE Kept'
    <2>1. AtIngest(o)' /\ Brings(o)'
      BY <1>2, Zenon DEF AtIngest, Brings
    <2>. QED
      BY <1>1, <1>2, <1>4, <1>6, <2>1, KeptBut, Zenon
  <1>. QED
    BY <1>2, <1>3, <1>5, <1>6, Zenon DEF Lasting

(* A removal ends an undisturbed run, and leaves the other rows. *)
LEMMA RemoveKeeps ==
  ASSUME ClassInv, NEW o \in Objects, IngestRemoves(o)
  PROVE  Lasting'
  <1>1. /\ rows \in [Objects -> Rows \cup {Null}] /\ run \in RunRecs /\ Undisturbed
        /\ ready /\ ~stale => Kept
    BY Zenon DEF ClassInv, Base, Types
  <1>2. /\ \A x \in Objects : x # o => rows'[x] = rows[x]
        /\ rows'[o] = Null /\ ing.pc = "idle" /\ run'.alone = FALSE /\ run'.pc = run.pc
        /\ UNCHANGED <<store, cache, admin, ing, ready, stale, missed, since, asOf>>
    BY <1>1, Zenon DEF IngestRemoves, RunRecs
  <1>3. Undisturbed'
    BY <1>1, <1>2, Zenon DEF Undisturbed, Settled
  <1>4. Touches(o) /\ o \notin Live'
    BY <1>2, Zenon DEF Touches, Live
  <1>5. ASSUME ready, ~stale PROVE Kept'
    BY <1>1, <1>2, <1>4, <1>5, KeptBut, Zenon
  <1>. QED
    BY <1>2, <1>3, <1>5, Zenon DEF Lasting

(* A later step of ingest on its object, which a run under way has missed. *)
LEMMA IngestGoesOn ==
  ASSUME ClassInv, NEW o \in Objects, ing.pc # "idle", ing.obj = o, ing'.pc # "idle" => ing'.obj = o, Touches(o),
         UNCHANGED <<admin, run, ready, stale>>, missed \subseteq missed', rows'[o] # Null,
         ready /\ ~stale /\ o \notin missed' => IF ing'.pc = "idle" THEN Tagged(o)' ELSE Brings(o)'
  PROVE  Lasting'
  <1>1. Undisturbed /\ (ready /\ ~stale => Kept) /\ store' = store
    BY Zenon DEF ClassInv, Touches
  <1>2. Undisturbed'
    BY <1>1, Zenon DEF Undisturbed, Settled
  <1>3. ASSUME run.alone PROVE Passed'
    <2>1. o \in missed'
      BY <1>1, <1>3, Zenon DEF Undisturbed
    <2>. QED
      BY <1>3, <2>1, PassedBut, Zenon
  <1>4. ASSUME ready, ~stale PROVE Kept'
    <2>1. AtIngest(o)' <=> ing'.pc # "idle"
      BY Zenon DEF AtIngest
    <2>2. o \in Live' \ missed' => IF AtIngest(o)' THEN Brings(o)' ELSE Tagged(o)'
      BY <1>4, <2>1, Zenon
    <2>. QED
      BY <1>1, <1>4, <2>2, KeptBut, Zenon
  <1>. QED
    BY <1>2, <1>3, <1>4, Zenon DEF Lasting

(* What ingest works with. *)
LEMMA AtWork ==
  ASSUME ClassInv, ing.pc # "idle"
  PROVE  /\ ing.obj \in Objects /\ rows[ing.obj] # Null /\ ing \in IngRecs /\ IngHolds /\ Clocked
         /\ ing.obj \in Live /\ asOf \in [Objects -> Times] /\ rows \in [Objects -> Rows \cup {Null}]
         /\ ready /\ ~stale => cache = store /\ store # Null /\ store \in Known /\ store.enabled
         /\ ready /\ ~stale /\ ing.obj \notin missed => Brings(ing.obj)
  <1>1. /\ ing \in IngRecs /\ IngHolds /\ Clocked /\ Cached /\ Undisturbed /\ store \in Known
        /\ rows \in [Objects -> Rows \cup {Null}] /\ (ready /\ ~stale => Kept)
    BY Zenon DEF ClassInv, Base, Types
  <1>2. ing.obj \in Objects /\ rows[ing.obj] # Null /\ ing.obj \in Live
    BY <1>1, Zenon DEF IngHolds, IngRecs, Live
  <1>3. ready /\ ~stale => cache = store /\ store # Null /\ store.enabled
    BY <1>1, Zenon DEF Undisturbed, Cached
  <1>4. ready /\ ~stale /\ ing.obj \notin missed => Brings(ing.obj)
    BY <1>1, <1>2, Zenon DEF Kept, AtIngest
  <1>. QED
    BY <1>1, <1>2, <1>3, <1>4, Zenon DEF Clocked

(* Ingest evaluates the rules that are stored, at this moment. *)
LEMMA IngestLocksKeeps ==
  ASSUME ClassInv, IngestLocks
  PROVE  Lasting'
  <1> DEFINE used == cache # Null /\ cache.enabled
             set == IF used THEN evaluate_classifier(cache.rules, rows[ing.obj], now) ELSE Null
  <1>1. /\ ing.pc = "lock"
        /\ ing' = IF set = Null THEN IngIdle ELSE [ing EXCEPT !.pc = "get", !.def = cache, !.set = set]
        /\ asOf' = IF used THEN [asOf EXCEPT ![ing.obj] = now] ELSE asOf
        /\ UNCHANGED <<rows, store, cache, admin, run, ready, stale, missed, since>>
    BY Zenon DEF IngestLocks
  <1>2. /\ ing.obj \in Objects /\ rows[ing.obj] # Null /\ ing \in IngRecs /\ Clocked /\ asOf \in [Objects -> Times]
        /\ ready /\ ~stale => cache = store /\ store # Null /\ store.enabled
    BY <1>1, AtWork, Zenon
  <1>3. PICK o \in Objects : o = ing.obj
    BY <1>2, Zenon
  <1>4. now >= since
    BY <1>2, ClassifierAssumption DEF Clocked
  <1>5. ASSUME ready, ~stale PROVE used /\ asOf'[o] = now /\ Expected(o)' = set
    <2>1. used /\ cache = store
      BY <1>2, <1>5, Zenon
    <2>2. asOf'[o] = now
      BY <1>1, <1>2, <1>3, <2>1, Zenon
    <2>3. store' = cache /\ rows'[o] = rows[ing.obj]
      BY <1>1, <1>3, <2>1, Zenon
    <2>4. Expected(o)' = evaluate_classifier(cache.rules, rows[ing.obj], now)
      BY <2>2, <2>3, Zenon DEF Expected
    <2>. QED
      BY <2>1, <2>2, <2>4, Zenon
  <1>6. Touches(o)
    BY <1>1, <1>2, <1>3, Zenon DEF Touches
  <1> HIDE DEF used, set
  <1>7. /\ set = Null => ing'.pc = "idle"
        /\ set # Null => ing'.pc = "get" /\ ing'.obj = o /\ ing'.def = cache /\ ing'.set = set
    BY <1>1, <1>2, <1>3, Zenon DEF IngRecs, IngIdle
  <1>8. ASSUME ready, ~stale PROVE IF ing'.pc = "idle" THEN Tagged(o)' ELSE Brings(o)'
    <2>1. CASE set = Null
      BY <1>1, <1>4, <1>5, <1>7, <1>8, <2>1, Zenon DEF Tagged
    <2>2. CASE set # Null
      BY <1>1, <1>2, <1>4, <1>5, <1>7, <1>8, <2>2, Zenon DEF Brings
    <2>. QED
      BY <2>1, <2>2, Zenon
  <1>. QED
    BY <1>1, <1>2, <1>3, <1>6, <1>7, <1>8, IngestGoesOn, Zenon

(* It reads the row again before it writes it. *)
LEMMA IngestGetsKeeps ==
  ASSUME ClassInv, IngestGets
  PROVE  Lasting'
  <1>1. ing.pc = "get" /\ UNCHANGED <<rows, store, cache, admin, run, ready, stale, missed, since, asOf>>
    BY Zenon DEF IngestGets
  <1>2. /\ ing.obj \in Objects /\ rows[ing.obj] # Null /\ ing \in IngRecs
        /\ ready /\ ~stale /\ ing.obj \notin missed => Brings(ing.obj)
    BY <1>1, AtWork, Zenon
  <1>3. /\ ing'.pc = "write" /\ ing'.obj = ing.obj /\ ing'.def = ing.def /\ ing'.set = ing.set
        /\ ing'.row = rows[ing.obj]
    BY <1>2, Zenon DEF IngestGets, IngRecs
  <1>4. PICK o \in Objects : o = ing.obj
    BY <1>2, Zenon
  <1>5. Touches(o) /\ Expected(o)' = Expected(o)
    BY <1>1, SameRow, Zenon DEF Touches
  <1>6. ready /\ ~stale /\ o \notin missed => Brings(o)'
    BY <1>1, <1>2, <1>3, <1>4, <1>5, AlikeFacts, Zenon DEF Brings
  <1>. QED
    BY <1>1, <1>2, <1>3, <1>4, <1>5, <1>6, IngestGoesOn, Zenon

(* After the run, what it writes are the tags that are expected of the row. *)
LEMMA IngestTagsKeeps ==
  ASSUME ClassInv, IngestTags
  PROVE  Lasting'
  <1>1. /\ ing.pc = "write" /\ ing' = IngIdle
        /\ UNCHANGED <<store, cache, admin, run, ready, stale, missed, since, asOf>>
        /\ rows' = [rows EXCEPT ![ing.obj] = update_scoped_xattr(ing.row, ing.set, ing.def.manages)]
    BY Zenon DEF IngestTags
  <1>2. /\ ing.obj \in Objects /\ ing \in IngRecs /\ IngHolds /\ rows \in [Objects -> Rows \cup {Null}]
        /\ ready /\ ~stale => store # Null /\ store \in Known
        /\ ready /\ ~stale /\ ing.obj \notin missed => Brings(ing.obj)
    BY <1>1, AtWork, Zenon
  <1>3. PICK o \in Objects, r \in Rows, set \in Tags : o = ing.obj /\ r = ing.row /\ set = ing.set
    BY <1>1, <1>2, Zenon DEF IngHolds, IngRecs
  <1>4. /\ rows'[o] = update_scoped_xattr(r, set, ing.def.manages) /\ rows'[o] # Null
        /\ \A x \in Objects : x # o => rows'[x] = rows[x]
    <2>1. update_scoped_xattr(r, set, ing.def.manages) \in Rows
      BY ScopedFacts, Zenon
    <2>. QED
      BY <1>1, <1>2, <1>3, <2>1, RowFacts, Zenon
  <1>5. Touches(o) /\ ing'.pc = "idle"
    BY <1>1, <1>4, Idles, Zenon DEF Touches
  <1>6. ASSUME ready, ~stale, o \notin missed PROVE Tagged(o)'
    <2>1. ing.def = store /\ set = Expected(o) /\ Alike(r, rows[o]) /\ asOf[o] >= since
      BY <1>1, <1>2, <1>3, <1>6, Zenon DEF Brings
    <2>. QED
      BY <1>1, <1>2, <1>4, <1>6, <2>1, WrittenRow, Zenon
  <1>. QED
    BY <1>1, <1>3, <1>4, <1>5, <1>6, IngestGoesOn, Zenon

(* A row that ingest gives up is one that is missed. *)
LEMMA IngestFailsKeeps ==
  ASSUME ClassInv, IngestFails
  PROVE  Lasting'
  <1>1. /\ ing.pc # "idle" /\ ing' = IngIdle /\ missed' = missed \cup {ing.obj}
        /\ UNCHANGED <<rows, store, cache, admin, run, ready, stale, since, asOf>>
    BY Zenon DEF IngestFails
  <1>2. PICK o \in Objects : o = ing.obj /\ rows[o] # Null
    BY <1>1, AtWork, Zenon
  <1>3. Touches(o) /\ ing'.pc = "idle" /\ o \in missed'
    BY <1>1, <1>2, Idles, Zenon DEF Touches
  <1>. QED
    BY <1>1, <1>2, <1>3, IngestGoesOn, Zenon

(* So is a row to which an older copy is written back. *)
LEMMA PatchWritesKeeps ==
  ASSUME ClassInv, NEW w \in Patchers, PatchWrites(w)
  PROVE  Lasting'
  <1>1. /\ rows \in [Objects -> Rows \cup {Null}] /\ Undisturbed
        /\ run.alone => Passed
        /\ ready /\ ~stale => Kept
    BY Zenon DEF ClassInv, Base, Types
  <1>2. PICK o \in Objects, r \in Rows : o = patch[w].obj /\ r = patch[w].row
    BY Copies, Zenon DEF ClassInv
  <1>3. /\ rows' = [rows EXCEPT ![o] = r] /\ missed' = IF rows[o] = r THEN missed ELSE missed \cup {o}
        /\ UNCHANGED <<store, cache, admin, ing, run, ready, stale, since, asOf>>
    BY <1>2, Zenon DEF PatchWrites
  <1>4. /\ \A x \in Objects : x # o => rows'[x] = rows[x]
        /\ rows'[o] = r /\ r # Null
    BY <1>1, <1>3, RowFacts, Zenon
  <1>5. Undisturbed'
    BY <1>1, <1>3, Zenon DEF Undisturbed, Settled
  <1>6. CASE rows[o] # r
    <2>1. Touches(o) /\ o \in missed' /\ o \notin Live' \ missed'
      BY <1>3, <1>4, <1>6, Zenon DEF Touches
    <2>2. run.alone => Passed'
      BY <1>3, <1>4, <2>1, PassedBut, Zenon
    <2>3. ready /\ ~stale => Kept'
      BY <1>1, <1>3, <2>1, KeptBut, Zenon
    <2>. QED
      BY <1>3, <1>5, <2>2, <2>3, Zenon DEF Lasting
  <1>7. CASE rows[o] = r
    <2>1. UNCHANGED <<rows, missed>>
      BY <1>1, <1>3, <1>7, Zenon
    <2>. QED
      BY <1>3, <2>1, StillLasts, Zenon
  <1>. QED
    BY <1>6, <1>7, Zenon

(* A run starts ahead of every row. *)
LEMMA StartKeeps ==
  ASSUME ClassInv, RunStarts
  PROVE  Lasting'
  <1>1. run'.pc = "page" /\ run'.def = store /\ run'.offset = 0 /\ run'.batch = <<>> /\ run'.alone = Settled
    BY Zenon DEF RunStarts, RunIdle, Settled
  <1>2. /\ store # Null /\ store.enabled /\ missed' = (IF ing.pc = "idle" THEN {} ELSE {ing.obj})
        /\ ready' = FALSE /\ UNCHANGED <<rows, store, cache, admin, ing, stale>>
    BY Zenon DEF RunStarts
  <1>3. Undisturbed'
    BY <1>1, <1>2, Zenon DEF Undisturbed, Settled
  <1>4. ASSUME NEW o \in Live' PROVE Ahead(o)'
    <2>1. o \in Live /\ Rank(o)' = Rank(o)
      BY <1>2, Zenon DEF Live, Rank
    <2>2. Rank(o) \in Nat
      BY <2>1, LiveFacts, RankBound, Zenon
    <2>. QED
      BY <1>1, <2>1, <2>2 DEF Ahead
  <1>5. Passed'
    BY <1>1, <1>4 DEF Passed
  <1>. QED
    BY <1>2, <1>3, <1>5, Zenon DEF Lasting

(* A run that returns has tagged every row, but for those that ingest missed. *)
LEMMA ReturnKeeps ==
  ASSUME ClassInv, RunReturns, UNCHANGED <<rows, store, cache, admin, ing, stale, since, asOf>>, run.pc # "idle",
         missed \subseteq missed', run.alone => \A o \in Live \ missed' : Tagged(o)
  PROVE  Lasting'
  <1>1. Undisturbed /\ run'.pc = "idle" /\ run'.alone = FALSE /\ ready' = run.alone
    BY Zenon DEF ClassInv, RunReturns, RunIdle
  <1>2. Undisturbed'
    BY <1>1, Zenon DEF Undisturbed, Settled
  <1>3. ASSUME run.alone PROVE Kept'
    <2>1. \A o \in Live' \ missed' : o \in Live \ missed' /\ (Tagged(o)' <=> Tagged(o))
      BY SameRow, Zenon DEF Live
    <2>2. \A o \in Live' \ missed' : ~AtIngest(o)'
      BY <1>1, Zenon DEF Undisturbed, AtIngest
    <2>. QED
      BY <1>3, <2>1, <2>2, Zenon DEF Kept
  <1>. QED
    BY <1>1, <1>2, <1>3, Zenon DEF Lasting

(* A run has what is stored, and nothing is ready while it works. *)
LEMMA Working ==
  ASSUME ClassInv, run.pc # "idle"
  PROVE  /\ ~ready /\ run \in RunRecs /\ RunHolds /\ rows \in [Objects -> Rows \cup {Null}] /\ Undisturbed
         /\ run.alone => /\ Passed /\ run.def = store /\ store \in Defs
                         /\ \A r, s, t : Alike(r, s) => evaluate_classifier(store.rules, r, t) = evaluate_classifier(store.rules, s, t)
  <1>1. /\ run \in RunRecs /\ RunHolds /\ rows \in [Objects -> Rows \cup {Null}] /\ Undisturbed /\ store \in Known
        /\ run.alone => Passed
    BY Zenon DEF ClassInv, Base, Types
  <1>2. ~ready /\ (run.alone => run.def = store /\ store # Null)
    BY <1>1, Zenon DEF Undisturbed
  <1>3. run.alone => store \in Defs
    BY <1>1, <1>2, KnownFacts, Zenon
  <1>4. run.alone => \A r, s, t : Alike(r, s) => evaluate_classifier(store.rules, r, t) = evaluate_classifier(store.rules, s, t)
    BY <1>3, EvalAlike, Zenon
  <1>. QED
    BY <1>1, <1>2, <1>3, <1>4, Zenon

(* A step that moves the run on. *)
LEMMA RunMoves ==
  ASSUME ClassInv, UNCHANGED <<store, cache, admin, ing, ready, stale>>, missed \subseteq missed',
         run.pc # "idle", run'.pc # "idle", run'.alone = run.alone, run'.def = run.def,
         run.alone => Passed'
  PROVE  Lasting'
  <1>1. Undisturbed'
    BY Working, Zenon DEF Undisturbed, Settled
  <1>. QED
    BY <1>1, Working, Zenon DEF Lasting

(* What a page holds is fetched, and the rest is ahead. *)
LEMMA PagesKeep ==
  ASSUME ClassInv, RunPages
  PROVE  Lasting'
  <1>1. PICK b : b = Page(run.offset, Limit)
    BY Zenon
  <1>2. /\ run.pc = "page" /\ UNCHANGED <<rows, store, cache, admin, ing, stale, missed, since, asOf>>
        /\ run.offset < MaxEntries
        /\ IF b = <<>> THEN RunReturns
           ELSE run' = [run EXCEPT !.pc = "tag", !.batch = b, !.full = Len(b) = Limit,
                                   !.offset = @ + Len(b)] /\ UNCHANGED ready
    BY <1>1, Zenon DEF RunPages
  <1>3. run \in RunRecs /\ rows \in [Objects -> Rows \cup {Null}] /\ (run.alone => Passed) /\ run.offset \in Nat
    BY <1>2, Working DEF RunRecs
  <1>4. /\ b \in Batches
        /\ \A i \in DOMAIN b : b[i].obj \in Live /\ b[i].row = rows[b[i].obj]
        /\ \A o \in Live : \/ Rank(o) < run.offset
                           \/ \E i \in DOMAIN b : b[i].obj = o
                           \/ Len(b) = Limit /\ Rank(o) >= run.offset + Len(b)
    <2>1. PICK off \in Nat, lim \in Nat \ {0} : off = run.offset /\ lim = Limit
      BY <1>2, <1>3, LimitFacts, Zenon
    <2>2. /\ b \in Batches
          /\ \A i \in DOMAIN b : b[i].obj \in Live /\ b[i].row = rows[b[i].obj]
          /\ \A o \in Live : \/ Rank(o) < off
                             \/ \E i \in DOMAIN b : b[i].obj = o
                             \/ Len(b) = lim /\ Rank(o) >= off + Len(b)
      <3>1. b = Page(off, lim) /\ rows \in [Objects -> Rows \cup {Null}]
        BY <1>1, <1>3, <2>1, Zenon
      <3>2. PageIs(b, off, lim)
        BY <2>1, <3>1, PageFacts, Zenon
      <3>. QED
        BY <3>2, Zenon DEF Batches, PageIs
    <2>. QED
      BY <2>1, <2>2, Zenon
  <1>5. \A o \in Live : Rank(o) \in Nat
    BY LiveFacts, RankBound, Zenon
  <1>6. run.alone => \A o \in Live \ missed : Tagged(o) \/ Rank(o) >= run.offset
    BY <1>2, <1>3 DEF Passed, InBatch, Ahead
  <1>7. CASE b = <<>>
    <2>1. \A o \in Live : Rank(o) < run.offset
      <3>1. Len(b) = 0 /\ DOMAIN b = {} /\ Limit # 0
        BY <1>2, <1>3, <1>7, LimitFacts
      <3>. QED
        BY <1>4, <3>1, Zenon
    <2>2. run.alone => \A o \in Live \ missed : Tagged(o)
      BY <1>3, <1>5, <1>6, <2>1
    <2>. QED
      BY <1>2, <1>7, <2>2, ReturnKeeps, Zenon
  <1>8. CASE b # <<>>
    <2> DEFINE full == Len(b) = Limit
               off  == run.offset + Len(b)
    <2>1. run' = [run EXCEPT !.pc = "tag", !.batch = b, !.full = full, !.offset = off] /\ ready' = ready
      BY <1>2, <1>8, Zenon
    <2>2. \A o \in Live : Rank(o) >= run.offset => (\E i \in DOMAIN b : b[i].obj = o) \/ (full /\ Rank(o) >= off)
      BY <1>3, <1>4, <1>5
    <2> HIDE DEF full, off
    <2>3. /\ run'.pc = "tag" /\ run'.batch = b /\ run'.full = full /\ run'.offset = off
          /\ run'.alone = run.alone /\ run'.def = run.def
      BY <1>3, <2>1, Zenon DEF RunRecs
    <2>4. ASSUME run.alone PROVE Passed'
      <3>1. \A i \in DOMAIN b : rows[b[i].obj] # Null /\ Alike(b[i].row, rows[b[i].obj])
        BY <1>4, AlikeFacts, Zenon DEF Live
      <3>2. \A i \in DOMAIN run'.batch : Fetched(run.batch[i])'
        BY <1>2, <2>3, <3>1, Zenon DEF Fetched
      <3>3. ASSUME NEW o \in Live' \ missed' PROVE Tagged(o)' \/ InBatch(o)' \/ Ahead(o)'
        <4>1. o \in Live \ missed /\ (Tagged(o)' <=> Tagged(o)) /\ Rank(o)' = Rank(o)
          BY <1>2, SameRow, Zenon DEF Live, Rank
        <4>. QED
          BY <1>6, <2>2, <2>3, <2>4, <4>1, Zenon DEF InBatch, Ahead
      <3>. QED
        BY <2>3, <3>2, <3>3, Zenon DEF Passed
    <2>. QED
      BY <1>2, <2>1, <2>3, <2>4, RunMoves, Zenon
  <1>. QED
    BY <1>7, <1>8, Zenon

(* At the end of a page the run goes on, or has passed every row. *)
LEMMA PageDoneKeeps ==
  ASSUME ClassInv, RunPageDone
  PROVE  Lasting'
  <1>1. /\ run.pc = "tag" /\ run.batch = <<>> /\ UNCHANGED <<rows, store, cache, admin, ing, stale, missed, since, asOf>>
        /\ IF run.full THEN run' = [run EXCEPT !.pc = "page"] /\ UNCHANGED ready ELSE RunReturns
    BY Zenon DEF RunPageDone
  <1>2. run \in RunRecs /\ (run.alone => Passed)
    BY <1>1, Working, Zenon
  <1>3. run.alone => \A o \in Live \ missed : Tagged(o) \/ Ahead(o)
    BY <1>1, <1>2 DEF Passed, InBatch
  <1>4. CASE ~run.full
    <2>1. run.alone => \A o \in Live \ missed : Tagged(o)
      BY <1>1, <1>3, <1>4, Zenon DEF Ahead
    <2>. QED
      BY <1>1, <1>4, <2>1, ReturnKeeps, Zenon
  <1>5. CASE run.full
    <2>1. /\ run'.pc = "page" /\ run'.batch = <<>> /\ run'.full = run.full /\ run'.offset = run.offset
          /\ run'.alone = run.alone /\ run'.def = run.def /\ ready' = ready
      BY <1>1, <1>2, <1>5, Zenon DEF RunRecs
    <2>2. ASSUME run.alone, NEW o \in Live' \ missed' PROVE Tagged(o)' \/ Ahead(o)'
      <3>1. o \in Live \ missed /\ (Tagged(o)' <=> Tagged(o)) /\ Rank(o)' = Rank(o)
        BY <1>1, SameRow, Zenon DEF Live, Rank
      <3>. QED
        BY <1>3, <2>1, <2>2, <3>1, Zenon DEF Ahead
    <2>3. run.alone => Passed'
      BY <2>1, <2>2 DEF Passed
    <2>. QED
      BY <1>1, <2>1, <2>3, RunMoves, Zenon
  <1>. QED
    BY <1>4, <1>5, Zenon

(* What a run that has scanned its share leaves is what it missed. *)
LEMMA CappedKeeps ==
  ASSUME ClassInv, RunCapped
  PROVE  Lasting'
  <1>1. /\ run.pc = "page" /\ RunReturns /\ UNCHANGED <<rows, store, cache, admin, ing, stale, since, asOf>>
        /\ missed' = missed \cup {o \in Live : Rank(o) >= run.offset}
    BY Zenon DEF RunCapped
  <1>2. run.alone => \A o \in Live \ missed : Tagged(o) \/ Rank(o) >= run.offset
    BY <1>1, Working DEF Passed, InBatch, Ahead
  <1>3. missed \subseteq missed' /\ (run.alone => \A o \in Live \ missed' : Tagged(o))
    BY <1>1, <1>2, Zenon
  <1>. QED
    BY <1>1, <1>3, ReturnKeeps, Zenon

(* A run that fails leaves nothing to rely on. *)
LEMMA FailsKeeps ==
  ASSUME ClassInv, RunFails
  PROVE  Lasting'
  <1>1. run.pc = "page" /\ run' = RunIdle /\ UNCHANGED <<store, admin, ing, ready, stale, missed>>
    BY Zenon DEF RunFails
  <1>2. ~ready /\ Undisturbed
    BY <1>1, Working, Zenon
  <1>. QED
    BY <1>1, <1>2, Idles, Zenon DEF Lasting, Undisturbed

(* What is left of a page after its first row. *)
LEMMA RestFacts ==
  ASSUME ClassInv, run.pc # "idle", run.batch # <<>>
  PROVE  /\ Entry \in [obj : Objects, row : Rows] /\ Rest \in RunRecs
         /\ Rest.pc = "tag" /\ Rest.def = run.def /\ Rest.full = run.full /\ Rest.offset = run.offset
         /\ Rest.alone = run.alone
         /\ \E i \in DOMAIN run.batch : run.batch[i] = Entry
         /\ \A i \in DOMAIN Rest.batch : \E j \in DOMAIN run.batch : Rest.batch[i] = run.batch[j]
         /\ \A o : InBatch(o) => o = Entry.obj \/ \E i \in DOMAIN Rest.batch : Rest.batch[i].obj = o
  <1>1. run \in RunRecs /\ run.batch \in Batches
    BY Working, Zenon DEF RunRecs
  <1>2. PICK b \in Batches : b = run.batch /\ b # <<>>
    BY <1>1, Zenon
  <1>3. /\ 1 \in DOMAIN b /\ Head(b) = b[1] /\ Tail(b) \in Batches
        /\ \A i \in DOMAIN Tail(b) : \E j \in DOMAIN b : Tail(b)[i] = b[j]
        /\ \A j \in DOMAIN b : j = 1 \/ \E i \in DOMAIN Tail(b) : Tail(b)[i] = b[j]
    BY <1>2, BatchHas, Zenon
  <1>4. Entry = b[1] /\ Entry \in [obj : Objects, row : Rows]
    BY <1>2, <1>3, BatchElems DEF Entry
  <1>5. /\ Rest \in RunRecs /\ Rest.pc = "tag" /\ Rest.def = run.def /\ Rest.full = run.full /\ Rest.offset = run.offset
        /\ Rest.alone = run.alone /\ Rest.batch = Tail(b)
    BY <1>1, <1>2, <1>3, Zenon DEF Rest, RunRecs
  <1>6. ASSUME NEW o, InBatch(o)
        PROVE  o = Entry.obj \/ \E i \in DOMAIN Rest.batch : Rest.batch[i].obj = o
    <2>1. PICK j \in DOMAIN b : b[j].obj = o
      BY <1>2, <1>6, Zenon DEF InBatch
    <2>. QED
      BY <1>3, <1>4, <1>5, <2>1, Zenon
  <1>7. /\ \E i \in DOMAIN run.batch : run.batch[i] = Entry
        /\ \A i \in DOMAIN Rest.batch : \E j \in DOMAIN run.batch : Rest.batch[i] = run.batch[j]
    BY <1>2, <1>3, <1>4, <1>5
  <1>. QED
    BY <1>4, <1>5, <1>6, <1>7, Zenon

(* A row that no rule matches needs no tags; another one is read before it is written. *)
LEMMA GetsKeep ==
  ASSUME ClassInv, RunGets
  PROVE  Lasting'
  <1>1. /\ run.pc = "tag" /\ run.batch # <<>> /\ UNCHANGED <<rows, store, cache, admin, ing, ready, stale, missed, since>>
        /\ run' = IF RunTags = Null \/ rows[Entry.obj] = Null THEN Rest
                  ELSE [run EXCEPT !.pc = "write", !.set = RunTags, !.row = rows[Entry.obj]]
        /\ asOf' = [asOf EXCEPT ![Entry.obj] = now]
    BY Zenon DEF RunGets
  <1>2. PICK o \in Objects : o = Entry.obj
    BY <1>1, RestFacts, Zenon
  <1>3. /\ asOf'[o] = now /\ asOf'[o] >= since' /\ \A x \in Objects : x # o => asOf'[x] = asOf[x]
    <2>1. asOf \in [Objects -> Times] /\ now >= since
      BY ClassifierAssumption DEF ClassInv, Clocked
    <2>. QED
      BY <1>1, <1>2, <2>1, Zenon
  <1>4. \A x \in Live' \ missed' : /\ x \in Live \ missed /\ Rank(x)' = Rank(x)
                                   /\ x # o => (Tagged(x)' <=> Tagged(x))
    BY <1>1, <1>3, SameRow, Zenon DEF Live, Rank
  <1>5. \A e : Fetched(e)' <=> Fetched(e)
    BY <1>1, Zenon DEF Fetched
  <1>6. ASSUME run.alone, o \notin missed PROVE rows[o] # Null /\ Expected(o)' = RunTags
    <2>1. Fetched(Entry)
      BY <1>1, <1>6, Working, RestFacts, Zenon DEF Passed
    <2>2. rows[o] # Null /\ Alike(Entry.row, rows[o])
      BY <1>2, <1>6, <2>1, Zenon DEF Fetched
    <2>3. RunTags = evaluate_classifier(store.rules, rows[o], now)
      <3>1. PICK x, y, t : x = Entry.row /\ y = rows[o] /\ t = now
        BY Zenon
      <3>2. PICK d \in Defs : run.def = d /\ store = d
        BY <1>1, <1>6, Working, Zenon
      <3>3. evaluate_classifier(d.rules, x, t) = evaluate_classifier(d.rules, y, t)
        <4>1. Alike(x, y)
          BY <2>2, <3>1, Zenon
        <4>. QED
          BY <4>1, EvalAlike, Zenon
      <3>. QED
        BY <3>1, <3>2, <3>3, Zenon DEF RunTags
    <2>. QED
      BY <1>1, <1>3, <2>2, <2>3, Zenon DEF Expected
  <1>7. CASE RunTags = Null \/ rows[Entry.obj] = Null
    <2>1. ASSUME run.alone, o \notin missed PROVE Tagged(o)'
      BY <1>2, <1>3, <1>6, <1>7, <2>1, Zenon DEF Tagged
    <2>2. ASSUME run.alone PROVE Passed'
      <3>1. run'.pc = "tag" /\ run'.full = run.full /\ run'.offset = run.offset /\ run'.batch = Rest.batch
        BY <1>1, <1>7, RestFacts, Zenon
      <3>2. \A i \in DOMAIN run'.batch : Fetched(run.batch[i])'
        <4>1. \A i \in DOMAIN Rest.batch : Fetched(Rest.batch[i])
          BY <1>1, <2>2, Working, RestFacts, Zenon DEF Passed
        <4>. QED
          BY <1>5, <3>1, <4>1, Zenon
      <3>3. ASSUME NEW x \in Live' \ missed', x # o PROVE Tagged(x)' \/ InBatch(x)' \/ Ahead(x)'
        <4>1. Tagged(x) \/ InBatch(x) \/ Ahead(x)
          BY <1>1, <1>4, <2>2, <3>3, Working, Zenon DEF Passed
        <4>2. Ahead(x) => Ahead(x)'
          BY <1>1, <1>4, <3>1, <3>3, Zenon DEF Ahead
        <4>3. InBatch(x) => InBatch(x)'
          <5>1. InBatch(x) => \E i \in DOMAIN Rest.batch : Rest.batch[i].obj = x
            BY <1>1, <1>2, <3>3, RestFacts, Zenon
          <5>. QED
            BY <3>1, <5>1, Zenon DEF InBatch
        <4>. QED
          BY <1>4, <3>3, <4>1, <4>2, <4>3, Zenon
      <3>. QED
        BY <1>1, <2>1, <2>2, <3>1, <3>2, <3>3, Zenon DEF Passed
    <2>. QED
      BY <1>1, <1>7, <2>2, RestFacts, RunMoves, Zenon
  <1>8. CASE ~(RunTags = Null \/ rows[Entry.obj] = Null)
    <2>1. /\ run'.pc = "write" /\ run'.batch = run.batch /\ run'.full = run.full /\ run'.offset = run.offset
          /\ run'.alone = run.alone /\ run'.def = run.def /\ run'.row = rows[Entry.obj] /\ run'.set = RunTags
      BY <1>1, <1>8, Working, Zenon DEF RunRecs
    <2>2. ASSUME run.alone PROVE Passed'
      <3>1. \A i \in DOMAIN run'.batch : Fetched(run.batch[i])'
        <4>1. \A i \in DOMAIN run.batch : Fetched(run.batch[i])
          BY <1>1, <2>2, Working, Zenon DEF Passed
        <4>. QED
          BY <1>5, <2>1, <4>1, Zenon
      <3>2. Entry'.obj \notin missed' => Held(Entry.obj)'
        <4>1. Entry'.obj = o
          BY <1>2, <2>1, Zenon DEF Entry
        <4>2. run'.row = rows'[o]
          BY <1>1, <1>2, <2>1, Zenon
        <4>3. Alike(run'.row, rows'[o])
          BY <4>2, AlikeFacts, Zenon
        <4>4. o \notin missed => run'.set = Expected(o)'
          BY <1>6, <2>1, <2>2, Zenon
        <4>. QED
          BY <1>1, <1>3, <4>1, <4>3, <4>4, Zenon DEF Held, Expected
      <3>3. InBatch(o)'
        BY <1>1, <1>2, <2>1, RestFacts, Zenon DEF InBatch
      <3>4. ASSUME NEW x \in Live' \ missed', x # o PROVE Tagged(x)' \/ InBatch(x)' \/ Ahead(x)'
        BY <1>1, <1>4, <2>1, <2>2, <3>4, Working DEF Passed, InBatch, Ahead
      <3>. QED
        BY <2>1, <3>1, <3>2, <3>3, <3>4, Zenon DEF Passed
    <2>. QED
      BY <1>1, <2>1, <2>2, RunMoves, Zenon
  <1>. QED
    BY <1>7, <1>8, Zenon

(* A row that is written has the tags that are expected of it. *)
LEMMA WritesKeep ==
  ASSUME ClassInv, RunWrites
  PROVE  Lasting'
  <1>1. /\ run.pc = "write" /\ run' = Rest /\ UNCHANGED <<store, cache, admin, ing, ready, stale, missed, since, asOf>>
        /\ rows' = [rows EXCEPT ![Entry.obj] = update_scoped_xattr(run.row, run.set, run.def.manages)]
    BY Zenon DEF RunWrites
  <1>2. /\ ~ready /\ run \in RunRecs /\ rows \in [Objects -> Rows \cup {Null}] /\ Undisturbed
        /\ run.batch # <<>> /\ run.row \in Rows /\ run.def # Null /\ run.def \in Known /\ run.set \in Tags
        /\ run.alone => Passed /\ run.def = store /\ store \in Defs
    BY <1>1, Working, Zenon DEF RunHolds, RunRecs
  <1>4. PICK o \in Objects, r \in Rows, set \in Tags : o = Entry.obj /\ r = run.row /\ set = run.set
    BY <1>1, <1>2, RestFacts, Zenon
  <1>5. /\ rows'[o] = update_scoped_xattr(r, set, run.def.manages) /\ rows'[o] # Null /\ Alike(rows'[o], r)
        /\ \A x \in Objects : x # o => rows'[x] = rows[x]
    <2>1. PICK m : m = run.def.manages
      BY Zenon
    <2>2. update_scoped_xattr(r, set, m) \in Rows /\ Alike(update_scoped_xattr(r, set, m), r)
      BY ScopedFacts, Zenon
    <2>3. rows' = [rows EXCEPT ![o] = update_scoped_xattr(r, set, m)]
      BY <1>1, <1>4, <2>1, Zenon
    <2>. QED
      BY <1>2, <2>1, <2>2, <2>3, RowFacts, Zenon
  <1>6. /\ run'.pc = "tag" /\ run'.full = run.full /\ run'.offset = run.offset /\ run'.batch = Rest.batch
        /\ run'.alone = run.alone /\ run'.def = run.def
    BY <1>1, <1>2, RestFacts, Zenon
  <1>7. Undisturbed'
    BY <1>1, <1>2, <1>6, Zenon DEF Undisturbed, Settled
  <1>8. ASSUME run.alone PROVE Passed'
    <2>1. o \notin missed => Alike(r, rows[o]) /\ set = Expected(o) /\ asOf[o] >= since
      BY <1>1, <1>2, <1>4, <1>8, Zenon DEF Passed, Held
    <2>2. ASSUME o \notin missed PROVE Tagged(o)'
      <3>1. store \in Known /\ store # Null /\ rows'[o] = update_scoped_xattr(r, set, store.manages)
        BY <1>2, <1>5, <1>8, Zenon
      <3>. QED
        BY <1>1, <2>1, <2>2, <3>1, WrittenRow, Zenon
    <2>3. \A e \in [obj : Objects, row : Rows] : Fetched(e) => Fetched(e)'
      <3> SUFFICES ASSUME NEW e \in [obj : Objects, row : Rows], Fetched(e), e.obj \notin missed
                   PROVE  rows'[e.obj] # Null /\ Alike(e.row, rows'[e.obj])
        BY <1>1, Zenon DEF Fetched
      <3>1. rows[e.obj] # Null /\ Alike(e.row, rows[e.obj]) /\ e.obj \in Objects
        BY Zenon DEF Fetched
      <3>2. CASE e.obj = o
        <4>1. PICK x, y : x = rows[o] /\ y = rows'[o]
          BY Zenon
        <4>2. Alike(e.row, x) /\ Alike(r, x) /\ Alike(y, r)
          BY <1>5, <2>1, <3>1, <3>2, <4>1, Zenon
        <4>3. Alike(e.row, y)
          BY <4>2, AlikeFacts, Zenon
        <4>. QED
          BY <1>5, <3>2, <4>1, <4>3, Zenon
      <3>3. CASE e.obj # o
        BY <1>5, <3>1, <3>3, Zenon
      <3>. QED
        BY <3>2, <3>3, Zenon
    <2>4. \A i \in DOMAIN run'.batch : Fetched(run.batch[i])'
      <3>1. \A i \in DOMAIN run.batch : Fetched(run.batch[i]) /\ run.batch[i] \in [obj : Objects, row : Rows]
        BY <1>2, <1>8, BatchElems, Zenon DEF RunRecs, Passed
      <3>2. \A i \in DOMAIN Rest.batch : Fetched(Rest.batch[i]) /\ Rest.batch[i] \in [obj : Objects, row : Rows]
        BY <1>1, <1>2, <3>1, RestFacts, Zenon
      <3>. QED
        BY <1>6, <2>3, <3>2, Zenon
    <2>5. ASSUME NEW x \in Live' \ missed', x # o PROVE Tagged(x)' \/ InBatch(x)' \/ Ahead(x)'
      <3>1. x \in Live \ missed /\ (Tagged(x)' <=> Tagged(x))
        BY <1>1, <1>5, <2>5, SameRow, Zenon DEF Live
      <3>2. Ahead(x) => Ahead(x)'
        <4>1. \A y \in Objects : rows[y] # Null => rows'[y] # Null
          BY <1>5, Zenon
        <4>. QED
          BY <1>1, <1>2, <1>6, <3>1, <4>1, AheadStays, Zenon
      <3>3. InBatch(x) => InBatch(x)'
        BY <1>1, <1>2, <1>4, <1>6, <2>5, RestFacts, Zenon DEF InBatch
      <3>. QED
        BY <1>2, <1>8, <3>1, <3>2, <3>3, Zenon DEF Passed
    <2>. QED
      BY <1>1, <1>6, <2>2, <2>4, <2>5, Zenon DEF Passed
  <1>. QED
    BY <1>1, <1>2, <1>6, <1>7, <1>8, Zenon DEF Lasting

(* A row whose update fails is one that the run missed. *)
LEMMA WriteFailsKeeps ==
  ASSUME ClassInv, RunWriteFails
  PROVE  Lasting'
  <1>1. /\ run.pc = "write" /\ run' = Rest /\ missed' = missed \cup {Entry.obj}
        /\ UNCHANGED <<rows, store, cache, admin, ing, ready, stale, since, asOf>>
    BY Zenon DEF RunWriteFails
  <1>2. run.batch # <<>>
    BY <1>1, Working, Zenon DEF RunHolds
  <1>3. run'.pc = "tag" /\ run'.full = run.full /\ run'.offset = run.offset /\ run'.batch = Rest.batch
        /\ run'.alone = run.alone /\ run'.def = run.def
    BY <1>1, <1>2, RestFacts, Zenon
  <1>4. \A x \in Live' \ missed' : /\ x \in Live \ missed /\ x # Entry.obj /\ Rank(x)' = Rank(x)
                                   /\ (Tagged(x)' <=> Tagged(x))
    BY <1>1, SameRow, Zenon DEF Live, Rank
  <1>5. ASSUME run.alone PROVE Passed'
    <2>1. \A i \in DOMAIN run'.batch : Fetched(run.batch[i])'
      <3>1. \A i \in DOMAIN Rest.batch : Fetched(Rest.batch[i])
        BY <1>1, <1>2, <1>5, Working, RestFacts, Zenon DEF Passed
      <3>2. \A e : Fetched(e) => Fetched(e)'
        BY <1>1, Zenon DEF Fetched
      <3>. QED
        BY <1>3, <3>1, <3>2, Zenon
    <2>2. ASSUME NEW x \in Live' \ missed' PROVE Tagged(x)' \/ InBatch(x)' \/ Ahead(x)'
      <3>1. Tagged(x) \/ InBatch(x) \/ Ahead(x)
        BY <1>1, <1>4, <1>5, <2>2, Working, Zenon DEF Passed
      <3>2. Ahead(x) => Ahead(x)'
        BY <1>1, <1>3, <1>4, <2>2, Zenon DEF Ahead
      <3>3. InBatch(x) => InBatch(x)'
        BY <1>1, <1>2, <1>3, <1>4, <2>2, RestFacts, Zenon DEF InBatch
      <3>. QED
        BY <1>4, <2>2, <3>1, <3>2, <3>3, Zenon
    <2>. QED
      BY <1>3, <2>1, <2>2, Zenon DEF Passed
  <1>. QED
    BY <1>1, <1>3, <1>5, RunMoves, Zenon

-----------------------------------------------------------------------------
(* The theorems.                                                            *)

(* The inductive invariant holds at first. *)
LEMMA ClassInit == Init => ClassInv
  <1> SUFFICES ASSUME NEW b \in Budgets, ClassifierInit(b) PROVE ClassInv
    BY Zenon DEF Init
  <1>1. /\ rows \in [Objects -> {NewRow(s) : s \in Sizes} \cup {Null}]
        /\ now \in Times /\ since = now /\ asOf = [o \in Objects |-> now]
        /\ store \in {d \in Defs : validate_classifier(d)} \cup {Null}
        /\ cache \in {store, Null} /\ stale = (cache # store)
        /\ admin = [a \in Admins |-> AdminIdle] /\ ing = IngIdle /\ run = RunIdle
        /\ patch = [w \in Patchers |-> PatchIdle]
        /\ ready = FALSE /\ missed = {} /\ left = b
    BY Zenon DEF ClassifierInit
  <1>2. b \in Budget
    BY ClassifierAssumption DEF Budget
  <1>3. Clocked
    <2>1. now <= now
      BY <1>1, ClassifierAssumption
    <2>. QED
      BY <1>1, <2>1, Zenon DEF Clocked
  <1>. store \in Known /\ cache \in Known
    BY <1>1, <1>3, Accepted, KnownFacts, Zenon
  <1>. rows \in [Objects -> Rows \cup {Null}]
    BY <1>1, NewRowFacts, Zenon
  <1>7. Types
    BY <1>1, <1>2, Idles, Zenon DEF Types
  <1>4. IngHolds /\ RunHolds
    BY <1>1, Idles, Zenon DEF IngHolds, RunHolds
  <1>5. Cached
    BY <1>1, Idles, Zenon DEF Cached
  <1>6. Undisturbed /\ ~run.alone /\ ~ready
    BY <1>1, Idles, Zenon DEF Undisturbed
  <1>. QED
    BY <1>3, <1>4, <1>5, <1>6, <1>7, Zenon DEF ClassInv, Base

(* Every step preserves it. *)
LEMMA ClassNext == ClassInv /\ [Next]_cvars => ClassInv'
  <1>1. CASE UNCHANGED cvars
    <2>1. ASSUME ClassInv PROVE ClassInv'
      <3>1. UNCHANGED <<rows, store, cache, admin, ing, run, patch, now, ready, stale, missed, since, asOf, left>>
        BY <1>1, Zenon DEF cvars
      <3>2. Base'
        BY <2>1, <3>1, Zenon DEF ClassInv, Base, Types, IngHolds, RunHolds
      <3>3. Cached' /\ Clocked'
        BY <2>1, <3>1, Zenon DEF ClassInv, Cached, Clocked, Settled
      <3>4. Lasting'
        BY <2>1, <3>1, StillLasts, Zenon
      <3>. QED
        BY <3>2, <3>3, <3>4, Zenon DEF ClassInv, Lasting
    <2>. QED
      BY <2>1, Zenon
  <1>2. ASSUME ClassInv, Next PROVE Base'
    BY <1>2, HandlersBase, IngestBase, RunBase, OthersBase, Zenon DEF Next, ClassInv
  <1>3. ASSUME ClassInv, Next PROVE Lasting'
    <2>1. CASE Handlers
      BY <1>3, <2>1, HandlersKeep, Zenon
    <2>2. CASE IngestStep
      BY <1>3, <2>2, IngestKeeps, RemoveKeeps, IngestLocksKeeps, IngestGetsKeeps, IngestTagsKeeps, IngestFailsKeeps,
         Zenon DEF IngestStep
    <2>3. CASE RunStep
      BY <1>3, <2>3, StartKeeps, PagesKeep, CappedKeeps, FailsKeeps, GetsKeep, WritesKeep, WriteFailsKeeps,
         PageDoneKeeps, Zenon DEF RunStep
    <2>4. CASE PatchStep
      <3>1. ASSUME NEW w \in Patchers, NEW o \in Objects, PatchReads(w, o) PROVE Lasting'
        BY <1>3, <3>1, StillLasts, Zenon DEF PatchReads
      <3>. QED
        BY <1>3, <2>4, <3>1, PatchWritesKeeps, Zenon DEF PatchStep
    <2>5. CASE Tick
      BY <1>3, <2>5, StillLasts, Zenon DEF Tick
    <2>. QED
      BY <1>3, <2>1, <2>2, <2>3, <2>4, <2>5, Zenon DEF Next
  <1>4. ASSUME ClassInv, Next PROVE ClassInv'
    <2>1. Base' /\ Lasting' /\ Cached' /\ Clocked'
      BY <1>2, <1>3, <1>4, CachedNext, ClockedNext, Zenon DEF ClassInv
    <2>. QED
      BY <2>1, Zenon DEF ClassInv, Lasting
  <1>. QED
    BY <1>1, <1>4, Zenon

(* Whatever the handlers, ingest and the run do and in whatever order, when no handler *)
(* is running and no list has failed or overlapped an edit, ingest classifies with     *)
(* the definition that is stored; and no definition that cannot be parsed is stored,   *)
(* cached or worked with (classifier_handlers.rs, changelog.rs).                       *)
THEOREM CacheFollowsStore == Spec => []CacheIsStored
  <1>1. ClassInv => CacheIsStored
    <2> SUFFICES ASSUME ClassInv PROVE CacheIsStored
      BY Zenon
    <2>1. Types /\ Cached /\ Clocked
      BY Zenon DEF ClassInv, Base
    <2>2. /\ store \in Known /\ cache \in Known /\ run.def \in Known /\ ing.def \in Known
          /\ run.pc \in {"idle", "page", "tag", "write"} /\ run.offset \in 0..Cardinality(Objects)
      BY <2>1, Zenon DEF Types, RunRecs, IngRecs
    <2>3. /\ {store, cache, run.def, ing.def} \subseteq Defs \cup {Null}
          /\ \A d \in {store, cache, run.def, ing.def} \ {Null} : \A i \in DOMAIN d.rules :
               d.rules[i].when # Null => parse_when(d.rules[i].when, now) # Null
      BY <2>1, <2>2, Zenon DEF Known, Valid, Clocked
    <2>4. \A o \in Live : rows[o].size \in Sizes
      BY <2>1, RowFacts, Zenon DEF Types, Live
    <2>5. run.offset <= Cardinality(Objects) /\ missed \subseteq Objects
      BY <2>1, <2>2, LiveFacts DEF Types
    <2>6. TypeOK
      BY <2>2, <2>3, <2>4, <2>5, Zenon DEF TypeOK
    <2>7. Settled /\ ~stale => cache = store
      BY <2>1, Zenon DEF Cached
    <2>. QED
      BY <2>6, <2>7, Zenon DEF CacheIsStored, Settled
  <1>. QED
    BY <1>1, ClassInit, ClassNext, PTL DEF Spec

(* After a run that no edit or removal overlapped, and until the next edit, every row   *)
(* has under the keys that the classifier manages the tags of the rule that it matched  *)
(* when it was last evaluated, which was not before the run began: whatever ingest has  *)
(* changed since, however the clock moved, and wherever the run stopped, but for the    *)
(* rows that the run missed (beyond MAX_ENTRIES, written by ingest during the run, with *)
(* an update that failed, or put back by a writer of sm_status that held an older copy) *)
(* (run_classifier, apply_classifiers, update_scoped_xattr, patch_scoped_sm_status).    *)
THEOREM TagsFollow == Spec => []TagsFollowRules
  <1>1. ClassInv => TagsFollowRules
    <2> SUFFICES ASSUME ClassInv, ready, ~stale, ing.pc = "idle" PROVE \A o \in Live \ missed : Tagged(o)
      BY Zenon DEF TagsFollowRules, Tagged, Expected
    <2>. QED
      BY Zenon DEF ClassInv, Kept, AtIngest
  <1>. QED
    BY <1>1, ClassInit, ClassNext, PTL DEF Spec
=============================================================================
