----------------------------- MODULE ScanProofs -----------------------------
(***************************************************************************)
(* A scan that ends without errors is complete, and its counters are       *)
(* right: proofs for every namespace, number of workers, channel and batch *)
(* size, and whatever users do meanwhile.                                  *)
(***************************************************************************)
EXTENDS Scan, TLAPS

\* What the proofs use of finite sets and numbers.  LawsHold proves it from the
\* library, whose theorems are stated only there.
Laws ==
  /\ \A T : T \subseteq Nat /\ T # {} => \E m \in T : \A n \in T : m <= n
  /\ IsFiniteSet({}) /\ Cardinality({}) = 0
  /\ \A x : IsFiniteSet({x})
  /\ \A a, b \in Int : IsFiniteSet(a..b)
  /\ \A S : IsFiniteSet(S) => Cardinality(S) \in Nat
  /\ \A S, x : IsFiniteSet(S) /\ x \notin S => IsFiniteSet(S \cup {x}) /\ Cardinality(S \cup {x}) = Cardinality(S) + 1
  /\ \A S : IsFiniteSet(S) => \A T \in SUBSET S : IsFiniteSet(T)
  /\ \A S, T : IsFiniteSet(S) /\ IsFiniteSet(T) => IsFiniteSet(S \cup T) /\ IsFiniteSet(S \X T)
  /\ \A S, T : IsFiniteSet(S) /\ ExistsBijection(S, T) => Cardinality(T) = Cardinality(S)

\* A set of numbers has a least element.
LEMMA LeastElement ==
  ASSUME Laws, NEW T, T \subseteq Nat, T # {}
  PROVE  \E m \in T : \A n \in T : m <= n
  BY Zenon DEF Laws

\* A finite set has a number of elements, and its subsets are finite.
LEMMA FiniteLaw ==
  ASSUME Laws, NEW S, IsFiniteSet(S)
  PROVE  Cardinality(S) \in Nat /\ \A T \in SUBSET S : IsFiniteSet(T) /\ Cardinality(T) \in Nat
  BY Zenon DEF Laws

\* Induction: a set that has 0 and the successors of its members has all numbers.
LEMMA Induction ==
  ASSUME Laws, NEW T, 0 \in T, \A n \in Nat : n \in T => n + 1 \in T
  PROVE  Nat \subseteq T
  <1> DEFINE bad == Nat \ T
  <1> SUFFICES ASSUME bad # {} PROVE FALSE
    BY Zenon
  <1>1. PICK m \in bad : \A n \in bad : m <= n
    BY LeastElement, Zenon
  <1>2. m \in Nat /\ m # 0 /\ m \notin T
    BY Zenon
  <1>3. m - 1 \in Nat /\ ~(m <= m - 1) /\ (m - 1) + 1 = m
    BY <1>2
  <1>4. m - 1 \in T
    BY <1>1, <1>3, Zenon
  <1>. QED
    BY <1>2, <1>3, <1>4, Zenon

-----------------------------------------------------------------------------
(* Paths.                                                                  *)

Prefix(path, i) == SubSeq(path, 1, i)

\* The prefixes of a path.
PrefixLaws(path) ==
  /\ Len(path) \in Nat /\ Prefix(path, 0) = <<>> /\ Prefix(path, Len(path)) = path
  /\ \A i \in 0..Len(path) : /\ Prefix(path, i) \in Seq(Names) /\ Len(Prefix(path, i)) = i
                             /\ \A j \in 1..i : Prefix(path, i)[j] = path[j]
  /\ \A i \in 1..Len(path) : /\ path[i] \in Names
                             /\ Prefix(path, i) = Append(Prefix(path, i - 1), path[i])
  /\ \A i \in 0..Len(path) : \A j \in 0..i : Prefix(Prefix(path, i), j) = Prefix(path, j)

\* Every path has them.
LEMMA Prefixes ==
  ASSUME NEW path \in Seq(Names)
  PROVE  PrefixLaws(path)
  BY DEF Prefix, PrefixLaws

\* f gives the object at every prefix of a path.
Resolves(tree, path, f) ==
  f = [i \in 0..Len(path) |->
         IF i = 0 THEN Root
         ELSE IF f[i - 1] \in Directories THEN tree[<<f[i - 1], path[i]>>] ELSE None]

\* A function that resolves a path resolves a longer one as far as it goes.
LEMMA ResolvesOn ==
  ASSUME NEW tree, NEW path \in Seq(Names), NEW n \in Names, NEW f, Resolves(tree, path, f)
  PROVE  LET k == Len(path)
             g == [i \in 0..(k + 1) |->
                     IF i <= k THEN f[i]
                     ELSE IF f[k] \in Directories THEN tree[<<f[k], n>>] ELSE None]
         IN Resolves(tree, Append(path, n), g)
  <1> DEFINE k == Len(path)
             g == [i \in 0..(k + 1) |->
                     IF i <= k THEN f[i]
                     ELSE IF f[k] \in Directories THEN tree[<<f[k], n>>] ELSE None]
             q == Append(path, n)
             Next1(h, i) == IF i = 0 THEN Root
                            ELSE IF h[i - 1] \in Directories THEN tree[<<h[i - 1], q[i]>>] ELSE None
  <1>1. k \in Nat /\ Len(q) = k + 1 /\ q[k + 1] = n /\ \A i \in 1..k : q[i] = path[i]
    OBVIOUS
  <1>2. \A i \in 0..k : f[i] = IF i = 0 THEN Root
                               ELSE IF f[i - 1] \in Directories THEN tree[<<f[i - 1], path[i]>>] ELSE None
    BY Zenon DEF Resolves
  <1>3. \A i \in 0..k : g[i] = f[i]
    BY <1>1
  <1>4. g[k + 1] = IF f[k] \in Directories THEN tree[<<f[k], n>>] ELSE None
    BY <1>1
  <1>5. g = [i \in 0..(k + 1) |-> g[i]]
    BY Zenon
  <1> HIDE DEF g, q
  <1>6. ASSUME NEW i \in 0..(k + 1) PROVE g[i] = Next1(g, i)
    <2> HIDE DEF k
    <2>1. CASE i = k + 1
      BY <1>1, <1>3, <1>4, <2>1
    <2>2. CASE i = 0
      <3>1. 0 \in 0..k
        BY <1>1
      <3>. QED
        BY <1>2, <1>3, <2>2, <3>1, Zenon
    <2>3. CASE i \in 1..k
      BY <1>1, <1>2, <1>3, <2>3
    <2>. QED
      BY <1>1, <2>1, <2>2, <2>3
  <1>7. g = [i \in 0..Len(q) |-> Next1(g, i)]
    BY <1>1, <1>5, <1>6, Zenon
  <1>8. Resolves(tree, q, g)
    BY <1>7, Zenon DEF Resolves
  <1>. QED
    BY <1>8, Zenon DEF g, q

\* Every path can be resolved.
LEMMA ResolvesExists ==
  ASSUME Laws, NEW tree, NEW path \in Seq(Names)
  PROVE  \E f : Resolves(tree, path, f)
  <1> DEFINE T == {k \in Nat : \A p \in Seq(Names) : Len(p) = k => \E f : Resolves(tree, p, f)}
  <1>1. 0 \in T
    <2> SUFFICES ASSUME NEW p \in Seq(Names), Len(p) = 0
                 PROVE  \E f : Resolves(tree, p, f)
      BY Zenon
    <2>1. \A i \in 0..Len(p) : i = 0
      OBVIOUS
    <2>2. Resolves(tree, p, [i \in 0..Len(p) |-> Root])
      BY <2>1, Zenon DEF Resolves
    <2>. QED
      BY <2>2, Zenon
  <1>2. ASSUME NEW k \in Nat, k \in T PROVE k + 1 \in T
    <2> SUFFICES ASSUME NEW p \in Seq(Names), Len(p) = k + 1
                 PROVE  \E f : Resolves(tree, p, f)
      OBVIOUS
    <2>1. /\ Prefix(p, k) \in Seq(Names) /\ Len(Prefix(p, k)) = k
          /\ p[k + 1] \in Names /\ p = Append(Prefix(p, k), p[k + 1])
      <3>1. k \in 0..Len(p) /\ k + 1 \in 1..Len(p) /\ (k + 1) - 1 = k
        OBVIOUS
      <3>2. Prefix(p, k + 1) = p
        BY Prefixes, Zenon DEF PrefixLaws
      <3>3. Prefix(p, k) \in Seq(Names) /\ Len(Prefix(p, k)) = k
        BY <3>1, Prefixes, Zenon DEF PrefixLaws
      <3>4. p[k + 1] \in Names /\ Prefix(p, k + 1) = Append(Prefix(p, (k + 1) - 1), p[k + 1])
        BY <3>1, Prefixes, Zenon DEF PrefixLaws
      <3>. QED
        BY <3>1, <3>2, <3>3, <3>4, Zenon
    <2>2. PICK f : Resolves(tree, Prefix(p, k), f)
      BY <1>2, <2>1, Zenon
    <2>3. \E g : Resolves(tree, Append(Prefix(p, k), p[k + 1]), g)
      BY <2>1, <2>2, ResolvesOn, Zenon
    <2>. QED
      BY <2>1, <2>3, Zenon
  <1>3. Len(path) \in T
    <2> HIDE DEF T
    <2>1. Nat \subseteq T
      BY <1>1, <1>2, Induction, Zenon
    <2>. QED
      BY <2>1
  <1>. QED
    BY <1>3, Zenon

\* The function that LookupIn defines resolves the path.
LEMMA LookupResolves ==
  ASSUME Laws, NEW tree, NEW path \in Seq(Names)
  PROVE  \E f : Resolves(tree, path, f) /\ LookupIn(tree, path) = f[Len(path)]
  <1> DEFINE D(f) == Resolves(tree, path, f)
             at   == CHOOSE f : D(f)
  <1>1. LookupIn(tree, path) = at[Len(path)]
    BY Zenon DEF LookupIn, Resolves
  <1>2. \E f : D(f)
    BY ResolvesExists, Zenon
  <1>3. D(at)
    <2> HIDE DEF D
    <2>. QED
      BY <1>2, Zenon
  <1>. QED
    BY <1>1, <1>3, Zenon

StartsWith(q, p) == Len(p) <= Len(q) /\ \A i \in 1..Len(p) : p[i] = q[i]

\* Two functions that resolve a path and its first part agree there.
LEMMA ResolvesOnce ==
  ASSUME Laws, NEW tree, NEW p \in Seq(Names), NEW q \in Seq(Names), NEW f, NEW g,
         Resolves(tree, p, f), Resolves(tree, q, g),
         StartsWith(q, p)
  PROVE  f[Len(p)] = g[Len(p)]
  <1> USE DEF StartsWith
  <1> DEFINE T == {i \in Nat : i <= Len(p) => f[i] = g[i]}
  <1>1. /\ \A i \in 0..Len(p) : f[i] = IF i = 0 THEN Root
              ELSE IF f[i - 1] \in Directories THEN tree[<<f[i - 1], p[i]>>] ELSE None
        /\ \A i \in 0..Len(q) : g[i] = IF i = 0 THEN Root
              ELSE IF g[i - 1] \in Directories THEN tree[<<g[i - 1], q[i]>>] ELSE None
    BY Zenon DEF Resolves
  <1>2. Len(p) \in Nat /\ Len(q) \in Nat
    OBVIOUS
  <1>3. 0 \in T
    <2>1. 0 \in 0..Len(p) /\ 0 \in 0..Len(q)
      BY <1>2
    <2>. QED
      BY <1>1, <2>1, Zenon
  <1>4. ASSUME NEW n \in Nat, n \in T PROVE n + 1 \in T
    <2> SUFFICES ASSUME n + 1 <= Len(p) PROVE f[n + 1] = g[n + 1]
      OBVIOUS
    <2>1. /\ n + 1 \in 0..Len(p) /\ n + 1 \in 0..Len(q) /\ n + 1 # 0 /\ (n + 1) - 1 = n
          /\ n + 1 \in 1..Len(p) /\ n <= Len(p)
      BY <1>2
    <2>2. f[n] = g[n] /\ p[n + 1] = q[n + 1]
      BY <1>4, <2>1, Zenon
    <2>3. f[n + 1] = IF f[n] \in Directories THEN tree[<<f[n], p[n + 1]>>] ELSE None
      BY <1>1, <2>1, Zenon
    <2>4. g[n + 1] = IF g[n] \in Directories THEN tree[<<g[n], q[n + 1]>>] ELSE None
      BY <1>1, <2>1, Zenon
    <2>. QED
      BY <2>2, <2>3, <2>4
  <1>5. Nat \subseteq T
    <2> HIDE DEF T
    <2>. QED
      BY <1>3, <1>4, Induction, Zenon
  <1>. QED
    BY <1>2, <1>5

\* The empty path leads to the root, a longer one through its parent directory.
LooksUp(tree) ==
  /\ LookupIn(tree, <<>>) = Root
  /\ \A path \in Seq(Names), n \in Names :
       LookupIn(tree, Append(path, n)) =
         LET d == LookupIn(tree, path) IN IF d \in Directories THEN tree[<<d, n>>] ELSE None

\* So it is in every tree.
LEMMA LookupSteps ==
  ASSUME Laws, NEW tree
  PROVE  LooksUp(tree)
  <1> USE DEF LooksUp
  <1>1. LookupIn(tree, <<>>) = Root
    <2>1. <<>> \in Seq(Names) /\ Len(<<>>) = 0
      OBVIOUS
    <2>2. PICK f : Resolves(tree, <<>>, f) /\ LookupIn(tree, <<>>) = f[0]
      BY <2>1, LookupResolves, Zenon
    <2>3. f[0] = Root
      BY <2>1, <2>2 DEF Resolves
    <2>. QED
      BY <2>2, <2>3, Zenon
  <1>2. ASSUME NEW path \in Seq(Names), NEW n \in Names
        PROVE  LookupIn(tree, Append(path, n)) =
                 LET d == LookupIn(tree, path) IN IF d \in Directories THEN tree[<<d, n>>] ELSE None
    <2> DEFINE q == Append(path, n)
               k == Len(path)
    <2>1. /\ q \in Seq(Names) /\ Len(q) = k + 1 /\ q[k + 1] = n /\ k \in Nat
          /\ \A i \in 1..k : path[i] = q[i]
      OBVIOUS
    <2>2. PICK f : Resolves(tree, path, f) /\ LookupIn(tree, path) = f[k]
      BY LookupResolves, Zenon
    <2> HIDE DEF q
    <2>3. PICK g : Resolves(tree, q, g) /\ LookupIn(tree, q) = g[k + 1]
      BY <2>1, LookupResolves, Zenon
    <2>4. f[k] = g[k]
      BY <2>1, <2>2, <2>3, ResolvesOnce DEF StartsWith
    <2>5. g[k + 1] = IF g[k] \in Directories THEN tree[<<g[k], n>>] ELSE None
      BY <2>1, <2>3 DEF Resolves
    <2>. QED
      BY <2>2, <2>3, <2>4, <2>5, Zenon DEF q
  <1>. QED
    BY <1>1, <1>2, Zenon

\* No object, name, directory or row is None.
NoneApart ==
  /\ None \notin Objects /\ None \notin Names /\ None \notin Directories /\ None \notin ScanRows
  /\ Root \in Directories /\ Directories \subseteq Objects
  /\ \A d \in Directories, n \in Names : <<d, n>> \in Places
  /\ \A p \in Places : p[1] \in Directories /\ p[2] \in Names /\ p = <<p[1], p[2]>>

\* This follows from the assumptions.
LEMMA Constants == NoneApart
  <1> USE DEF NoneApart
  <1>1. None \notin Objects /\ None \notin Names /\ None \notin Directories /\ None \notin ScanRows
        /\ Root \in Directories /\ Directories \subseteq Objects
    BY CatalogAssumption, ScanAssumption, Zenon DEF Directories
  <1>2. Places = Directories \X Names
    BY Zenon DEF Places, Directories
  <1>. QED
    BY <1>1, <1>2

\* An object that a path leads to.
LEMMA LookupTypes ==
  ASSUME Laws, NEW tree \in [Places -> Objects \cup {None}], NEW path \in Seq(Names)
  PROVE  LookupIn(tree, path) \in Objects \cup {None}
  <1> DEFINE T == {k \in Nat : \A p \in Seq(Names) : Len(p) = k => LookupIn(tree, p) \in Objects \cup {None}}
  <1>1. 0 \in T
    BY Constants, LookupSteps DEF NoneApart, LooksUp
  <1>2. ASSUME NEW k \in Nat, k \in T PROVE k + 1 \in T
    <2> SUFFICES ASSUME NEW p \in Seq(Names), Len(p) = k + 1
                 PROVE  LookupIn(tree, p) \in Objects \cup {None}
      OBVIOUS
    <2>1. k \in 0..Len(p) /\ k + 1 \in 1..Len(p) /\ (k + 1) - 1 = k /\ Len(p) = k + 1
      OBVIOUS
    <2>2. /\ Prefix(p, k) \in Seq(Names) /\ p[k + 1] \in Names
          /\ Prefix(p, Len(p)) = p /\ Prefix(p, k + 1) = Append(Prefix(p, (k + 1) - 1), p[k + 1])
      BY <2>1, Prefixes, Zenon DEF PrefixLaws
    <2>3. p = Append(Prefix(p, k), p[k + 1])
      BY <2>1, <2>2, Zenon
    <2>4. PICK s, n, d : s = Prefix(p, k) /\ n = p[k + 1] /\ d = LookupIn(tree, s)
      BY Zenon
    <2>5. LookupIn(tree, Append(s, n)) = IF d \in Directories THEN tree[<<d, n>>] ELSE None
      BY <2>2, <2>4, LookupSteps, Zenon DEF LooksUp
    <2>6. d \in Directories => <<d, n>> \in Places
      BY <2>2, <2>4, Constants, Zenon DEF NoneApart
    <2>7. LookupIn(tree, Append(s, n)) \in Objects \cup {None}
      BY <2>5, <2>6, Zenon
    <2>. QED
      BY <2>3, <2>4, <2>7, Zenon
  <1>3. Len(path) \in T
    <2> HIDE DEF T
    <2>1. Nat \subseteq T
      BY <1>1, <1>2, Induction, Zenon
    <2>. QED
      BY <2>1
  <1>. QED
    BY <1>3, Zenon

\* What a path passes through are directories.
ThroughDirectories(tree, path) ==
  \A i \in 1..Len(path) :
    /\ LookupIn(tree, Prefix(path, i - 1)) \in Directories
    /\ LookupIn(tree, Prefix(path, i)) = tree[<<LookupIn(tree, Prefix(path, i - 1)), path[i]>>]
    /\ LookupIn(tree, Prefix(path, i)) # None

\* So it is for every path that leads somewhere.
LEMMA Chain ==
  ASSUME Laws, NEW tree, NEW path \in Seq(Names), LookupIn(tree, path) # None
  PROVE  ThroughDirectories(tree, path)
  <1> USE DEF ThroughDirectories
  <1> DEFINE at(i) == LookupIn(tree, Prefix(path, i))
             T == {k \in Nat : k <= Len(path) => at(Len(path) - k) # None}
  <1>1. \A i \in 1..Len(path) : at(i) = IF at(i - 1) \in Directories THEN tree[<<at(i - 1), path[i]>>] ELSE None
    <2> SUFFICES ASSUME NEW i \in 1..Len(path)
                 PROVE  at(i) = IF at(i - 1) \in Directories THEN tree[<<at(i - 1), path[i]>>] ELSE None
      BY Zenon
    <2>1. i - 1 \in 0..Len(path)
      OBVIOUS
    <2>2. Prefix(path, i - 1) \in Seq(Names) /\ path[i] \in Names
          /\ Prefix(path, i) = Append(Prefix(path, i - 1), path[i])
      BY <2>1, Prefixes, Zenon DEF PrefixLaws
    <2>. QED
      BY <2>2, LookupSteps, Zenon DEF LooksUp
  <1>2. Len(path) \in Nat /\ Len(path) - 0 = Len(path) /\ at(Len(path)) # None
    BY Prefixes DEF PrefixLaws
  <1> HIDE DEF at
  <1>3. 0 \in T
    BY <1>2, Zenon
  <1>4. ASSUME NEW k \in Nat, k \in T PROVE k + 1 \in T
    <2> SUFFICES ASSUME k + 1 <= Len(path) PROVE at(Len(path) - (k + 1)) # None
      OBVIOUS
    <2>1. Len(path) - k \in 1..Len(path) /\ (Len(path) - k) - 1 = Len(path) - (k + 1) /\ k <= Len(path)
      BY <1>2
    <2>2. at(Len(path) - k) # None
      BY <1>4, <2>1, Zenon
    <2>3. at((Len(path) - k) - 1) \in Directories
      BY <1>1, <2>1, <2>2, Zenon
    <2>. QED
      BY <2>1, <2>3, Constants, Zenon DEF NoneApart
  <1>5. Nat \subseteq T
    <2> HIDE DEF T
    <2>. QED
      BY <1>3, <1>4, Induction, Zenon
  <1>6. ASSUME NEW i \in 1..Len(path) PROVE at(i) # None
    BY <1>2, <1>5
  <1>7. \A i \in 1..Len(path) : at(i - 1) \in Directories /\ at(i) = tree[<<at(i - 1), path[i]>>] /\ at(i) # None
    BY <1>1, <1>6, Zenon
  <1>. QED
    BY <1>7, Zenon DEF at

\* A path none of whose places is in gone.
StaysIn(tree, gone, path) ==
  /\ LookupIn(tree, path) # None
  /\ \A i \in 1..Len(path) : <<LookupIn(tree, Prefix(path, i - 1)), path[i]>> \notin gone

\* A path that stays, whatever is changed elsewhere, leads where it led before.
LEMMA Unmoved ==
  ASSUME Laws, NEW tree, NEW new, NEW gone, NEW path \in Seq(Names),
         \A p \in Places : p \notin gone => new[p] = tree[p],
         StaysIn(new, gone, path)
  PROVE  \A i \in 0..Len(path) : LookupIn(new, Prefix(path, i)) = LookupIn(tree, Prefix(path, i))
  <1> DEFINE was(i) == LookupIn(tree, Prefix(path, i))
             now(i) == LookupIn(new, Prefix(path, i))
             T == {i \in Nat : i <= Len(path) => now(i) = was(i)}
  <1>1. 0 \in T
    BY Prefixes, LookupSteps, Zenon DEF PrefixLaws, LooksUp
  <1>2. /\ \A i \in 1..Len(path) : now(i - 1) \in Directories /\ now(i) = new[<<now(i - 1), path[i]>>]
        /\ \A i \in 1..Len(path) : <<now(i - 1), path[i]>> \notin gone
    BY Chain, Zenon DEF StaysIn, ThroughDirectories
  <1>3. \A i \in 1..Len(path) : was(i) = IF was(i - 1) \in Directories THEN tree[<<was(i - 1), path[i]>>] ELSE None
    <2> SUFFICES ASSUME NEW i \in 1..Len(path)
                 PROVE  was(i) = IF was(i - 1) \in Directories THEN tree[<<was(i - 1), path[i]>>] ELSE None
      BY Zenon
    <2>1. i - 1 \in 0..Len(path)
      OBVIOUS
    <2>2. Prefix(path, i - 1) \in Seq(Names) /\ path[i] \in Names
          /\ Prefix(path, i) = Append(Prefix(path, i - 1), path[i])
      BY <2>1, Prefixes, Zenon DEF PrefixLaws
    <2>3. LookupIn(tree, Append(Prefix(path, i - 1), path[i])) =
            LET d == LookupIn(tree, Prefix(path, i - 1)) IN IF d \in Directories THEN tree[<<d, path[i]>>] ELSE None
      BY <2>2, LookupSteps, Zenon DEF LooksUp
    <2>. QED
      BY <2>2, <2>3, Zenon
  <1> HIDE DEF was, now
  <1>4. ASSUME NEW k \in Nat, k \in T PROVE k + 1 \in T
    <2> SUFFICES ASSUME k + 1 <= Len(path) PROVE now(k + 1) = was(k + 1)
      OBVIOUS
    <2>1. k + 1 \in 1..Len(path) /\ (k + 1) - 1 = k /\ k <= Len(path)
      BY Prefixes DEF PrefixLaws
    <2>2. now(k) = was(k)
      BY <1>4, <2>1, Zenon
    <2>3. now(k) \in Directories /\ now(k + 1) = new[<<now(k), path[k + 1]>>] /\ <<now(k), path[k + 1]>> \notin gone
      BY <1>2, <2>1, Zenon
    <2>4. was(k + 1) = IF was(k) \in Directories THEN tree[<<was(k), path[k + 1]>>] ELSE None
      BY <1>3, <2>1, Zenon
    <2>5. path[k + 1] \in Names
      BY <2>1
    <2>. QED
      BY <2>2, <2>3, <2>4, <2>5, Constants, Zenon DEF NoneApart
  <1>5. Nat \subseteq T
    <2> HIDE DEF T
    <2>. QED
      BY <1>1, <1>4, Induction, Zenon
  <1>6. \A i \in 0..Len(path) : now(i) = was(i)
    BY <1>5
  <1>. QED
    BY <1>6, Zenon DEF was, now

-----------------------------------------------------------------------------
(* The invariant.                                                          *)

Failure     == [error |-> TRUE]
PosixRows   == [error : {FALSE}, path : Seq(Names), kind : {"file", "dir"}, nlink : 0..MaxLinks]
PosixEvents == PosixRows \cup {Failure}
RowEvents   == [error : {FALSE}, obj : Objects, row : ScanRows]
ScanEvents  == RowEvents \cup {Failure}
Stripes     == {Osts(o) : o \in Objects} \cup {{}}
ScanTables  == [entry : [Objects -> ScanRows \cup {None}], edge : [Places -> Objects \cup {None}],
                stripe : [Objects -> Stripes], removed : [Objects -> {None}]]
WalkerRecs  == [pc : {"idle", "self", "open", "read", "stat", "finish", "done"}, path : Seq(Names),
                dir : Directories \cup {None}, todo : Seq(Names)]
HandRecs    == [pc : {"idle", "hold", "done"}, event : PosixEvents \cup {None}]

\* Types, by the task that writes the variables.
FsTypes == world \in Worlds /\ link \in [Places -> Objects \cup {None}]
WalkTypes ==
  /\ work \in Seq(Seq(Names)) /\ open \in BOOLEAN /\ pending \in Nat
  /\ walker \in [Walkers -> WalkerRecs]
  /\ \A w \in Walkers : walker[w].pc \in {"read", "stat"} => walker[w].dir \in Directories
  /\ \A w \in Walkers : walker[w].pc = "stat" => walker[w].todo # <<>>
PosixTypes ==
  /\ posix \in Seq(PosixEvents) /\ Len(posix) <= Channel
  /\ progress \in [scanned : Nat, errors : Nat]
LookupTypesOK ==
  /\ enricher \in [Enrichers -> HandRecs] /\ events \in Seq(ScanEvents) /\ Len(events) <= Channel
  /\ \A e \in Enrichers : enricher[e].pc = "hold" => enricher[e].event \in PosixEvents
StoreTypes ==
  /\ db \in ScanTables /\ batch \in Seq(RowEvents) /\ Len(batch) <= BatchMax
  /\ got \in Nat /\ failures \in Nat
TaskTypes == task \in {"count", "start", "drain", "ingest", "Completed", "Failed"}
Types == FsTypes /\ WalkTypes /\ PosixTypes /\ LookupTypesOK /\ StoreTypes /\ TaskTypes

\* The queue of directories is open as long as one is queued or walked, and what
\* ends has nothing left to do.
Queued ==
  /\ pending = Len(work) + Cardinality(Busy)
  /\ open <=> pending # 0
  /\ (\E w \in Walkers : walker[w].pc = "done") => pending = 0
  /\ (\E e \in Enrichers : enricher[e].pc = "done") =>
       posix = <<>> /\ \A w \in Walkers : walker[w].pc = "done"

\* The events of a channel that carry an entry.
Fine(s) == Cardinality({i \in 1..Len(s) : ~s[i].error})
InHand  == {e \in Enrichers : enricher[e].pc = "hold" /\ ~enricher[e].event.error}

\* What was counted is in one of the channels, in hand, or received.
Tallied == progress.scanned = Fine(posix) + Cardinality(InHand) + Fine(events) + got

Base == Types /\ Queued /\ Tallied

\* A directory that is walked under a path that stays is the one at that path, and
\* a name taken for that of a file is that of a file.
Heads(rec) ==
  /\ rec.pc \in {"read", "stat"} /\ StaysIn(link, moved, rec.path) => rec.dir = Lookup(rec.path)
  /\ rec.pc = "stat" =>
       LET p == <<rec.dir, Head(rec.todo)>> IN p \notin moved => ~IsDir(link[p])
Aimed == \A w \in Walkers : Heads(walker[w])

\* A row on its way has the object that is at its place, if the place stays.
Right(r) ==
  r.row.parent # None =>
    /\ At(r.row) \in Places
    /\ At(r.row) \notin moved => link[At(r.row)] = r.obj
Truthful ==
  /\ \A i \in DOMAIN events : ~events[i].error => Right(events[i])
  /\ \A i \in DOMAIN batch : Right(batch[i])

\* The walk has yet to come to a path: a directory on it is queued, or a walker is
\* about to report it, to list it or to look at a name on the path.
InQueue(path) == \E i \in 0..Len(path) : \E j \in DOMAIN work : work[j] = Prefix(path, i)
Brings(rec, path) ==
  \E i \in 0..Len(path) :
    \/ rec.pc = "self" /\ rec.path = Prefix(path, i)
    \/ rec.pc = "open" /\ i < Len(path) /\ rec.path = Prefix(path, i)
    \/ rec.pc \in {"read", "stat"} /\ \E j \in DOMAIN rec.todo : Prefix(path, i) = Append(rec.path, rec.todo[j])
ToCome(path) == InQueue(path) \/ \E w \in Walkers : Brings(walker[w], path)

\* The row at a path is on its way, or stored.
Parent(path)   == Prefix(path, Len(path) - 1)
RowOf(r, path) == r.obj = Lookup(path) /\ At(r.row) = <<Lookup(Parent(path)), path[Len(path)]>>
Sent(path) ==
  \/ \E i \in DOMAIN posix : ~posix[i].error /\ posix[i].path = path
  \/ \E e \in Enrichers : enricher[e].pc = "hold" /\ ~enricher[e].event.error /\ enricher[e].event.path = path
Rowed(path) ==
  \/ \E i \in DOMAIN events : ~events[i].error /\ RowOf(events[i], path)
  \/ \E i \in DOMAIN batch : RowOf(batch[i], path)
Stored(path) ==
  /\ db.entry[Lookup(path)] # None
  /\ db.edge[<<Lookup(Parent(path)), path[Len(path)]>>] = Lookup(path)
\* The paths that a scan has to store.
Due1(path) == path # <<>> /\ StaysIn(link, moved, path) /\ Wanted(path)
Clean == progress.errors = 0 /\ (world.api => failures = 0)
Cover(path) == Stored(path) \/ Rowed(path) \/ Sent(path) \/ ToCome(path)
Covered == task = "drain" /\ Clean => \A path \in Seq(Names) : Due1(path) => Cover(path)
Complete ==
  /\ task = "count" /\ ~partly => Rows(db) = {}
  /\ Finished /\ ~partly => \A path \in Seq(Names) : Due1(path) => Stored(path)

ScanInv == Base /\ (task = "drain" => Aimed /\ Truthful) /\ Covered /\ Complete

-----------------------------------------------------------------------------
(* Counting.                                                               *)

\* A finite set with one element more or less.
LEMMA OneMore ==
  ASSUME Laws, NEW S, IsFiniteSet(S), NEW x, x \notin S
  PROVE  IsFiniteSet(S \cup {x}) /\ Cardinality(S \cup {x}) = Cardinality(S) + 1 /\ Cardinality(S) \in Nat
  BY Zenon DEF Laws

\* The same with one element less.
LEMMA OneLess ==
  ASSUME Laws, NEW S, IsFiniteSet(S), NEW x, x \in S
  PROVE  IsFiniteSet(S \ {x}) /\ Cardinality(S) = Cardinality(S \ {x}) + 1 /\ Cardinality(S \ {x}) \in Nat
  <1>1. IsFiniteSet(S \ {x})
    BY FiniteLaw, Zenon
  <1>2. S = (S \ {x}) \cup {x}
    BY Zenon
  <1>. QED
    BY <1>1, <1>2, OneMore, Zenon

\* A sequence loses its first element, or gets a last one.
TailLaws(E, s) ==
  /\ Head(s) \in E /\ Tail(s) \in Seq(E) /\ Len(s) \in Nat /\ Len(Tail(s)) = Len(s) - 1
  /\ 1 \in DOMAIN s /\ s[1] = Head(s)
  /\ \A i \in DOMAIN Tail(s) : i + 1 \in DOMAIN s /\ Tail(s)[i] = s[i + 1]
  /\ \A i \in DOMAIN s : i = 1 \/ (i - 1 \in DOMAIN Tail(s) /\ Tail(s)[i - 1] = s[i])

\* So it is for every sequence that is not empty.
LEMMA TailFacts ==
  ASSUME NEW E, NEW s \in Seq(E), s # <<>>
  PROVE  TailLaws(E, s)
  BY DEF TailLaws

\* The same for a new last element.
AppendLaws(E, s, x) ==
  /\ Append(s, x) \in Seq(E) /\ Len(s) \in Nat /\ Len(Append(s, x)) = Len(s) + 1
  /\ Len(s) + 1 \in DOMAIN Append(s, x) /\ Append(s, x)[Len(s) + 1] = x
  /\ \A i \in DOMAIN s : i \in DOMAIN Append(s, x) /\ Append(s, x)[i] = s[i]
  /\ \A i \in DOMAIN Append(s, x) : i = Len(s) + 1 \/ (i \in DOMAIN s /\ Append(s, x)[i] = s[i])

\* So it is for every sequence.
LEMMA AppendFacts ==
  ASSUME NEW E, NEW s \in Seq(E), NEW x \in E
  PROVE  AppendLaws(E, s, x)
  BY DEF AppendLaws

\* The indices of a channel's entries.
Entries(s) == {i \in 1..Len(s) : ~s[i].error}

\* Fine counts them.
LEMMA EntriesFinite ==
  ASSUME Laws, NEW E, NEW s \in Seq(E)
  PROVE  IsFiniteSet(Entries(s)) /\ Fine(s) = Cardinality(Entries(s)) /\ Fine(s) \in Nat
  <1>0. 1 \in Int /\ Len(s) \in Int
    OBVIOUS
  <1>1. IsFiniteSet(1..Len(s))
    BY <1>0, Zenon DEF Laws
  <1>2. Entries(s) \subseteq 1..Len(s)
    BY Zenon DEF Entries
  <1>3. IsFiniteSet(Entries(s)) /\ Cardinality(Entries(s)) \in Nat
    BY <1>1, <1>2, FiniteLaw, Zenon
  <1>. QED
    BY <1>3, Zenon DEF Fine, Entries

\* An event enters a channel.
LEMMA FineAppend ==
  ASSUME Laws, NEW E, NEW s \in Seq(E), NEW x \in E
  PROVE  /\ x.error  => Fine(Append(s, x)) = Fine(s)
         /\ ~x.error => Fine(Append(s, x)) = Fine(s) + 1
  <1> DEFINE t == Append(s, x)
  <1>1. t \in Seq(E) /\ Len(t) = Len(s) + 1 /\ Len(s) \in Nat /\ t[Len(s) + 1] = x /\ \A i \in 1..Len(s) : t[i] = s[i]
    OBVIOUS
  <1> HIDE DEF t
  <1>2. x.error => Entries(t) = Entries(s)
    BY <1>1 DEF Entries
  <1>3. ~x.error => Entries(t) = Entries(s) \cup {Len(s) + 1}
    BY <1>1 DEF Entries
  <1>4. Len(s) + 1 \notin Entries(s)
    BY <1>1 DEF Entries
  <1>5. ~x.error => Cardinality(Entries(t)) = Cardinality(Entries(s)) + 1
    BY <1>3, <1>4, EntriesFinite, OneMore, Zenon
  <1>6. Fine(t) = Cardinality(Entries(t)) /\ Fine(s) = Cardinality(Entries(s))
    BY <1>1, EntriesFinite, Zenon
  <1>. QED
    BY <1>2, <1>5, <1>6, Zenon DEF t

\* An event leaves a channel.
TailCounts(E, s) ==
  /\ Tail(s) \in Seq(E) /\ Head(s) \in E /\ Len(Tail(s)) = Len(s) - 1
  /\ Head(s).error  => Fine(s) = Fine(Tail(s))
  /\ ~Head(s).error => Fine(s) = Fine(Tail(s)) + 1

\* So the entries of the channel are counted.
LEMMA FineTail ==
  ASSUME Laws, NEW E, NEW s \in Seq(E), s # <<>>
  PROVE  TailCounts(E, s)
  <1> USE DEF TailCounts
  <1> DEFINE t == Tail(s)
             f == [i \in Entries(t) |-> i + 1]
             A == Entries(s) \ {1}
  <1>1. /\ t \in Seq(E) /\ Len(s) = Len(t) + 1 /\ Len(t) \in Nat /\ Head(s) = s[1] /\ Head(s) \in E
        /\ \A i \in 1..Len(t) : t[i] = s[i + 1]
    OBVIOUS
  <1> HIDE DEF t
  <1>2. f \in Bijection(Entries(t), A)
    <2>1. \A i \in Entries(t) : i \in Nat /\ i + 1 \in A
      BY <1>1 DEF Entries
    <2>2. \A j \in A : j \in Nat /\ j - 1 \in Entries(t) /\ (j - 1) + 1 = j
      BY <1>1 DEF Entries
    <2> HIDE DEF A
    <2>3. f \in [Entries(t) -> A]
      BY <2>1, Zenon
    <2>4. \A i, j \in Entries(t) : f[i] = f[j] => i = j
      BY <2>1
    <2>5. \A j \in A : \E i \in Entries(t) : f[i] = j
      BY <2>2, Zenon
    <2>. QED
      BY <2>3, <2>4, <2>5, Zenon DEF Bijection, Injection, Surjection, IsInjective
  <1>3. IsFiniteSet(Entries(t)) /\ IsFiniteSet(Entries(s)) /\ Cardinality(Entries(t)) = Fine(t) /\ Cardinality(Entries(s)) = Fine(s)
    BY <1>1, EntriesFinite, Zenon
  <1>4. Cardinality(A) = Cardinality(Entries(t))
    <2> HIDE DEF A, f
    <2>1. ExistsBijection(Entries(t), A)
      BY <1>2, Zenon DEF ExistsBijection
    <2>. QED
      BY <1>3, <2>1, Zenon DEF Laws
  <1>5. Head(s).error => Fine(s) = Fine(t)
    BY <1>1, <1>3, <1>4, Zenon DEF Entries
  <1>6. ~Head(s).error => Fine(s) = Fine(t) + 1
    <2>1. ~Head(s).error => 1 \in Entries(s)
      BY <1>1 DEF Entries
    <2>2. 1 \in Entries(s) => Cardinality(Entries(s)) = Cardinality(A) + 1
      BY <1>3, OneLess, Zenon
    <2> HIDE DEF A
    <2>. QED
      BY <1>3, <1>4, <2>1, <2>2, Zenon
  <1>7. Len(t) = Len(s) - 1
    BY <1>1
  <1>. QED
    BY <1>1, <1>5, <1>6, <1>7, Zenon DEF t

-----------------------------------------------------------------------------
(* The walk keeps types, queue and tally.                                  *)

\* A link count has the width of its column.
LEMMA LinkCountFits ==
  ASSUME Laws, NEW S \in SUBSET Places
  PROVE  LinkCount(S) \in 0..MaxLinks
  <1>1. IsFiniteSet(Dirs) /\ IsFiniteSet({Root}) /\ IsFiniteSet(Names)
    BY CatalogAssumption, Zenon DEF Laws
  <1>2. IsFiniteSet(Places)
    BY <1>1, Zenon DEF Places, Laws
  <1>3. Cardinality(S) \in Nat
    BY <1>2, FiniteLaw, Zenon
  <1>. QED
    BY <1>3, CatalogAssumption DEF LinkCount

\* An event with an entry enters the first channel.
EventOut(path) ==
  \E ev \in PosixRows :
    /\ ev.path = path /\ Len(posix) < Channel /\ posix' = Append(posix, ev)
    /\ progress' = [progress EXCEPT !.scanned = @ + 1]

\* What emit_path does.
LEMMA Emitted ==
  ASSUME Laws, NEW path \in Seq(Names), NEW directory \in BOOLEAN, emit_path(path, directory)
  PROVE  \/ emit_error
         \/ EventOut(path)
         \/ ~directory /\ Old(Lookup(path)) /\ UNCHANGED <<posix, progress>>
  <1>1. stat_entry(path) \in PosixRows /\ stat_entry(path).path = path
    BY LinkCountFits, Zenon DEF stat_entry, PosixRows
  <1>2. CASE /\ Len(posix) < Channel /\ posix' = Append(posix, stat_entry(path))
             /\ progress' = [progress EXCEPT !.scanned = @ + 1]
    BY <1>1, <1>2, Zenon DEF EventOut
  <1>. QED
    BY <1>2, Zenon DEF emit_path

\* A channel has room for what is sent, and the counter counts it.
LEMMA EmitKeeps ==
  ASSUME Laws, PosixTypes,
         emit_error \/ (\E path : EventOut(path)) \/ UNCHANGED <<posix, progress>>
  PROVE  /\ PosixTypes'
         /\ Fine(posix) \in Nat /\ Fine(posix)' \in Nat
         /\ progress'.scanned + Fine(posix) = progress.scanned + Fine(posix)'
  <1>1. /\ posix \in Seq(PosixEvents) /\ Len(posix) <= Channel /\ Len(posix) \in Nat
        /\ progress \in [scanned : Nat, errors : Nat] /\ Channel \in Nat
    BY ScanAssumption DEF PosixTypes
  <1>2. Fine(posix) \in Nat
    BY <1>1, EntriesFinite, Zenon
  <1>3. CASE emit_error
    <2>1. /\ Failure \in PosixEvents /\ Failure.error /\ posix' = Append(posix, Failure) /\ Len(posix) < Channel
          /\ progress' = [progress EXCEPT !.errors = @ + 1]
      BY <1>3, Zenon DEF emit_error, Failure, PosixEvents
    <2>2. posix' \in Seq(PosixEvents) /\ Len(posix') <= Channel
      BY <1>1, <2>1
    <2>3. progress' \in [scanned : Nat, errors : Nat] /\ progress'.scanned = progress.scanned
      BY <1>1, <2>1
    <2>4. Fine(posix') = Fine(posix)
      BY <1>1, <2>1, FineAppend, Zenon
    <2>. QED
      BY <1>1, <1>2, <2>2, <2>3, <2>4, Zenon DEF PosixTypes
  <1>4. CASE \E path : EventOut(path)
    <2>1. PICK ev \in PosixRows : /\ Len(posix) < Channel /\ posix' = Append(posix, ev)
                                  /\ progress' = [progress EXCEPT !.scanned = @ + 1]
      BY <1>4, Zenon DEF EventOut
    <2>2. ev \in PosixEvents /\ ~ev.error
      BY Zenon DEF PosixEvents, PosixRows
    <2>3. posix' \in Seq(PosixEvents) /\ Len(posix') <= Channel
      BY <1>1, <2>1, <2>2
    <2>4. progress' \in [scanned : Nat, errors : Nat] /\ progress'.scanned = progress.scanned + 1
      BY <1>1, <2>1
    <2>5. Fine(posix') = Fine(posix) + 1
      BY <1>1, <2>1, <2>2, FineAppend, Zenon
    <2>6. Fine(posix') \in Nat /\ progress'.scanned + Fine(posix) = progress.scanned + Fine(posix')
      BY <1>1, <1>2, <2>4, <2>5
    <2>. QED
      BY <1>2, <2>3, <2>4, <2>6, Zenon DEF PosixTypes
  <1>5. CASE UNCHANGED <<posix, progress>>
    BY <1>1, <1>2, <1>5, Zenon DEF PosixTypes
  <1>. QED
    BY <1>3, <1>4, <1>5, Zenon

\* The busy walkers when one of them moves.
BusyAfter(w, rec) ==
  /\ Cardinality(Busy) \in Nat /\ Cardinality(Busy)' \in Nat
  /\ w \in Busy <=> walker[w].pc \notin {"idle", "done"}
  /\ rec.pc \notin {"idle", "done"} =>
       Cardinality(Busy)' = IF w \in Busy THEN Cardinality(Busy) ELSE Cardinality(Busy) + 1
  /\ rec.pc \in {"idle", "done"} =>
       Cardinality(Busy) = IF w \in Busy THEN Cardinality(Busy)' + 1 ELSE Cardinality(Busy)'

\* Their number changes accordingly.
LEMMA BusyMoves ==
  ASSUME Laws, walker \in [Walkers -> WalkerRecs], NEW w \in Walkers, NEW rec, Becomes(w, rec)
  PROVE  BusyAfter(w, rec)
  <1> USE DEF BusyAfter
  <1>1. IsFiniteSet(Busy) /\ Cardinality(Busy) \in Nat
    BY ScanAssumption, FiniteLaw, Zenon DEF Busy
  <1>0. w \in Busy <=> walker[w].pc \notin {"idle", "done"}
    BY Zenon DEF Busy
  <1>2. /\ \A v \in Walkers : v # w => walker'[v] = walker[v]
        /\ walker'[w] = rec
    BY Zenon DEF Becomes
  <1>3. rec.pc \notin {"idle", "done"} => Busy' = Busy \cup {w}
    BY <1>2, Zenon DEF Busy
  <1>4. rec.pc \in {"idle", "done"} => Busy' = Busy \ {w}
    BY <1>2, Zenon DEF Busy
  <1>5. w \in Busy => Busy \cup {w} = Busy
    BY Zenon
  <1>6. w \notin Busy => Busy \ {w} = Busy
    BY Zenon
  <1>7. w \notin Busy => Cardinality(Busy \cup {w}) = Cardinality(Busy) + 1
    BY <1>1, OneMore, Zenon
  <1>8. w \in Busy => Cardinality(Busy) = Cardinality(Busy \ {w}) + 1 /\ Cardinality(Busy \ {w}) \in Nat
    BY <1>1, OneLess, Zenon
  <1>9. Cardinality(Busy)' = Cardinality(Busy')
    BY Zenon
  <1> HIDE DEF Busy
  <1>10. CASE rec.pc \notin {"idle", "done"}
    <2>1. Busy' = Busy \cup {w}
      BY <1>3, <1>10, Zenon
    <2>2. w \in Busy => Cardinality(Busy)' = Cardinality(Busy)
      BY <2>1, <1>5, <1>9, Zenon
    <2>3. w \notin Busy => Cardinality(Busy)' = Cardinality(Busy) + 1
      BY <2>1, <1>7, <1>9, Zenon
    <2>. QED
      BY <1>0, <1>1, <1>10, <2>2, <2>3
  <1>11. CASE rec.pc \in {"idle", "done"}
    BY <1>0, <1>1, <1>4, <1>6, <1>8, <1>9, <1>11, Zenon
  <1>. QED
    BY <1>10, <1>11, Zenon

\* The queue is open for a walker that has a directory, and nobody who follows it ended.
PendingWhileBusy(w) ==
  /\ walker[w].pc # "idle" => pending > 0 /\ open
  /\ \A e \in Enrichers : enricher[e].pc # "done"
  /\ Len(work) \in Nat /\ Cardinality(Busy) \in Nat /\ pending = Len(work) + Cardinality(Busy)
  /\ open <=> pending # 0

\* This follows from the invariant.
LEMMA BusyPending ==
  ASSUME Laws, Base, NEW w \in Walkers, walker[w].pc # "done"
  PROVE  PendingWhileBusy(w)
  <1> USE DEF PendingWhileBusy
  <1>1. /\ Len(work) \in Nat /\ pending = Len(work) + Cardinality(Busy)
        /\ open <=> pending # 0
        /\ \A e \in Enrichers : enricher[e].pc # "done"
    BY DEF Base, Types, WalkTypes, Queued
  <1>2. IsFiniteSet(Busy) /\ Cardinality(Busy) \in Nat
    BY ScanAssumption, FiniteLaw, Zenon DEF Busy
  <1>3. walker[w].pc # "idle" => w \in Busy
    BY Zenon DEF Busy
  <1>4. w \in Busy => Cardinality(Busy) > 0
    <2> SUFFICES ASSUME w \in Busy PROVE Cardinality(Busy) > 0
      BY Zenon
    <2>1. Cardinality(Busy) = Cardinality(Busy \ {w}) + 1 /\ Cardinality(Busy \ {w}) \in Nat
      BY <1>2, OneLess, Zenon
    <2>. QED
      BY <2>1
  <1>. QED
    BY <1>1, <1>2, <1>3, <1>4

\* What a walker's step has to respect.
Steps(w, rec) ==
  /\ Becomes(w, rec) /\ rec \in WalkerRecs
  /\ rec.pc \in {"read", "stat"} => rec.dir \in Directories
  /\ rec.pc = "stat" => rec.todo # <<>>
Emits == emit_error \/ (\E path : EventOut(path)) \/ UNCHANGED <<posix, progress>>

\* A walker's step keeps the invariant if it keeps the queue and its counter right.
LEMMA WalkerBase ==
  ASSUME Laws, Base, ByWalker, NEW w \in Walkers, NEW rec, Steps(w, rec), walker[w].pc # "done", Emits,
         work' \in Seq(Seq(Names)), pending' \in Nat, open' \in BOOLEAN, open' <=> pending' # 0,
         pending' = Len(work') + Cardinality(Busy)',
         rec.pc = "done" => pending' = 0,
         pending = 0 => pending' = 0
  PROVE  Base'
  <1>1. WalkTypes'
    BY Zenon DEF Base, Types, WalkTypes, Steps, Becomes
  <1>2. /\ PosixTypes' /\ Fine(posix) \in Nat /\ Fine(posix)' \in Nat
        /\ progress'.scanned + Fine(posix) = progress.scanned + Fine(posix)'
    BY EmitKeeps, Zenon DEF Base, Types, Emits
  <1>3. FsTypes' /\ LookupTypesOK' /\ StoreTypes' /\ TaskTypes'
    BY Zenon DEF Base, Types, FsTypes, LookupTypesOK, StoreTypes, TaskTypes, ByWalker, lookup, store
  <1>4. Queued'
    <2>1. (\E v \in Walkers : walker'[v].pc = "done") => pending' = 0
      BY Zenon DEF Base, Types, WalkTypes, Steps, Becomes, Queued
    <2>2. \A e \in Enrichers : enricher'[e].pc # "done"
      BY BusyPending, Zenon DEF ByWalker, lookup, PendingWhileBusy
    <2>. QED
      BY <2>1, <2>2, Zenon DEF Queued
  <1>5. Tallied'
    <2>1. /\ InHand' = InHand /\ Fine(events)' = Fine(events) /\ got' = got
      BY Zenon DEF ByWalker, lookup, store, InHand
    <2>2. /\ progress.scanned \in Nat /\ progress'.scanned \in Nat /\ got \in Nat /\ Fine(events) \in Nat
      BY <1>2, EntriesFinite, Zenon DEF Base, Types, PosixTypes, StoreTypes, LookupTypesOK
    <2>3. Cardinality(InHand) \in Nat
      BY ScanAssumption, FiniteLaw, Zenon DEF InHand
    <2>4. progress.scanned = Fine(posix) + Cardinality(InHand) + Fine(events) + got
      BY Zenon DEF Base, Tallied
    <2>5. progress'.scanned = Fine(posix)' + Cardinality(InHand) + Fine(events) + got
      <3>1. PICK s, t, f, g, a, b, c \in Nat :
              /\ s = progress.scanned /\ t = progress'.scanned /\ f = Fine(posix) /\ g = Fine(posix)'
              /\ a = Cardinality(InHand) /\ b = Fine(events) /\ c = got
        BY <1>2, <2>2, <2>3, Zenon
      <3>2. t + f = s + g /\ s = f + a + b + c
        BY <1>2, <2>4, <3>1, Zenon
      <3>3. t = g + a + b + c
        BY <3>2
      <3>. QED
        BY <3>1, <3>3, Zenon
    <2>. QED
      BY <2>1, <2>5, Zenon DEF Tallied
  <1>. QED
    BY <1>1, <1>2, <1>3, <1>4, <1>5, Zenon DEF Base, Types

\* A walker that keeps its directory leaves the queue alone.
LEMMA StillBase ==
  ASSUME Laws, Base, ByWalker, NEW w \in Walkers, NEW rec, Steps(w, rec), Emits,
         UNCHANGED <<work, open, pending>>, walker[w].pc \notin {"idle", "done"}, rec.pc \notin {"idle", "done"}
  PROVE  Base'
  BY BusyPending, BusyMoves, WalkerBase, Zenon DEF Base, Types, WalkTypes, Steps, BusyAfter, PendingWhileBusy

\* The paths, directories and names a walker has.
WalkerTyped(w) ==
  /\ walker[w] \in WalkerRecs /\ walker[w].path \in Seq(Names) /\ walker[w].todo \in Seq(Names)
  /\ walker[w].dir \in Directories \cup {None}
  /\ walker[w].pc \in {"read", "stat"} => walker[w].dir \in Directories
  /\ walker[w].pc = "stat" => walker[w].todo # <<>>
  /\ walker[w].todo # <<>> =>
       Head(walker[w].todo) \in Names /\ Tail(walker[w].todo) \in Seq(Names)

\* This follows from the invariant.
LEMMA WalkerHas ==
  ASSUME Base, NEW w \in Walkers
  PROVE  WalkerTyped(w)
  BY DEF Base, Types, WalkTypes, WalkerRecs, WalkerTyped

\* A directory is taken from the queue.
LEMMA TakeBase ==
  ASSUME Laws, Base, NEW w \in Walkers, Take(w)
  PROVE  Base'
  <1> DEFINE rec == [WalkerIdle EXCEPT !.pc = "self", !.path = Head(work)]
  <1>1. /\ walker[w].pc = "idle" /\ work # <<>> /\ Becomes(w, rec) /\ work' = Tail(work)
        /\ ByWalker /\ UNCHANGED <<open, pending, posix, progress>>
    BY Zenon DEF Take
  <1>2. /\ work \in Seq(Seq(Names)) /\ pending \in Nat /\ open \in BOOLEAN
        /\ walker \in [Walkers -> WalkerRecs]
    BY Zenon DEF Base, Types, WalkTypes
  <1>3. Head(work) \in Seq(Names) /\ work' \in Seq(Seq(Names)) /\ Len(work') = Len(work) - 1
    BY <1>1, <1>2, TailFacts, Zenon DEF TailLaws
  <1>4. rec \in WalkerRecs /\ rec.pc = "self"
    <2>1. PICK p \in Seq(Names) : p = Head(work)
      BY <1>3, Zenon
    <2>2. <<>> \in Seq(Names)
      OBVIOUS
    <2>3. WalkerIdle \in WalkerRecs /\ [WalkerIdle EXCEPT !.pc = "self"] \in WalkerRecs
      BY <2>2, Zenon DEF WalkerRecs, WalkerIdle
    <2>4. [WalkerIdle EXCEPT !.pc = "self"].pc = "self"
      BY Zenon DEF WalkerIdle
    <2>. QED
      BY <2>1, <2>3, <2>4, Zenon DEF WalkerRecs
  <1> HIDE DEF rec
  <1>5. Steps(w, rec) /\ Emits /\ walker[w].pc # "done"
    BY <1>1, <1>4, Zenon DEF Steps, Emits
  <1>6. /\ Len(work) \in Nat /\ Cardinality(Busy) \in Nat /\ pending = Len(work) + Cardinality(Busy)
        /\ open <=> pending # 0
    BY <1>1, BusyPending, Zenon DEF PendingWhileBusy
  <1>7. Cardinality(Busy)' = Cardinality(Busy) + 1
    BY <1>1, <1>2, <1>4, BusyMoves, Zenon DEF Busy, BusyAfter
  <1>8. pending' = Len(work') + Cardinality(Busy)'
    BY <1>1, <1>3, <1>6, <1>7
  <1>9. /\ pending' \in Nat /\ open' \in BOOLEAN
        /\ open' <=> pending' # 0
    BY <1>1, <1>2, <1>6, Zenon
  <1>. QED
    BY <1>1, <1>3, <1>4, <1>5, <1>8, <1>9, WalkerBase, Zenon

\* A walker ends.
LEMMA QuitBase ==
  ASSUME Laws, Base, NEW w \in Walkers, Quit(w)
  PROVE  Base'
  <1> DEFINE rec == [walker[w] EXCEPT !.pc = "done"]
  <1>1. /\ walker[w].pc = "idle" /\ work = <<>> /\ ~open /\ Becomes(w, rec)
        /\ ByWalker /\ UNCHANGED <<work, open, pending, posix, progress>>
    BY Zenon DEF Quit, To
  <1>2. /\ work \in Seq(Seq(Names)) /\ pending \in Nat /\ open \in BOOLEAN
        /\ walker \in [Walkers -> WalkerRecs]
    BY Zenon DEF Base, Types, WalkTypes
  <1>3. rec \in WalkerRecs /\ rec.pc = "done"
    BY <1>2, Zenon DEF WalkerRecs
  <1> HIDE DEF rec
  <1>4. Steps(w, rec) /\ Emits /\ walker[w].pc # "done"
    BY <1>1, <1>3, Zenon DEF Steps, Emits
  <1>5. /\ pending = Len(work) + Cardinality(Busy)
        /\ open <=> pending # 0
    BY <1>1, BusyPending, Zenon DEF PendingWhileBusy
  <1>6. Cardinality(Busy)' = Cardinality(Busy)
    BY <1>1, <1>2, <1>3, BusyMoves, Zenon DEF Busy, BusyAfter
  <1>. QED
    BY <1>1, <1>2, <1>3, <1>4, <1>5, <1>6, WalkerBase, Zenon

\* The directory itself is looked at.
LEMMA EmitSelfBase ==
  ASSUME Laws, Base, NEW w \in Walkers, EmitSelf(w)
  PROVE  Base'
  <1> DEFINE rec == [walker[w] EXCEPT !.pc = "open"]
  <1>1. /\ walker[w].pc = "self" /\ Becomes(w, rec) /\ emit_path(walker[w].path, TRUE)
        /\ ByWalker /\ UNCHANGED <<work, open, pending>>
    BY Zenon DEF EmitSelf, To
  <1>2. rec \in WalkerRecs /\ rec.pc = "open"
    BY WalkerHas, Zenon DEF WalkerRecs, WalkerTyped
  <1>3. Emits
    BY <1>1, WalkerHas, Emitted, Zenon DEF Emits, WalkerTyped
  <1> HIDE DEF rec
  <1>4. Steps(w, rec)
    BY <1>1, <1>2, Zenon DEF Steps
  <1>. QED
    BY <1>1, <1>2, <1>3, <1>4, StillBase, Zenon

\* The directory is opened, or is not there.
LEMMA ReadDirBase ==
  ASSUME Laws, Base, NEW w \in Walkers, ReadDir(w)
  PROVE  Base'
  <1>1. walker[w].pc = "open" /\ ByWalker /\ UNCHANGED <<work, open, pending>>
    BY Zenon DEF ReadDir
  <1>2. CASE /\ IsDir(Lookup(walker[w].path))
             /\ Becomes(w, [walker[w] EXCEPT !.pc = "read", !.dir = Lookup(walker[w].path), !.todo = Listing])
             /\ UNCHANGED <<posix, progress, left>>
    <2> DEFINE rec == [walker[w] EXCEPT !.pc = "read", !.dir = Lookup(walker[w].path), !.todo = Listing]
    <2>1. rec \in WalkerRecs /\ rec.pc = "read" /\ rec.dir \in Directories
      BY <1>2, WalkerHas, ScanAssumption, ZenonT(30) DEF WalkerRecs, IsDir, WalkerTyped
    <2> HIDE DEF rec
    <2>2. Steps(w, rec) /\ Emits
      BY <1>2, <2>1, Zenon DEF Steps, Emits, rec
    <2>. QED
      BY <1>1, <2>1, <2>2, StillBase, Zenon
  <1>3. CASE emit_error /\ To(w, "finish")
    <2> DEFINE rec == [walker[w] EXCEPT !.pc = "finish"]
    <2>1. rec \in WalkerRecs /\ rec.pc = "finish"
      BY WalkerHas, Zenon DEF WalkerRecs, WalkerTyped
    <2> HIDE DEF rec
    <2>2. Steps(w, rec) /\ Emits
      BY <1>3, <2>1, Zenon DEF Steps, Emits, To, rec
    <2>. QED
      BY <1>1, <2>1, <2>2, StillBase, Zenon
  <1>. QED
    BY <1>2, <1>3, Zenon DEF ReadDir

\* A name of the listing.
LEMMA NextEntryBase ==
  ASSUME Laws, Base, NEW w \in Walkers, NextEntry(w)
  PROVE  Base'
  <1> DEFINE n    == Head(walker[w].todo)
             o    == link[<<walker[w].dir, n>>]
             rest == [walker[w] EXCEPT !.todo = Tail(@)]
             stat == [walker[w] EXCEPT !.pc = "stat"]
  <1>1. /\ walker[w].pc = "read" /\ walker[w].todo # <<>>
        /\ ByWalker /\ UNCHANGED <<open, posix, progress>> /\ Emits
    BY Zenon DEF NextEntry, Emits
  <1>2. /\ rest \in WalkerRecs /\ rest.pc = "read" /\ rest.dir \in Directories
        /\ stat \in WalkerRecs /\ stat.pc = "stat" /\ stat.dir \in Directories /\ stat.todo # <<>>
    BY <1>1, WalkerHas, Zenon DEF WalkerRecs, WalkerTyped
  <1>3. \/ Becomes(w, rest) /\ UNCHANGED <<pending, work>>
        \/ Becomes(w, rest) /\ Queues(Step(walker[w].path, n))
        \/ Becomes(w, stat) /\ UNCHANGED <<pending, work>>
    BY Zenon DEF NextEntry
  <1>4. n \in Names /\ walker[w].path \in Seq(Names)
    BY <1>1, WalkerHas, Zenon DEF WalkerTyped
  <1> HIDE DEF n, o, rest, stat
  <1>5. CASE Becomes(w, rest) /\ UNCHANGED <<pending, work>>
    BY <1>1, <1>2, <1>5, StillBase, Zenon DEF Steps
  <1>6. CASE Becomes(w, stat) /\ UNCHANGED <<pending, work>>
    BY <1>1, <1>2, <1>6, StillBase, Zenon DEF Steps
  <1>7. CASE Becomes(w, rest) /\ Queues(Step(walker[w].path, n))
    <2>1. /\ work \in Seq(Seq(Names)) /\ pending \in Nat /\ open \in BOOLEAN
          /\ walker \in [Walkers -> WalkerRecs]
      BY Zenon DEF Base, Types, WalkTypes
    <2>2. /\ Len(work) \in Nat /\ Cardinality(Busy) \in Nat /\ pending = Len(work) + Cardinality(Busy)
          /\ open /\ pending > 0
      BY <1>1, BusyPending, Zenon DEF PendingWhileBusy
    <2>3. Cardinality(Busy)' = Cardinality(Busy)
      BY <1>1, <1>2, <1>7, <2>1, BusyMoves, Zenon DEF Busy, BusyAfter
    <2>4. pending' = pending + 1 /\ work' = Append(work, Append(walker[w].path, n))
      BY <1>7, <2>2, Zenon DEF Queues, Step
    <2>5. work' \in Seq(Seq(Names)) /\ Len(work') = Len(work) + 1
      BY <1>4, <2>1, <2>4
    <2>6. pending' = Len(work') + Cardinality(Busy)' /\ pending' \in Nat /\ pending' # 0
      <3>1. PICK a, b \in Nat : a = Len(work) /\ b = Cardinality(Busy)
        BY <2>2, Zenon
      <3>2. pending' = (a + b) + 1 /\ Len(work') = a + 1 /\ Cardinality(Busy)' = b
        BY <2>2, <2>3, <2>4, <2>5, <3>1, Zenon
      <3>. QED
        BY <3>2
    <2>7. Steps(w, rest)
      BY <1>2, <1>7, Zenon DEF Steps
    <2>. QED
      BY <1>1, <1>2, <2>2, <2>5, <2>6, <2>7, WalkerBase
  <1>. QED
    BY <1>3, <1>5, <1>6, <1>7, Zenon

\* A directory cannot be read on, or a name not looked at.
LEMMA ReadFailsBase ==
  ASSUME Laws, Base, NEW w \in Walkers, ReadFails(w)
  PROVE  Base'
  <1>1. ByWalker /\ UNCHANGED <<work, open, pending>> /\ Emits
    BY Zenon DEF ReadFails, Emits
  <1>2. CASE walker[w].pc \in {"open", "read"} /\ To(w, "finish")
    <2> DEFINE rec == [walker[w] EXCEPT !.pc = "finish"]
    <2>1. rec \in WalkerRecs /\ rec.pc = "finish"
      BY WalkerHas, Zenon DEF WalkerRecs, WalkerTyped
    <2> HIDE DEF rec
    <2>2. Steps(w, rec)
      BY <1>2, <2>1, Zenon DEF Steps, To, rec
    <2>. QED
      BY <1>1, <1>2, <2>1, <2>2, StillBase, Zenon
  <1>3. CASE walker[w].pc = "read" /\ walker[w].todo # <<>> /\ Becomes(w, [walker[w] EXCEPT !.todo = Tail(@)])
    <2> DEFINE rec == [walker[w] EXCEPT !.todo = Tail(@)]
    <2>1. rec \in WalkerRecs /\ rec.pc = "read" /\ rec.dir \in Directories
      BY <1>3, WalkerHas, Zenon DEF WalkerRecs, WalkerTyped
    <2> HIDE DEF rec
    <2>2. Steps(w, rec)
      BY <1>3, <2>1, Zenon DEF Steps, rec
    <2>. QED
      BY <1>1, <1>3, <2>1, <2>2, StillBase, Zenon
  <1>. QED
    BY <1>2, <1>3, Zenon DEF ReadFails

\* A file is looked at.
LEMMA EmitEntryBase ==
  ASSUME Laws, Base, NEW w \in Walkers, EmitEntry(w)
  PROVE  Base'
  <1> DEFINE rec  == [walker[w] EXCEPT !.pc = "read", !.todo = Tail(@)]
             path == Append(walker[w].path, Head(walker[w].todo))
  <1>1. /\ walker[w].pc = "stat" /\ Becomes(w, rec) /\ emit_path(path, FALSE)
        /\ ByWalker /\ UNCHANGED <<work, open, pending>>
    BY Zenon DEF EmitEntry, Step
  <1>2. walker[w].todo # <<>> /\ path \in Seq(Names)
    BY <1>1, WalkerHas DEF WalkerTyped
  <1>3. rec \in WalkerRecs /\ rec.pc = "read" /\ rec.dir \in Directories
    BY <1>1, <1>2, WalkerHas, Zenon DEF WalkerRecs, WalkerTyped
  <1> HIDE DEF rec, path
  <1>4. Emits
    BY <1>1, <1>2, Emitted, Zenon DEF Emits
  <1>5. Steps(w, rec)
    BY <1>1, <1>3, Zenon DEF Steps
  <1>. QED
    BY <1>1, <1>3, <1>4, <1>5, StillBase, Zenon

\* A directory is done.
LEMMA FinishBase ==
  ASSUME Laws, Base, NEW w \in Walkers, Finish(w)
  PROVE  Base'
  <1>1. /\ walker[w].pc \in {"finish", "read"} /\ Becomes(w, WalkerIdle)
        /\ pending' = pending - 1 /\ open' = (open /\ pending # 1)
        /\ ByWalker /\ UNCHANGED <<work, posix, progress>>
    BY Zenon DEF Finish
  <1>2. /\ work \in Seq(Seq(Names)) /\ pending \in Nat /\ open \in BOOLEAN
        /\ walker \in [Walkers -> WalkerRecs]
    BY Zenon DEF Base, Types, WalkTypes
  <1>3. WalkerIdle \in WalkerRecs /\ WalkerIdle.pc = "idle"
    BY DEF WalkerRecs, WalkerIdle
  <1>4. Steps(w, WalkerIdle) /\ Emits
    BY <1>1, <1>3, Zenon DEF Steps, Emits
  <1>5. /\ Len(work) \in Nat /\ Cardinality(Busy) \in Nat /\ pending = Len(work) + Cardinality(Busy)
        /\ open /\ pending > 0
    BY <1>1, BusyPending, Zenon DEF PendingWhileBusy
  <1>6. Cardinality(Busy) = Cardinality(Busy)' + 1 /\ Cardinality(Busy)' \in Nat
    BY <1>1, <1>2, <1>3, BusyMoves, Zenon DEF Busy, BusyAfter
  <1>7. /\ pending' \in Nat /\ open' \in BOOLEAN /\ pending' = Len(work') + Cardinality(Busy)'
        /\ open' <=> pending' # 0
    <2>1. PICK a, b \in Nat : a = Len(work) /\ b = Cardinality(Busy)'
      BY <1>5, <1>6, Zenon
    <2>2. pending = a + (b + 1) /\ Len(work') = a
      BY <1>1, <1>5, <1>6, <2>1, Zenon
    <2>3. pending' = a + b /\ (pending = 1 <=> a + b = 0) /\ a + b \in Nat
      BY <1>1, <2>2
    <2>. QED
      BY <1>1, <1>5, <2>1, <2>2, <2>3, Zenon
  <1>8. pending # 0
    BY <1>5
  <1>. QED
    BY <1>1, <1>2, <1>3, <1>4, <1>7, <1>8, WalkerBase, Zenon

-----------------------------------------------------------------------------
(* The lookups keep types, queue and tally.                                *)

\* An event that carries an entry and is in hand.
Holds(rec) == rec.pc = "hold" /\ ~rec.event.error

\* The entries in hand when a worker moves.
InHandAfter(e, rec) ==
  /\ Cardinality(InHand) \in Nat /\ Cardinality(InHand)' \in Nat
  /\ (Holds(rec) <=> Holds(enricher[e])) => Cardinality(InHand)' = Cardinality(InHand)
  /\ Holds(rec) /\ ~Holds(enricher[e]) => Cardinality(InHand)' = Cardinality(InHand) + 1
  /\ ~Holds(rec) /\ Holds(enricher[e]) => Cardinality(InHand) = Cardinality(InHand)' + 1

\* Their number changes accordingly.
LEMMA HandMoves ==
  ASSUME Laws, enricher \in [Enrichers -> HandRecs], NEW e \in Enrichers, NEW rec,
         enricher' = [enricher EXCEPT ![e] = rec]
  PROVE  InHandAfter(e, rec)
  <1> USE DEF InHandAfter
  <1>1. IsFiniteSet(InHand) /\ Cardinality(InHand) \in Nat /\ Cardinality(InHand)' \in Nat
    <2>1. InHand \subseteq Enrichers /\ InHand' \subseteq Enrichers
      BY Zenon DEF InHand
    <2>2. IsFiniteSet(InHand) /\ IsFiniteSet(InHand')
      BY <2>1, ScanAssumption, FiniteLaw, Zenon
    <2>. QED
      BY <2>2, FiniteLaw, Zenon
  <1>2. enricher'[e] = rec /\ \A v \in Enrichers : v # e => enricher'[v] = enricher[v]
    BY Zenon
  <1>3. Holds(enricher[e]) <=> e \in InHand
    BY Zenon DEF Holds, InHand
  <1>4. Holds(rec) => InHand' = InHand \cup {e}
    BY <1>2, Zenon DEF Holds, InHand
  <1>5. ~Holds(rec) => InHand' = InHand \ {e}
    BY <1>2, Zenon DEF Holds, InHand
  <1>6. /\ e \in InHand => InHand \cup {e} = InHand
        /\ e \notin InHand => InHand \ {e} = InHand
    BY Zenon
  <1>7. e \notin InHand => Cardinality(InHand \cup {e}) = Cardinality(InHand) + 1
    BY <1>1, OneMore, Zenon
  <1>8. e \in InHand => Cardinality(InHand) = Cardinality(InHand \ {e}) + 1
    BY <1>1, OneLess, Zenon
  <1>9. Cardinality(InHand)' = Cardinality(InHand')
    BY Zenon
  <1>10. (Holds(rec) <=> Holds(enricher[e])) => Cardinality(InHand)' = Cardinality(InHand)
    BY <1>3, <1>4, <1>5, <1>6, <1>9, Zenon
  <1>11. Holds(rec) /\ ~Holds(enricher[e]) => Cardinality(InHand)' = Cardinality(InHand) + 1
    BY <1>3, <1>4, <1>7, <1>9, Zenon
  <1>12. ~Holds(rec) /\ Holds(enricher[e]) => Cardinality(InHand) = Cardinality(InHand)' + 1
    BY <1>3, <1>5, <1>8, <1>9, Zenon
  <1>. QED
    BY <1>1, <1>10, <1>11, <1>12, Zenon

\* What the steps of a lookup have in common.
LEMMA EnricherBase ==
  ASSUME Base, ByEnricher, NEW e \in Enrichers, NEW rec \in HandRecs,
         enricher' = [enricher EXCEPT ![e] = rec],
         rec.pc = "hold" => rec.event \in PosixEvents,
         PosixTypes', events' \in Seq(ScanEvents), Len(events') <= Channel,
         rec.pc = "done" => posix' = <<>> /\ \A w \in Walkers : walker[w].pc = "done",
         posix = <<>> => posix' = <<>>,
         Tallied'
  PROVE  Base'
  <1>1. UNCHANGED <<world, link, task, work, open, pending, walker, db, batch, got, failures>>
    BY Zenon DEF ByEnricher, walk, store
  <1>2. FsTypes' /\ WalkTypes' /\ StoreTypes' /\ TaskTypes'
    BY <1>1, Zenon DEF Base, Types, FsTypes, WalkTypes, StoreTypes, TaskTypes
  <1>3. enricher'[e] = rec /\ \A v \in Enrichers : v # e => enricher'[v] = enricher[v]
    BY Zenon DEF Base, Types, LookupTypesOK
  <1>4. LookupTypesOK'
    BY <1>3, Zenon DEF Base, Types, LookupTypesOK
  <1>5. Queued'
    BY <1>1, <1>3, Zenon DEF Base, Busy, Queued
  <1>. QED
    BY <1>2, <1>4, <1>5, Zenon DEF Base, Types

\* The types that a lookup's step starts from.
HandTyped(e) ==
  /\ enricher \in [Enrichers -> HandRecs] /\ enricher[e] \in HandRecs
  /\ posix \in Seq(PosixEvents) /\ Len(posix) <= Channel /\ Len(posix) \in Nat /\ Channel \in Nat
  /\ progress \in [scanned : Nat, errors : Nat] /\ progress.scanned \in Nat /\ progress.errors \in Nat
  /\ events \in Seq(ScanEvents) /\ Len(events) <= Channel /\ Len(events) \in Nat
  /\ enricher[e].pc = "hold" => enricher[e].event \in PosixEvents
  /\ Fine(posix) \in Nat /\ Fine(events) \in Nat /\ got \in Nat
  /\ progress.scanned = Fine(posix) + Cardinality(InHand) + Fine(events) + got

\* This follows from the invariant.
LEMMA HandHas ==
  ASSUME Laws, Base, NEW e \in Enrichers
  PROVE  HandTyped(e)
  <1> USE DEF HandTyped
  <1>1. PosixTypes /\ LookupTypesOK /\ StoreTypes /\ Tallied
    BY Zenon DEF Base, Types
  <1>2. /\ enricher \in [Enrichers -> HandRecs] /\ enricher[e] \in HandRecs
        /\ posix \in Seq(PosixEvents) /\ Len(posix) <= Channel
        /\ progress \in [scanned : Nat, errors : Nat]
        /\ events \in Seq(ScanEvents) /\ Len(events) <= Channel
        /\ enricher[e].pc = "hold" => enricher[e].event \in PosixEvents
        /\ got \in Nat
    BY <1>1, Zenon DEF PosixTypes, LookupTypesOK, StoreTypes
  <1>3. Fine(posix) \in Nat /\ Fine(events) \in Nat
    BY <1>2, EntriesFinite, Zenon
  <1>4. Channel \in Nat /\ Len(posix) \in Nat /\ Len(events) \in Nat /\ progress.scanned \in Nat /\ progress.errors \in Nat
    BY <1>2, ScanAssumption
  <1>5. progress.scanned = Fine(posix) + Cardinality(InHand) + Fine(events) + got
    BY <1>1, Zenon DEF Tallied
  <1>. QED
    BY <1>2, <1>3, <1>4, <1>5, Zenon

\* An event is taken from the walk's channel.
LEMMA TakeEventBase ==
  ASSUME Laws, Base, NEW e \in Enrichers, TakeEvent(e)
  PROVE  Base'
  <1> DEFINE rec == [pc |-> "hold", event |-> Head(posix)]
  <1>1. /\ enricher[e].pc = "idle" /\ posix # <<>> /\ enricher' = [enricher EXCEPT ![e] = rec]
        /\ posix' = Tail(posix) /\ ByEnricher /\ UNCHANGED <<events, progress>> /\ got' = got
    BY Zenon DEF TakeEvent, ByEnricher, store
  <1>2. /\ enricher \in [Enrichers -> HandRecs] /\ posix \in Seq(PosixEvents) /\ Len(posix) <= Channel
        /\ Len(posix) \in Nat /\ Channel \in Nat
        /\ progress \in [scanned : Nat, errors : Nat] /\ events \in Seq(ScanEvents) /\ Len(events) <= Channel
        /\ Fine(posix) \in Nat /\ Fine(events) \in Nat /\ got \in Nat
        /\ progress.scanned = Fine(posix) + Cardinality(InHand) + Fine(events) + got
    BY HandHas, Zenon DEF HandTyped
  <1>3. Head(posix) \in PosixEvents /\ posix' \in Seq(PosixEvents) /\ Len(posix') = Len(posix) - 1
    BY <1>1, <1>2, TailFacts, Zenon DEF TailLaws
  <1>4. rec \in HandRecs /\ rec.pc = "hold" /\ rec.event = Head(posix)
    BY <1>3, Zenon DEF HandRecs
  <1> HIDE DEF rec
  <1>5. PosixTypes'
    BY <1>1, <1>2, <1>3 DEF PosixTypes
  <1>6. ~Holds(enricher[e]) /\ (Holds(rec) <=> ~Head(posix).error)
    BY <1>1, <1>4, Zenon DEF Holds
  <1>7. Cardinality(InHand) \in Nat /\ Cardinality(InHand)' \in Nat
    BY <1>1, <1>2, HandMoves, Zenon DEF InHandAfter
  <1>8. Tallied'
    <2>1. CASE Head(posix).error
      BY <1>1, <1>2, <1>6, <2>1, FineTail, HandMoves, Zenon DEF Tallied, TailCounts, InHandAfter
    <2>2. CASE ~Head(posix).error
      <3>1. Fine(posix) = Fine(Tail(posix)) + 1 /\ Cardinality(InHand)' = Cardinality(InHand) + 1
        BY <1>1, <1>2, <1>6, <2>2, FineTail, HandMoves, Zenon DEF TailCounts, InHandAfter
      <3>2. Fine(Tail(posix)) \in Nat
        BY <1>1, <1>2, TailFacts, EntriesFinite, Zenon DEF TailLaws
      <3>3. PICK a, c, v, g \in Nat : a = Fine(Tail(posix)) /\ c = Cardinality(InHand) /\ v = Fine(events) /\ g = got
        BY <1>2, <1>7, <3>2, Zenon
      <3>4. progress.scanned = (a + 1) + c + v + g
        BY <1>2, <3>1, <3>3, Zenon
      <3>5. progress.scanned = a + (c + 1) + v + g
        BY <3>4
      <3>. QED
        BY <1>1, <3>1, <3>3, <3>5, Zenon DEF Tallied
    <2>. QED
      BY <2>1, <2>2, Zenon
  <1>. QED
    BY <1>1, <1>2, <1>3, <1>4, <1>5, <1>8, EnricherBase, Zenon

\* A lookup worker ends after the walk.
LEMMA EnricherQuitsBase ==
  ASSUME Laws, Base, NEW e \in Enrichers, EnricherQuits(e)
  PROVE  Base'
  <1> DEFINE rec == [enricher[e] EXCEPT !.pc = "done"]
  <1>1. /\ enricher[e].pc = "idle" /\ posix = <<>> /\ \A w \in Walkers : walker[w].pc = "done"
        /\ enricher' = [enricher EXCEPT ![e] = rec]
        /\ ByEnricher /\ UNCHANGED <<events, posix, progress>> /\ got' = got
    BY Zenon DEF EnricherQuits, ByEnricher, store
  <1>2. /\ enricher \in [Enrichers -> HandRecs] /\ enricher[e] \in HandRecs
        /\ events \in Seq(ScanEvents) /\ Len(events) <= Channel
        /\ progress.scanned = Fine(posix) + Cardinality(InHand) + Fine(events) + got
    BY HandHas, Zenon DEF HandTyped
  <1>3. rec \in HandRecs /\ rec.pc = "done"
    BY <1>2, Zenon DEF HandRecs
  <1> HIDE DEF rec
  <1>4. Cardinality(InHand)' = Cardinality(InHand)
    BY <1>1, <1>2, <1>3, HandMoves, Zenon DEF Holds, InHandAfter
  <1>5. Tallied' /\ PosixTypes'
    BY <1>1, <1>2, <1>4, Zenon DEF Base, Types, Tallied, PosixTypes
  <1>. QED
    BY <1>1, <1>2, <1>3, <1>5, EnricherBase, Zenon

\* The row of an entry whose path leads to an object.
LEMMA EnrichedRow ==
  ASSUME Laws, FsTypes, NEW ev \in PosixRows, Lookup(ev.path) # None
  PROVE  /\ enrich_lustre(ev) \in RowEvents /\ Right(enrich_lustre(ev))
         /\ ev.path # <<>> => RowOf(enrich_lustre(ev), ev.path)
  <1> DEFINE path == ev.path
             o    == Lookup(path)
             up   == Lookup(Front(path))
             row  == enrich_lustre(ev).row
  <1>1. path \in Seq(Names) /\ ev.kind \in {"file", "dir"} /\ ev.nlink \in 0..MaxLinks
    BY Zenon DEF PosixRows
  <1>2. link \in [Places -> Objects \cup {None}]
    BY Zenon DEF FsTypes
  <1>3. o \in Objects
    BY <1>1, <1>2, LookupTypes, Zenon DEF Lookup
  <1>4. enrich_lustre(ev) =
          [error |-> FALSE, obj |-> o,
           row |-> [parent |-> IF path = <<>> THEN None ELSE up, name |-> IF path = <<>> THEN RootName ELSE Last(path),
                    kind |-> ev.kind, nlink |-> ev.nlink,
                    osts |-> IF ev.kind = "file" THEN Osts(o) ELSE {}, sm |-> <<>>]]
    BY Zenon DEF enrich_lustre
  <1>5. (IF ev.kind = "file" THEN Osts(o) ELSE {}) \in {Osts(x) : x \in Objects} \cup {{}}
    BY <1>3, Zenon
  <1>6. CASE path = <<>>
    <2>1. row = [parent |-> None, name |-> RootName, kind |-> ev.kind, nlink |-> ev.nlink,
                 osts |-> IF ev.kind = "file" THEN Osts(o) ELSE {}, sm |-> <<>>]
          /\ enrich_lustre(ev) = [error |-> FALSE, obj |-> o, row |-> row]
      BY <1>4, <1>6
    <2> HIDE DEF row, o
    <2>2. row \in ScanRows /\ row.parent = None
      BY <1>1, <1>5, <2>1, ScanAssumption, Zenon DEF ScanRows
    <2>. QED
      BY <1>3, <1>6, <2>1, <2>2 DEF RowEvents, Right
  <1>7. CASE path # <<>>
    <2>1. Len(path) \in Nat /\ Len(path) # 0 /\ Len(path) \in 1..Len(path)
      BY <1>1, <1>7
    <2>2. /\ up \in Directories /\ o = link[<<up, Last(path)>>] /\ Last(path) \in Names
          /\ up = Lookup(Parent(path))
      <3>1. /\ LookupIn(link, Prefix(path, Len(path) - 1)) \in Directories
            /\ LookupIn(link, Prefix(path, Len(path))) = link[<<LookupIn(link, Prefix(path, Len(path) - 1)), path[Len(path)]>>]
        BY <1>1, <2>1, Chain, Zenon DEF Lookup, ThroughDirectories
      <3>2. Prefix(path, Len(path)) = path /\ path[Len(path)] \in Names
        BY <1>1, <2>1, Prefixes, Zenon DEF PrefixLaws
      <3>. QED
        BY <3>1, <3>2, Zenon DEF Lookup, Front, Last, Prefix, Parent
    <2>3. row = [parent |-> up, name |-> Last(path), kind |-> ev.kind, nlink |-> ev.nlink,
                 osts |-> IF ev.kind = "file" THEN Osts(o) ELSE {}, sm |-> <<>>]
          /\ enrich_lustre(ev) = [error |-> FALSE, obj |-> o, row |-> row]
      BY <1>4, <1>7
    <2> HIDE DEF row, o, up
    <2>4. row \in ScanRows /\ row.parent = up /\ row.name = Last(path)
      BY <1>1, <1>5, <2>2, <2>3, Zenon DEF ScanRows, Directories
    <2>5. At(row) = <<up, Last(path)>> /\ At(row) \in Places
      BY <2>2, <2>4, Constants, Zenon DEF At, NoneApart
    <2>6. Right(enrich_lustre(ev))
      BY <2>2, <2>3, <2>5 DEF Right
    <2>7. enrich_lustre(ev) \in RowEvents
      BY <1>3, <2>3, <2>4 DEF RowEvents
    <2>8. RowOf(enrich_lustre(ev), path)
      BY <2>2, <2>3, <2>5 DEF RowOf, Last, o
    <2>. QED
      BY <2>6, <2>7, <2>8, Zenon
  <1>. QED
    BY <1>6, <1>7, Zenon

\* What is in hand is sent, as a row or as a failure.
LEMMA EnrichBase ==
  ASSUME Laws, Base, NEW e \in Enrichers, Enrich(e)
  PROVE  Base'
  <1> DEFINE ev == enricher[e].event
  <1>1. enricher[e].pc = "hold" /\ ByEnricher /\ UNCHANGED posix /\ got' = got
    BY Zenon DEF Enrich, ByEnricher, store
  <1>2. /\ enricher \in [Enrichers -> HandRecs] /\ ev \in PosixEvents
        /\ progress \in [scanned : Nat, errors : Nat] /\ progress.scanned \in Nat /\ progress.errors \in Nat
        /\ events \in Seq(ScanEvents) /\ Len(events) <= Channel /\ Len(events) \in Nat /\ Channel \in Nat
        /\ Fine(posix) \in Nat /\ Fine(events) \in Nat /\ got \in Nat
        /\ progress.scanned = Fine(posix) + Cardinality(InHand) + Fine(events) + got
        /\ PosixTypes /\ FsTypes
    BY <1>1, HandHas, Zenon DEF Base, Types, HandTyped
  <1>3. EnricherIdle \in HandRecs /\ EnricherIdle.pc = "idle" /\ ~Holds(EnricherIdle)
    BY Zenon DEF HandRecs, EnricherIdle, Holds
  <1>4. (ev.error => ev = Failure) /\ (~ev.error => ev \in PosixRows)
    <2>1. \A x \in PosixRows : ~x.error
      BY Zenon DEF PosixRows
    <2>2. Failure.error
      BY Zenon DEF Failure
    <2>. QED
      BY <1>2, <2>1, <2>2, Zenon DEF PosixEvents
  <1>5. Holds(enricher[e]) <=> ~ev.error
    BY <1>1, Zenon DEF Holds
  <1> HIDE DEF ev
  <1>6. ASSUME NEW x \in ScanEvents, Sends(e, x)
        PROVE  /\ enricher' = [enricher EXCEPT ![e] = EnricherIdle]
               /\ events' \in Seq(ScanEvents) /\ Len(events') <= Channel
               /\ x.error  => Fine(events)' = Fine(events)
               /\ ~x.error => Fine(events)' = Fine(events) + 1
               /\ Cardinality(InHand) \in Nat /\ Cardinality(InHand)' \in Nat
               /\ ev.error => Cardinality(InHand)' = Cardinality(InHand)
               /\ ~ev.error => Cardinality(InHand) = Cardinality(InHand)' + 1
    <2>1. enricher' = [enricher EXCEPT ![e] = EnricherIdle] /\ events' = Append(events, x) /\ Len(events) < Channel
      BY <1>6, Zenon DEF Sends
    <2>2. events' \in Seq(ScanEvents) /\ Len(events') = Len(events) + 1
      BY <1>2, <2>1
    <2>3. Len(events') <= Channel
      BY <1>2, <2>1, <2>2
    <2>4. /\ x.error  => Fine(events)' = Fine(events)
          /\ ~x.error => Fine(events)' = Fine(events) + 1
      BY <1>2, <2>1, FineAppend, Zenon
    <2>5. /\ Cardinality(InHand) \in Nat /\ Cardinality(InHand)' \in Nat
          /\ ev.error => Cardinality(InHand)' = Cardinality(InHand)
          /\ ~ev.error => Cardinality(InHand) = Cardinality(InHand)' + 1
      BY <1>2, <1>3, <1>5, <2>1, HandMoves, Zenon DEF InHandAfter
    <2>. QED
      BY <2>1, <2>2, <2>3, <2>4, <2>5, Zenon
  <1>7. Failure \in ScanEvents /\ Failure.error
    BY Zenon DEF ScanEvents, Failure
  <1>8. CASE ev.error /\ Sends(e, ev) /\ UNCHANGED progress
    BY <1>1, <1>2, <1>3, <1>4, <1>6, <1>7, <1>8, EnricherBase, Zenon DEF Tallied, PosixTypes
  <1>9. CASE ~ev.error /\ Sends(e, Failure) /\ Uncounts
    <2>1. /\ enricher' = [enricher EXCEPT ![e] = EnricherIdle] /\ events' \in Seq(ScanEvents) /\ Len(events') <= Channel
          /\ Fine(events)' = Fine(events) /\ Cardinality(InHand) = Cardinality(InHand)' + 1 /\ Cardinality(InHand)' \in Nat
      BY <1>6, <1>7, <1>9, Zenon
    <2>2. progress' = [scanned |-> progress.scanned - 1, errors |-> progress.errors + 1]
      BY <1>9, Zenon DEF Uncounts
    <2>3. PICK f, c, v, g \in Nat : f = Fine(posix) /\ c = Cardinality(InHand)' /\ v = Fine(events) /\ g = got
      BY <1>2, <2>1, Zenon
    <2>4. progress.scanned = f + (c + 1) + v + g
      BY <1>2, <2>1, <2>3, Zenon
    <2>5. progress.scanned - 1 = f + c + v + g /\ f + c + v + g \in Nat /\ progress.errors + 1 \in Nat
      BY <1>2, <2>4
    <2>6. progress'.scanned = f + c + v + g /\ progress' \in [scanned : Nat, errors : Nat]
      BY <2>2, <2>5, Zenon
    <2>7. Tallied'
      BY <1>1, <2>1, <2>3, <2>6, Zenon DEF Tallied
    <2>8. PosixTypes'
      BY <1>1, <1>2, <2>6, Zenon DEF PosixTypes
    <2>. QED
      BY <1>1, <1>3, <2>1, <2>7, <2>8, EnricherBase, Zenon
  <1>10. CASE ~ev.error /\ Lookup(ev.path) # None /\ Sends(e, enrich_lustre(ev)) /\ UNCHANGED progress
    <2>1. enrich_lustre(ev) \in RowEvents
      BY <1>2, <1>4, <1>10, EnrichedRow, Zenon
    <2>2. enrich_lustre(ev) \in ScanEvents /\ ~enrich_lustre(ev).error
      BY <2>1, Zenon DEF ScanEvents, RowEvents
    <2>3. /\ enricher' = [enricher EXCEPT ![e] = EnricherIdle] /\ events' \in Seq(ScanEvents) /\ Len(events') <= Channel
          /\ Fine(events)' = Fine(events) + 1 /\ Cardinality(InHand) = Cardinality(InHand)' + 1 /\ Cardinality(InHand)' \in Nat
      BY <1>6, <1>10, <2>2, Zenon
    <2>4. PICK f, c, v, g \in Nat : f = Fine(posix) /\ c = Cardinality(InHand)' /\ v = Fine(events) /\ g = got
      BY <1>2, <2>3, Zenon
    <2>5. progress.scanned = f + (c + 1) + v + g
      BY <1>2, <2>3, <2>4, Zenon
    <2>6. progress.scanned = f + c + (v + 1) + g
      BY <2>5
    <2>7. Tallied'
      BY <1>1, <1>10, <2>3, <2>4, <2>6, Zenon DEF Tallied
    <2>8. PosixTypes'
      BY <1>1, <1>2, <1>10, Zenon DEF PosixTypes
    <2>. QED
      BY <1>1, <1>3, <2>3, <2>7, <2>8, EnricherBase, Zenon
  <1>. QED
    BY <1>8, <1>9, <1>10, Zenon DEF Enrich, Failure, ev

-----------------------------------------------------------------------------
(* The storing of a batch.                                                 *)

\* One row of a batch.
RowStored(d, o, row) ==
  /\ Observed(d, o, row) \in ScanTables
  /\ \A x \in Objects : Observed(d, o, row).entry[x] = IF x = o THEN row ELSE d.entry[x]
  /\ \A p \in Places : Observed(d, o, row).edge[p] = IF row.parent # None /\ At(row) = p THEN o ELSE d.edge[p]

\* It changes one row and one edge.
LEMMA ObservedFacts ==
  ASSUME NEW d \in ScanTables, NEW o \in Objects, NEW row \in ScanRows
  PROVE  RowStored(d, o, row)
  <1> USE DEF RowStored
  <1> DEFINE d1 == [d EXCEPT !.entry[o] = row]
             d2 == [d1 EXCEPT !.stripe[o] = row.osts]
             d3 == [d2 EXCEPT !.edge[At(row)] = o]
  <1>1. row.osts \in Stripes /\ (row.parent # None => At(row) \in Places)
    BY Constants, Zenon DEF ScanRows, Stripes, Directories, At, NoneApart
  <1>2. /\ d1 \in ScanTables /\ d1.edge = d.edge
        /\ \A x \in Objects : d1.entry[x] = IF x = o THEN row ELSE d.entry[x]
    BY Zenon DEF ScanTables
  <1> HIDE DEF d1
  <1>3. d2 \in ScanTables /\ d2.edge = d1.edge /\ d2.entry = d1.entry
    BY <1>1, <1>2, Zenon DEF ScanTables
  <1> HIDE DEF d2
  <1>4. At(row) \in Places =>
          /\ d3 \in ScanTables /\ d3.entry = d2.entry
          /\ \A p \in Places : d3.edge[p] = IF p = At(row) THEN o ELSE d2.edge[p]
    <2> HIDE DEF Places
    <2> DEFINE q == At(row)
    <2> HIDE DEF q
    <2>1. q \in Places =>
          /\ [d2 EXCEPT !.edge[q] = o] \in ScanTables /\ [d2 EXCEPT !.edge[q] = o].entry = d2.entry
          /\ \A p \in Places : [d2 EXCEPT !.edge[q] = o].edge[p] = IF p = q THEN o ELSE d2.edge[p]
      BY <1>3, Zenon DEF ScanTables
    <2>. QED
      BY <2>1, Zenon DEF q
  <1>5. Observed(d, o, row) = IF row.parent = None THEN d2 ELSE d3
    BY Zenon DEF Observed, upsert_scoped_entry_tx, upsert_scoped_namespace_edge, d1, d2
  <1> HIDE DEF d3
  <1>. QED
    BY <1>1, <1>2, <1>3, <1>4, <1>5, ZenonT(30)

\* One row after the other.
Stores(d, rows, k, f) ==
  f = [i \in 0..k |-> IF i = 0 THEN d ELSE Observed(f[i - 1], rows[i].obj, rows[i].row)]

\* Every batch can be stored.
LEMMA StoresExists ==
  ASSUME Laws, NEW d, NEW rows, NEW n \in Nat
  PROVE  \E f : Stores(d, rows, n, f)
  <1> DEFINE T == {k \in Nat : \E f : Stores(d, rows, k, f)}
  <1>1. 0 \in T
    <2>1. \A i \in 0..0 : i = 0
      OBVIOUS
    <2>2. Stores(d, rows, 0, [i \in 0..0 |-> d])
      BY <2>1, Zenon DEF Stores
    <2>. QED
      BY <2>2, Zenon
  <1>2. ASSUME NEW k \in Nat, k \in T PROVE k + 1 \in T
    <2>1. PICK f : Stores(d, rows, k, f)
      BY <1>2, Zenon
    <2> DEFINE N(h, i) == IF i = 0 THEN d ELSE Observed(h[i - 1], rows[i].obj, rows[i].row)
               g == [i \in 0..(k + 1) |-> IF i <= k THEN f[i] ELSE N(f, k + 1)]
    <2>2. \A i \in 0..k : f[i] = N(f, i)
      BY <2>1, Zenon DEF Stores
    <2>3. \A i \in 0..k : g[i] = f[i]
      <3> HIDE DEF N
      <3>. QED
        OBVIOUS
    <2>4. g[k + 1] = N(f, k + 1)
      <3> HIDE DEF N
      <3>. QED
        OBVIOUS
    <2>5. g = [i \in 0..(k + 1) |-> g[i]]
      BY Zenon
    <2> HIDE DEF g
    <2>6. ASSUME NEW i \in 0..(k + 1) PROVE g[i] = N(g, i)
      <3>1. i = 0 \/ i - 1 \in 0..k
        OBVIOUS
      <3>2. i = 0 \/ g[i - 1] = f[i - 1]
        BY <2>3, <3>1, Zenon
      <3>3. N(g, i) = N(f, i)
        BY <3>2, Zenon
      <3>4. i \in 0..k \/ i = k + 1
        OBVIOUS
      <3> HIDE DEF N
      <3>. QED
        BY <2>2, <2>3, <2>4, <3>3, <3>4, Zenon
    <2>7. Stores(d, rows, k + 1, g)
      <3>1. g = [i \in 0..(k + 1) |-> N(g, i)]
        <4> HIDE DEF N
        <4>. QED
          BY <2>5, <2>6, Zenon
      <3>. QED
        BY <3>1, Zenon DEF Stores
    <2>8. k + 1 \in Nat
      OBVIOUS
    <2>. QED
      BY <2>7, <2>8, Zenon
  <1> HIDE DEF T
  <1>3. Nat \subseteq T
    BY <1>1, <1>2, Induction, Zenon
  <1>. QED
    BY <1>3, Zenon DEF T

\* What a batch says of a place: every row there has this object.
Agree(rows, p, o) == \A j \in 1..Len(rows) : rows[j].row.parent # None /\ At(rows[j].row) = p => rows[j].obj = o
Places1(rows, n) == {At(rows[j].row) : j \in {i \in 1..n : rows[i].row.parent # None}}

\* A batch writes its rows and edges and takes no row away.
BatchStores(d, rows) ==
  LET new == upsert_lustre_scan_batch(d, rows)
  IN /\ new \in ScanTables
     /\ \A o \in Objects : d.entry[o] # None => new.entry[o] # None
     /\ \A j \in 1..Len(rows) : new.entry[rows[j].obj] # None
     /\ \A p \in Places, o \in Objects :
          Agree(rows, p, o) /\ (d.edge[p] = o \/ p \in Places1(rows, Len(rows))) => new.edge[p] = o

\* So it is for every batch.
LEMMA BatchFacts ==
  ASSUME Laws, NEW d \in ScanTables, NEW rows \in Seq(RowEvents)
  PROVE  BatchStores(d, rows)
  <1> USE DEF BatchStores
  <1> DEFINE L == Len(rows)
             D(f) == Stores(d, rows, L, f)
             at == CHOOSE f : D(f)
             P(x, i) ==
               /\ x \in ScanTables
               /\ \A o \in Objects : d.entry[o] # None => x.entry[o] # None
               /\ \A j \in 1..i : x.entry[rows[j].obj] # None
               /\ \A p \in Places, o \in Objects :
                    Agree(rows, p, o) /\ (d.edge[p] = o \/ p \in Places1(rows, i)) => x.edge[p] = o
  <1>1. upsert_lustre_scan_batch(d, rows) = at[L]
    BY Zenon DEF upsert_lustre_scan_batch, Stores
  <1>2. L \in Nat
    OBVIOUS
  <1>3. D(at)
    <2>1. \E f : D(f)
      BY <1>2, StoresExists, Zenon
    <2> HIDE DEF D
    <2>. QED
      BY <2>1, Zenon
  <1> HIDE DEF at
  <1>4. at[0] = d /\ \A i \in 1..L : at[i] = Observed(at[i - 1], rows[i].obj, rows[i].row)
    <2>1. at = [i \in 0..L |-> IF i = 0 THEN d ELSE Observed(at[i - 1], rows[i].obj, rows[i].row)]
      BY <1>3, Zenon DEF Stores
    <2> HIDE DEF D
    <2>2. \A i \in 0..L : at[i] = IF i = 0 THEN d ELSE Observed(at[i - 1], rows[i].obj, rows[i].row)
      BY <2>1, Zenon
    <2>3. 0 \in 0..L /\ \A i \in 1..L : i \in 0..L /\ i # 0
      BY <1>2
    <2>. QED
      BY <2>2, <2>3, Zenon
  <1> DEFINE T == {i \in Nat : i <= L => P(at[i], i)}
  <1>5. 0 \in T
    <2>1. \A j \in 1..0 : FALSE
      OBVIOUS
    <2>2. Places1(rows, 0) = {}
      BY <2>1, Zenon DEF Places1
    <2>3. P(at[0], 0)
      BY <1>4, <2>1, <2>2, Zenon
    <2> HIDE DEF P
    <2>. QED
      BY <2>3, Zenon
  <1>6. ASSUME NEW i \in Nat, i \in T PROVE i + 1 \in T
    <2> SUFFICES ASSUME i + 1 <= L PROVE P(at[i + 1], i + 1)
      <3> HIDE DEF P
      <3>. QED
        OBVIOUS
    <2>1. i + 1 \in 1..L /\ (i + 1) - 1 = i /\ i <= L
      BY <1>2
    <2>2. P(at[i], i)
      <3> HIDE DEF P
      <3>. QED
        BY <1>6, <2>1, Zenon
    <2>3. PICK x, y, r : x = at[i] /\ y = at[i + 1] /\ r = rows[i + 1]
      BY Zenon
    <2>4. r \in RowEvents
      BY <2>1, <2>3
    <2>5. r.obj \in Objects /\ r.row \in ScanRows /\ r.row # None
      BY <2>4, Constants, Zenon DEF RowEvents, NoneApart
    <2>6. y = Observed(x, r.obj, r.row)
      BY <1>4, <2>1, <2>3, Zenon
    <2>7. /\ y \in ScanTables
          /\ \A o \in Objects : y.entry[o] = IF o = r.obj THEN r.row ELSE x.entry[o]
          /\ \A p \in Places : y.edge[p] = IF r.row.parent # None /\ At(r.row) = p THEN r.obj ELSE x.edge[p]
      BY <2>2, <2>3, <2>5, <2>6, ObservedFacts DEF RowStored
    <2>8. \A o \in Objects : d.entry[o] # None => y.entry[o] # None
      BY <2>2, <2>3, <2>5, <2>7, Zenon
    <2>9. \A j \in 1..(i + 1) : y.entry[rows[j].obj] # None
      <3> SUFFICES ASSUME NEW j \in 1..(i + 1) PROVE y.entry[rows[j].obj] # None
        BY Zenon
      <3>1. rows[j].obj \in Objects
        <4>1. j \in 1..L
          BY <1>2, <2>1
        <4>2. rows[j] \in RowEvents
          BY <4>1
        <4>. QED
          BY <4>2, Zenon DEF RowEvents
      <3>2. j \in 1..i \/ j = i + 1
        OBVIOUS
      <3>3. j \in 1..i => x.entry[rows[j].obj] # None
        BY <2>2, <2>3, Zenon
      <3>. QED
        BY <2>3, <2>5, <2>7, <3>1, <3>2, <3>3, Zenon
    <2>10. ASSUME NEW p \in Places, NEW o \in Objects, Agree(rows, p, o), d.edge[p] = o \/ p \in Places1(rows, i + 1)
           PROVE  y.edge[p] = o
      <3>1. p \in Places1(rows, i + 1) => p \in Places1(rows, i) \/ (r.row.parent # None /\ At(r.row) = p)
        BY <2>3 DEF Places1
      <3>2. r.row.parent # None /\ At(r.row) = p => r.obj = o
        BY <2>1, <2>3, <2>10, Zenon DEF Agree
      <3>3. d.edge[p] = o \/ p \in Places1(rows, i) => x.edge[p] = o
        BY <2>2, <2>3, <2>10, Zenon
      <3>. QED
        BY <2>7, <2>10, <3>1, <3>2, <3>3, Zenon
    <2>. QED
      BY <2>3, <2>7, <2>8, <2>9, <2>10, Zenon
  <1>7. P(at[L], L)
    <2> HIDE DEF P
    <2>1. L \in T
      <3> HIDE DEF T
      <3>1. Nat \subseteq T
        BY <1>5, <1>6, Induction, Zenon
      <3>. QED
        BY <1>2, <3>1, Zenon
    <2>. QED
      BY <1>2, <2>1
  <1>. QED
    BY <1>1, <1>7, Zenon

-----------------------------------------------------------------------------
(* The storing task and the users keep types, queue and tally.             *)

\* A new walk.
FreshWalk ==
  /\ Fresh.work \in Seq(Seq(Names)) /\ Len(Fresh.work) = 1 /\ Fresh.work[1] = <<>> /\ 1 \in DOMAIN Fresh.work
  /\ Fresh.open = TRUE /\ Fresh.pending = 1
  /\ Fresh.walker \in [Walkers -> WalkerRecs] /\ \A w \in Walkers : Fresh.walker[w].pc = "idle"
  /\ Fresh.enricher \in [Enrichers -> HandRecs] /\ \A e \in Enrichers : Fresh.enricher[e].pc = "idle"
  /\ NoProgress \in [scanned : Nat, errors : Nat] /\ NoProgress.scanned = 0 /\ NoProgress.errors = 0
  /\ Fine(<<>>) = 0 /\ Cardinality({}) = 0

\* So it is for the walk that Begins starts.
LEMMA FreshFacts ==
  ASSUME Laws
  PROVE  FreshWalk
  <1> USE DEF FreshWalk
  <1>1. Fresh.work = <<<<>>>> /\ Fresh.open = TRUE /\ Fresh.pending = 1
        /\ Fresh.walker = [w \in Walkers |-> WalkerIdle] /\ Fresh.enricher = [e \in Enrichers |-> EnricherIdle]
    BY Zenon DEF Fresh
  <1>2. <<>> \in Seq(Names)
    OBVIOUS
  <1>3. <<<<>>>> \in Seq(Seq(Names)) /\ Len(<<<<>>>>) = 1 /\ <<<<>>>>[1] = <<>> /\ 1 \in DOMAIN <<<<>>>>
    BY <1>2
  <1>4. WalkerIdle \in WalkerRecs /\ WalkerIdle.pc = "idle"
    BY <1>2, Zenon DEF WalkerIdle, WalkerRecs
  <1>5. EnricherIdle \in HandRecs /\ EnricherIdle.pc = "idle"
    BY Zenon DEF EnricherIdle, HandRecs
  <1>6. NoProgress \in [scanned : Nat, errors : Nat] /\ NoProgress.scanned = 0 /\ NoProgress.errors = 0
    BY Zenon DEF NoProgress
  <1>7. Cardinality({}) = 0
    BY Zenon DEF Laws
  <1>8. Fine(<<>>) = 0
    BY <1>7 DEF Fine
  <1>9. /\ Fresh.walker \in [Walkers -> WalkerRecs] /\ \A w \in Walkers : Fresh.walker[w].pc = "idle"
        /\ Fresh.enricher \in [Enrichers -> HandRecs] /\ \A e \in Enrichers : Fresh.enricher[e].pc = "idle"
    BY <1>1, <1>4, <1>5
  <1>. QED
    BY <1>1, <1>3, <1>6, <1>7, <1>8, <1>9, Zenon

\* An empty catalog.
LEMMA EmptyTables == Empty \in ScanTables /\ Rows(Empty) = {}
  BY Zenon DEF Empty, ScanTables, Stripes, Rows

\* A scan starts with nothing in the channels.
LEMMA BeginsBase ==
  ASSUME Laws, FsTypes', TaskTypes', Begins, db' \in ScanTables
  PROVE  Base'
  <1>1. /\ work' = Fresh.work /\ open' = Fresh.open /\ pending' = Fresh.pending /\ walker' = Fresh.walker
        /\ enricher' = Fresh.enricher /\ posix' = <<>> /\ events' = <<>> /\ batch' = <<>>
        /\ got' = 0 /\ failures' = 0 /\ progress' = NoProgress
    BY Zenon DEF Begins
  <1>2. WalkTypes'
    <2>1. work' \in Seq(Seq(Names)) /\ open' \in BOOLEAN /\ walker' \in [Walkers -> WalkerRecs]
      BY <1>1, FreshFacts, Zenon DEF FreshWalk
    <2>2. pending' \in Nat
      BY <1>1, FreshFacts DEF FreshWalk
    <2>3. \A w \in Walkers : walker'[w].pc = "idle"
      BY <1>1, FreshFacts, Zenon DEF FreshWalk
    <2>. QED
      BY <2>1, <2>2, <2>3, Zenon DEF WalkTypes
  <1>3. PosixTypes' /\ LookupTypesOK' /\ StoreTypes'
    BY <1>1, ScanAssumption, FreshFacts DEF PosixTypes, LookupTypesOK, StoreTypes, FreshWalk
  <1>4. Busy' = {} /\ InHand' = {}
    BY <1>1, FreshFacts, Zenon DEF Busy, InHand, FreshWalk
  <1>5. Queued'
    <2>1. Cardinality(Busy)' = 0
      BY <1>4, FreshFacts, Zenon DEF FreshWalk
    <2>2. Len(work') = 1 /\ open' = TRUE /\ pending' = 1
      BY <1>1, FreshFacts, Zenon DEF FreshWalk
    <2>3. /\ \A w \in Walkers : walker'[w].pc = "idle"
          /\ \A e \in Enrichers : enricher'[e].pc = "idle"
      BY <1>1, FreshFacts, Zenon DEF FreshWalk
    <2>. QED
      BY <2>1, <2>2, <2>3 DEF Queued
  <1>6. Tallied'
    BY <1>1, <1>4, FreshFacts DEF Tallied, FreshWalk
  <1>. QED
    BY <1>2, <1>3, <1>5, <1>6, Zenon DEF Base, Types

\* The initial states.
LEMMA InitBase ==
  ASSUME Laws, Init
  PROVE  Base
  <1>1. /\ work = Fresh.work /\ open = Fresh.open /\ pending = Fresh.pending /\ walker = Fresh.walker
        /\ enricher = Fresh.enricher /\ posix = <<>> /\ events = <<>> /\ batch = <<>>
        /\ got = 0 /\ failures = 0 /\ progress = NoProgress /\ db = Empty
    BY Zenon DEF Init
  <1>2. WalkTypes
    <2>1. work \in Seq(Seq(Names)) /\ open \in BOOLEAN /\ walker \in [Walkers -> WalkerRecs]
      BY <1>1, FreshFacts, Zenon DEF FreshWalk
    <2>2. pending \in Nat
      BY <1>1, FreshFacts DEF FreshWalk
    <2>3. \A w \in Walkers : walker[w].pc = "idle"
      BY <1>1, FreshFacts, Zenon DEF FreshWalk
    <2>. QED
      BY <2>1, <2>2, <2>3, Zenon DEF WalkTypes
  <1>3. PosixTypes /\ LookupTypesOK /\ StoreTypes
    BY <1>1, ScanAssumption, FreshFacts, EmptyTables DEF PosixTypes, LookupTypesOK, StoreTypes, FreshWalk
  <1>4. Busy = {} /\ InHand = {}
    BY <1>1, FreshFacts, Zenon DEF Busy, InHand, FreshWalk
  <1>5. Queued
    <2>1. Cardinality(Busy) = 0
      BY <1>4, FreshFacts, Zenon DEF FreshWalk
    <2>2. Len(work) = 1 /\ open = TRUE /\ pending = 1
      BY <1>1, FreshFacts, Zenon DEF FreshWalk
    <2>3. /\ \A w \in Walkers : walker[w].pc = "idle"
          /\ \A e \in Enrichers : enricher[e].pc = "idle"
      BY <1>1, FreshFacts, Zenon DEF FreshWalk
    <2>. QED
      BY <2>1, <2>2, <2>3 DEF Queued
  <1>6. Tallied
    BY <1>1, <1>4, FreshFacts DEF Tallied, FreshWalk
  <1>7. FsTypes /\ TaskTypes
    BY ScanAssumption, Zenon DEF Init, FsTypes, TaskTypes
  <1>. QED
    BY <1>2, <1>3, <1>5, <1>6, <1>7, Zenon DEF Base, Types

\* What the storing task's steps have in common.
LEMMA TaskBase ==
  ASSUME Laws, Base, ByTask, TaskTypes', StoreTypes', events' \in Seq(ScanEvents), Len(events') <= Channel,
         Fine(events)' + got' = Fine(events) + got
  PROVE  Base'
  <1>1. UNCHANGED <<world, link, work, open, pending, walker, posix, enricher, progress>>
    BY Zenon DEF ByTask, walk
  <1>2. FsTypes' /\ WalkTypes' /\ PosixTypes'
    BY <1>1, Zenon DEF Base, Types, FsTypes, WalkTypes, PosixTypes
  <1>3. LookupTypesOK'
    BY <1>1, Zenon DEF Base, Types, LookupTypesOK
  <1>4. Queued'
    BY <1>1, Zenon DEF Base, Queued, Busy
  <1>5. Tallied'
    <2>1. progress.scanned = Fine(posix) + Cardinality(InHand) + Fine(events) + got
      BY Zenon DEF Base, Tallied
    <2>2. Cardinality(InHand) \in Nat /\ Cardinality(InHand)' = Cardinality(InHand)
      <3>1. InHand' = InHand /\ InHand \subseteq Enrichers
        BY <1>1, Zenon DEF InHand
      <3>. QED
        BY <3>1, ScanAssumption, FiniteLaw, Zenon
    <2>3. Fine(posix) \in Nat /\ Fine(events) \in Nat /\ Fine(events)' \in Nat /\ got \in Nat /\ got' \in Nat
      BY EntriesFinite, Zenon DEF Base, Types, PosixTypes, LookupTypesOK, StoreTypes
    <2>4. PICK f, c, v, g, u, h \in Nat :
            /\ f = Fine(posix) /\ c = Cardinality(InHand) /\ v = Fine(events) /\ g = got
            /\ u = Fine(events)' /\ h = got'
      BY <2>2, <2>3, Zenon
    <2>5. progress.scanned = f + c + v + g /\ u + h = v + g
      BY <2>1, <2>4, Zenon
    <2>6. progress.scanned = f + c + u + h
      BY <2>5
    <2>. QED
      BY <1>1, <2>2, <2>4, <2>6, Zenon DEF Tallied
  <1>. QED
    BY <1>2, <1>3, <1>4, <1>5, Zenon DEF Base, Types

\* An event is received.
LEMMA ReceiveBase ==
  ASSUME Laws, Base, Receive
  PROVE  Base'
  <1>1. events # <<>> /\ Len(batch) < BatchMax /\ events' = Tail(events) /\ ByTask /\ UNCHANGED <<task, db>>
    BY Zenon DEF Receive
  <1>2. /\ events \in Seq(ScanEvents) /\ Len(events) <= Channel /\ StoreTypes /\ TaskTypes
    BY Zenon DEF Base, Types, LookupTypesOK
  <1>3. /\ db \in ScanTables /\ batch \in Seq(RowEvents) /\ got \in Nat /\ failures \in Nat /\ Len(batch) \in Nat
        /\ BatchMax \in Nat /\ Channel \in Nat
    BY <1>2, ScanAssumption DEF StoreTypes
  <1>4. Head(events) \in ScanEvents /\ Tail(events) \in Seq(ScanEvents) /\ Len(events) \in Nat /\ Len(Tail(events)) = Len(events) - 1
    BY <1>1, <1>2, TailFacts, Zenon DEF TailLaws
  <1>5. Len(events') <= Channel
    BY <1>1, <1>2, <1>3, <1>4
  <1>6. /\ Head(events).error  => Fine(events) = Fine(events)'
        /\ ~Head(events).error => Fine(events) = Fine(events)' + 1
        /\ Fine(events)' \in Nat
    BY <1>1, <1>2, <1>4, FineTail, EntriesFinite, Zenon DEF TailCounts
  <1>7. CASE Head(events).error
    <2>1. failures' = failures + 1 /\ UNCHANGED <<batch, got>>
      BY <1>7, Zenon DEF Receive
    <2>2. StoreTypes' /\ TaskTypes'
      BY <1>1, <1>2, <1>3, <2>1 DEF StoreTypes, TaskTypes
    <2>. QED
      BY <1>1, <1>4, <1>5, <1>6, <1>7, <2>1, <2>2, TaskBase, Zenon
  <1>8. CASE ~Head(events).error
    <2>1. batch' = Append(batch, Head(events)) /\ got' = got + 1 /\ UNCHANGED failures
      BY <1>8, Zenon DEF Receive
    <2>2. Head(events) \in RowEvents
      BY <1>4, <1>8 DEF ScanEvents, Failure
    <2>3. batch' \in Seq(RowEvents) /\ Len(batch') <= BatchMax /\ got' \in Nat
      BY <1>1, <1>3, <2>1, <2>2
    <2>4. StoreTypes' /\ TaskTypes'
      BY <1>1, <1>2, <2>1, <2>3, Zenon DEF StoreTypes, TaskTypes
    <2>5. Fine(events)' + got' = Fine(events) + got
      BY <1>3, <1>6, <1>8, <2>1
    <2>. QED
      BY <1>1, <1>4, <1>5, <2>4, <2>5, TaskBase, Zenon
  <1>. QED
    BY <1>7, <1>8, Zenon

\* A batch is stored, or not.
LEMMA PersistBase ==
  ASSUME Laws, Base, Persist \/ PersistFails \/ End
  PROVE  Base'
  <1>1. events \in Seq(ScanEvents) /\ Len(events) <= Channel /\ StoreTypes /\ TaskTypes
    BY Zenon DEF Base, Types, LookupTypesOK
  <1>2. ByTask /\ UNCHANGED <<events, got>>
    BY Zenon DEF Persist, PersistFails, End, store
  <1>3. <<>> \in Seq(RowEvents) /\ Len(<<>>) <= BatchMax
    BY ScanAssumption
  <1>4. CASE Persist
    <2>1. db' = upsert_lustre_scan_batch(db, batch) /\ batch' = <<>> /\ UNCHANGED <<task, failures>>
      BY <1>4, Zenon DEF Persist
    <2>2. db' \in ScanTables
      BY <1>1, <2>1, BatchFacts, Zenon DEF StoreTypes, BatchStores
    <2>3. StoreTypes' /\ TaskTypes'
      BY <1>1, <1>2, <1>3, <2>1, <2>2, Zenon DEF StoreTypes, TaskTypes
    <2>. QED
      BY <1>1, <1>2, <2>3, TaskBase, Zenon
  <1>5. CASE PersistFails
    <2>1. /\ UNCHANGED db /\ (batch' = batch \/ batch' = <<>>)
          /\ failures' = failures \/ failures' = failures + 1
          /\ task' = "start" \/ task' = task
      BY <1>5, Zenon DEF PersistFails
    <2>2. failures' \in Nat
      BY <1>1, <2>1 DEF StoreTypes
    <2>3. StoreTypes'
      BY <1>1, <1>2, <1>3, <2>1, <2>2, Zenon DEF StoreTypes
    <2>4. TaskTypes'
      BY <1>1, <2>1, Zenon DEF TaskTypes
    <2>. QED
      BY <1>1, <1>2, <2>3, <2>4, TaskBase, Zenon
  <1>6. CASE End
    BY <1>1, <1>2, <1>6, TaskBase, Zenon DEF End, store, Outcome, StoreTypes, TaskTypes
  <1>. QED
    BY <1>4, <1>5, <1>6, Zenon

\* A user moves or removes something.
UserEffect ==
  /\ Base'
  /\ UNCHANGED <<world, task, work, open, pending, walker, posix, enricher, events, db, batch, got, failures, progress, partly>>
  /\ link' \in [Places -> Objects \cup {None}] /\ moved \subseteq moved'
  /\ \A p \in Places : p \notin moved' => link'[p] = link[p]

\* This keeps the invariant.
LEMMA UserBase ==
  ASSUME Base, (\E p, q \in Places : Rename(p, q)) \/ (\E p \in Places : Unlink(p))
  PROVE  UserEffect
  <1> USE DEF UserEffect
  <1>1. link \in [Places -> Objects \cup {None}]
    BY Zenon DEF Base, Types, FsTypes
  <1>2. /\ UNCHANGED <<world, task, work, open, pending, walker, posix, enricher, events, db, batch, got, failures, progress, partly>>
        /\ moved \subseteq moved'
    BY Zenon DEF Rename, Unlink, Changes, walk, lookup, store
  <1>3. /\ link' \in [Places -> Objects \cup {None}]
        /\ \A p \in Places : p \notin moved' => link'[p] = link[p]
    <2>1. ASSUME NEW p \in Places, NEW q \in Places, Rename(p, q)
          PROVE  /\ link' \in [Places -> Objects \cup {None}]
                 /\ \A r \in Places : r \notin moved' => link'[r] = link[r]
      BY <1>1, <2>1, Zenon DEF Rename, Changes
    <2>2. ASSUME NEW p \in Places, Unlink(p)
          PROVE  /\ link' \in [Places -> Objects \cup {None}]
                 /\ \A r \in Places : r \notin moved' => link'[r] = link[r]
      BY <1>1, <2>2, Zenon DEF Unlink, Changes
    <2>. QED
      BY <2>1, <2>2, Zenon
  <1>4. Types'
    BY <1>2, <1>3, ZenonT(30) DEF Base, Types, FsTypes, WalkTypes, PosixTypes, LookupTypesOK, StoreTypes, TaskTypes
  <1>5. Queued' /\ Tallied'
    BY <1>2, Zenon DEF Base, Queued, Tallied, Busy, InHand
  <1>. QED
    BY <1>2, <1>3, <1>4, <1>5, Zenon DEF Base

\* The count, the start and a crash.
LEMMA RestartBase ==
  ASSUME Laws, Base, Count \/ Start \/ Crash
  PROVE  Base'
  <1>1. CASE Count
    BY <1>1, Zenon DEF Count, walk, lookup, store, Base, Types, FsTypes, WalkTypes, PosixTypes, LookupTypesOK, StoreTypes,
       TaskTypes, Queued, Tallied, Busy, InHand
  <1>2. CASE Start \/ Crash
    BY <1>2, BeginsBase, Zenon DEF Start, Crash, Base, Types, FsTypes, StoreTypes, TaskTypes
  <1>. QED
    BY <1>1, <1>2, Zenon

\* Types, queue and tally are an invariant by themselves.
LEMMA BaseNext ==
  ASSUME Laws, Base, [Next]_vars
  PROVE  Base'
  <1>1. CASE UNCHANGED vars
    BY <1>1, Zenon DEF vars, walk, lookup, store, Base, Types, FsTypes, WalkTypes, PosixTypes, LookupTypesOK, StoreTypes,
       TaskTypes, Queued, Tallied, Busy, InHand
  <1>2. ASSUME NEW w \in Walkers, Walk(w) PROVE Base'
    BY <1>2, TakeBase, QuitBase, EmitSelfBase, ReadDirBase, NextEntryBase, ReadFailsBase, EmitEntryBase, FinishBase, Zenon
       DEF Walk
  <1>3. ASSUME NEW e \in Enrichers, LookUp(e) PROVE Base'
    BY <1>3, TakeEventBase, EnricherQuitsBase, EnrichBase, Zenon DEF LookUp
  <1>4. ASSUME Task PROVE Base'
    BY <1>4, RestartBase, ReceiveBase, PersistBase, Zenon DEF Task
  <1>. QED
    BY <1>1, <1>2, <1>3, <1>4, PersistBase, RestartBase, UserBase, Zenon DEF Next, UserEffect

\* The invariant implies the types.
LEMMA BaseTypes ==
  ASSUME Base
  PROVE  TypeOK
  <1>1. CatalogOK(db)
    <2>1. db \in ScanTables
      BY Zenon DEF Base, Types, StoreTypes
    <2>2. \A o \in Objects : db.entry[o] # None => db.entry[o] \in ScanRows
      BY <2>1, Zenon DEF ScanTables
    <2>3. \A row \in ScanRows : RowOK(row)
      <3> SUFFICES ASSUME NEW row \in ScanRows PROVE RowOK(row)
        BY Zenon
      <3>1. /\ row.parent \in Dirs \cup {Root, None} /\ row.name \in Names /\ row.kind \in {"file", "dir"}
            /\ row.nlink \in 0..MaxLinks /\ row.sm = <<>>
        BY Zenon DEF ScanRows
      <3>2. DOMAIN row.sm = {}
        BY <3>1
      <3>. QED
        BY <3>1, <3>2, Zenon DEF RowOK, StatusOK
    <2>4. \A p \in Places : db.edge[p] \in Objects \cup {None}
      BY <2>1, Zenon DEF ScanTables
    <2>5. \A o \in Objects : db.removed[o] = None
      BY <2>1, Zenon DEF ScanTables
    <2>. QED
      BY <2>2, <2>3, <2>4, <2>5, Zenon DEF CatalogOK
  <1>2. progress \in [scanned : Nat, errors : Nat] /\ got \in Nat
    BY Zenon DEF Base, Types, PosixTypes, StoreTypes
  <1>3. progress.scanned \in Nat /\ progress.errors \in Nat
    BY <1>2, Zenon
  <1>4. Len(posix) <= Channel /\ Len(events) <= Channel /\ Len(batch) <= BatchMax
    BY Zenon DEF Base, Types, PosixTypes, LookupTypesOK, StoreTypes
  <1>5. pending = Len(work) + Cardinality(Busy)
    BY Zenon DEF Base, Queued
  <1>6. task \in {"count", "start", "drain", "ingest", "Completed", "Failed"}
    BY Zenon DEF Base, Types, TaskTypes
  <1>. QED
    BY <1>1, <1>2, <1>3, <1>4, <1>5, <1>6, Zenon DEF TypeOK

\* The invariant implies that scanned is what was received.
LEMMA BaseReceived ==
  ASSUME Laws, Base
  PROVE  ScannedIsReceived
  <1> SUFFICES ASSUME Drained PROVE progress.scanned = got
    BY Zenon DEF ScannedIsReceived
  <1>1. events = <<>> /\ \A e \in Enrichers : enricher[e].pc = "done"
    BY Zenon DEF Drained
  <1>2. PICK e \in Enrichers : enricher[e].pc = "done"
    BY <1>1, ScanAssumption, Zenon
  <1>3. posix = <<>>
    BY <1>2, Zenon DEF Base, Queued
  <1>4. InHand = {}
    BY <1>1, Zenon DEF InHand
  <1>5. Fine(posix) = 0 /\ Fine(events) = 0 /\ Cardinality(InHand) = 0
    BY <1>1, <1>3, <1>4, FreshFacts, Zenon DEF FreshWalk
  <1>6. progress.scanned = Fine(posix) + Cardinality(InHand) + Fine(events) + got
    BY Zenon DEF Base, Tallied
  <1>7. got \in Nat
    BY Zenon DEF Base, Types, StoreTypes
  <1>8. progress.scanned = 0 + 0 + 0 + got
    BY <1>5, <1>6, Zenon
  <1>. QED
    BY <1>7, <1>8

-----------------------------------------------------------------------------
(* Paths that stay.                                                        *)

\* Two paths of one more name each.
LEMMA AppendOnce ==
  ASSUME NEW p \in Seq(Names), NEW q \in Seq(Names), NEW m \in Names, NEW n \in Names, Append(p, m) = Append(q, n)
  PROVE  p = q /\ m = n
  OBVIOUS

\* The places and prefixes of a path that stays.
PlacesAlong(path, i) ==
  LET up == Lookup(Prefix(path, i - 1))
  IN /\ up \in Directories /\ path[i] \in Names /\ <<up, path[i]>> \in Places /\ <<up, path[i]>> \notin moved
     /\ link[<<up, path[i]>>] = Lookup(Prefix(path, i)) /\ Lookup(Prefix(path, i)) # None
     /\ StaysIn(link, moved, Prefix(path, i - 1))
     /\ Prefix(path, i - 1) \in Seq(Names) /\ Prefix(path, i) = Append(Prefix(path, i - 1), path[i])
     /\ Len(Prefix(path, i - 1)) = i - 1 /\ ~Ignored(path[i])
     /\ i < Len(path) => Lookup(Prefix(path, i)) \in Directories

\* They are as follows at every name of the path.
LEMMA DuePath ==
  ASSUME Laws, FsTypes, NEW path \in Seq(Names), Due1(path), NEW i \in 1..Len(path)
  PROVE  PlacesAlong(path, i)
  <1> USE DEF PlacesAlong
  <1> DEFINE up == Lookup(Prefix(path, i - 1))
             q  == Prefix(path, i - 1)
  <1>1. StaysIn(link, moved, path) /\ Wanted(path)
    BY Zenon DEF Due1
  <1>2. LookupIn(link, path) # None
    BY <1>1, Zenon DEF StaysIn
  <1>3. /\ up \in Directories /\ link[<<up, path[i]>>] = Lookup(Prefix(path, i)) /\ Lookup(Prefix(path, i)) # None
        /\ \A j \in 1..Len(path) : LookupIn(link, Prefix(path, j - 1)) \in Directories
    BY <1>2, Chain, Zenon DEF Lookup, ThroughDirectories
  <1>4. i - 1 \in 0..Len(path) /\ Len(path) \in Nat
    OBVIOUS
  <1>5. /\ path[i] \in Names /\ q \in Seq(Names) /\ Prefix(path, i) = Append(q, path[i]) /\ Len(q) = i - 1
        /\ \A j \in 1..(i - 1) : q[j] = path[j]
        /\ \A j \in 0..(i - 1) : Prefix(q, j) = Prefix(path, j)
    BY <1>4, Prefixes, Zenon DEF PrefixLaws
  <1>6. <<up, path[i]>> \in Places
    BY <1>3, <1>5, Constants, Zenon DEF NoneApart
  <1>7. <<up, path[i]>> \notin moved
    BY <1>1, Zenon DEF StaysIn, Lookup
  <1>8. ~Ignored(path[i])
    BY <1>1, Zenon DEF Wanted
  <1>9. StaysIn(link, moved, q)
    <2>1. LookupIn(link, q) # None
      BY <1>3, Constants, Zenon DEF Lookup, NoneApart
    <2>2. ASSUME NEW j \in 1..Len(q) PROVE <<LookupIn(link, Prefix(q, j - 1)), q[j]>> \notin moved
      BY <1>1, <1>4, <1>5 DEF StaysIn
    <2>. QED
      BY <2>1, <2>2, Zenon DEF StaysIn
  <1>10. i < Len(path) => Lookup(Prefix(path, i)) \in Directories
    <2>1. i < Len(path) => i + 1 \in 1..Len(path) /\ (i + 1) - 1 = i
      BY <1>4
    <2>. QED
      BY <1>3, <2>1, Zenon DEF Lookup
  <1>. QED
    BY <1>3, <1>5, <1>6, <1>7, <1>8, <1>9, <1>10, Zenon

\* The end of a path that stays.
PlaceAtEnd(path) ==
  /\ Len(path) \in 1..Len(path) /\ Len(path) \in Nat /\ Parent(path) \in Seq(Names) /\ Prefix(path, Len(path)) = path
  /\ Lookup(path) \in Objects /\ <<Lookup(Parent(path)), path[Len(path)]>> \in Places
  /\ <<Lookup(Parent(path)), path[Len(path)]>> \notin moved
  /\ link[<<Lookup(Parent(path)), path[Len(path)]>>] = Lookup(path)
  /\ Lookup(path) \notin world.old

\* So it is for every path that is due.
LEMMA DueEnd ==
  ASSUME Laws, FsTypes, NEW path \in Seq(Names), Due1(path)
  PROVE  PlaceAtEnd(path)
  <1> USE DEF PlaceAtEnd
  <1>1. path # <<>> /\ Wanted(path) /\ LookupIn(link, path) # None
    BY Zenon DEF Due1, StaysIn
  <1>2. Len(path) \in 1..Len(path) /\ Len(path) \in Nat
    BY <1>1
  <1>3. Prefix(path, Len(path)) = path
    BY Prefixes, Zenon DEF PrefixLaws
  <1>4. LookupIn(link, path) \in Objects
    BY <1>1, LookupTypes, Zenon DEF FsTypes
  <1>5. /\ Parent(path) \in Seq(Names) /\ <<Lookup(Parent(path)), path[Len(path)]>> \in Places
        /\ <<Lookup(Parent(path)), path[Len(path)]>> \notin moved
        /\ link[<<Lookup(Parent(path)), path[Len(path)]>>] = Lookup(Prefix(path, Len(path)))
    BY <1>2, DuePath, Zenon DEF Parent, PlacesAlong
  <1>6. Lookup(path) \notin world.old
    BY <1>1, Zenon DEF Wanted
  <1>. QED
    BY <1>2, <1>3, <1>4, <1>5, <1>6, Zenon DEF Lookup

\* Nothing about a path changes while the namespace stays.
SamePath(path) ==
  /\ Due1(path)' <=> Due1(path)
  /\ Lookup(path)' = Lookup(path)
  /\ \A r : RowOf(r, path)' <=> RowOf(r, path)
  /\ \A r : Right(r)' <=> Right(r)
  /\ \A rec : Heads(rec)' <=> Heads(rec)

\* This is so for every path.
LEMMA SameTree ==
  ASSUME UNCHANGED <<world, link, moved>>, NEW path
  PROVE  SamePath(path)
  BY Zenon DEF Lookup, Wanted, Ignored, IsDir, Due1, RowOf, Right, Heads, SamePath

-----------------------------------------------------------------------------
(* The walk loses no path.                                                 *)

\* A step that sends no error, from an earlier state that had none.
LEMMA NoError ==
  ASSUME PosixTypes, Emits, Clean', UNCHANGED <<world, failures>>
  PROVE  Clean /\ ~emit_error
  <1>1. progress \in [scanned : Nat, errors : Nat] /\ progress'.errors = 0
    BY Zenon DEF PosixTypes, Clean
  <1>2. ~emit_error
    BY <1>1 DEF emit_error
  <1>3. progress'.errors = progress.errors
    <2>1. CASE \E path : EventOut(path)
      BY <1>1, <2>1, Zenon DEF EventOut
    <2>. QED
      BY <1>2, <2>1, Zenon DEF Emits
  <1>. QED
    BY <1>1, <1>2, <1>3, Zenon DEF Clean

\* What was sent is still in the channel.
LEMMA SentStays ==
  ASSUME PosixTypes, Emits, UNCHANGED enricher, NEW path
  PROVE  /\ Sent(path) => Sent(path)'
         /\ EventOut(path) => Sent(path)'
  <1>1. posix \in Seq(PosixEvents)
    BY Zenon DEF PosixTypes
  <1>2. ASSUME NEW ev \in PosixEvents, posix' = Append(posix, ev)
        PROVE  /\ Len(posix) + 1 \in DOMAIN posix' /\ posix'[Len(posix) + 1] = ev
               /\ \A i \in DOMAIN posix : i \in DOMAIN posix' /\ posix'[i] = posix[i]
    BY <1>1, <1>2, AppendFacts DEF AppendLaws
  <1>3. \A i \in DOMAIN posix : i \in DOMAIN posix' /\ posix'[i] = posix[i]
    <2>1. CASE emit_error
      BY <1>2, <2>1, Zenon DEF emit_error, Failure, PosixEvents
    <2>2. CASE \E p : EventOut(p)
      <3>1. PICK ev \in PosixRows : posix' = Append(posix, ev)
        BY <2>2, Zenon DEF EventOut
      <3>2. ev \in PosixEvents
        BY Zenon DEF PosixEvents
      <3>. QED
        BY <1>2, <3>1, <3>2, Zenon
    <2>. QED
      BY <2>1, <2>2, Zenon DEF Emits
  <1>4. ASSUME EventOut(path) PROVE Sent(path)'
    <2>1. PICK ev \in PosixRows : ev.path = path /\ posix' = Append(posix, ev)
      BY <1>4, Zenon DEF EventOut
    <2>2. ev \in PosixEvents /\ ~ev.error
      BY Zenon DEF PosixEvents, PosixRows
    <2>3. Len(posix) + 1 \in DOMAIN posix' /\ posix'[Len(posix) + 1] = ev
      BY <1>2, <2>1, <2>2, Zenon
    <2>. QED
      BY <2>1, <2>2, <2>3, Zenon DEF Sent
  <1>5. Sent(path) => Sent(path)'
    BY <1>3, Zenon DEF Sent
  <1>. QED
    BY <1>4, <1>5, Zenon

\* Where a walker goes.
Hands(w, rec, path) ==
  /\ InQueue(path) => InQueue(path)' \/ Brings(rec, path)
  /\ Brings(walker[w], path) => Brings(rec, path) \/ InQueue(path)' \/ Sent(path)'

\* A walker's step, for the whole invariant.
LEMMA WalkerKeeps ==
  ASSUME ScanInv, task = "drain", NEW w \in Walkers, NEW rec, Becomes(w, rec), Heads(rec), ByWalker, Emits,
         ASSUME NEW path \in Seq(Names), Due1(path), Clean, ~emit_error PROVE Hands(w, rec, path)
  PROVE  Aimed' /\ Truthful' /\ Covered'
  <1>1. /\ Aimed /\ Truthful /\ Covered /\ walker \in [Walkers -> WalkerRecs] /\ PosixTypes
        /\ UNCHANGED <<world, link, moved, enricher, events, db, batch, failures, task>>
    BY Zenon DEF ScanInv, Base, Types, WalkTypes, ByWalker, lookup, store
  <1>2. /\ walker'[w] = rec
        /\ \A v \in Walkers : v # w => walker'[v] = walker[v]
    BY <1>1, Zenon DEF Becomes
  <1>3. Aimed'
    BY <1>1, <1>2, SameTree, Zenon DEF Aimed, SamePath
  <1>4. Truthful'
    BY <1>1, SameTree, Zenon DEF Truthful, SamePath
  <1>5. Covered'
    <2> SUFFICES ASSUME Clean', NEW path \in Seq(Names), Due1(path)' PROVE Cover(path)'
      BY Zenon DEF Covered
    <2>1. /\ Due1(path) /\ Lookup(path)' = Lookup(path) /\ Lookup(Parent(path))' = Lookup(Parent(path))
          /\ \A r : RowOf(r, path)' <=> RowOf(r, path)
      BY <1>1, SameTree, Zenon DEF Parent, SamePath
    <2>2. Clean /\ ~emit_error
      BY <1>1, NoError, Zenon
    <2>3. Cover(path)
      BY <1>1, <2>1, <2>2, Zenon DEF Covered
    <2>4. Hands(w, rec, path)
      BY <2>1, <2>2, Zenon
    <2>5. Stored(path) => Stored(path)'
      BY <1>1, <2>1, Zenon DEF Stored
    <2>6. Rowed(path) => Rowed(path)'
      BY <1>1, <2>1, Zenon DEF Rowed
    <2>7. Sent(path) => Sent(path)'
      BY <1>1, SentStays, Zenon
    <2>8. ASSUME NEW v \in Walkers, v # w, Brings(walker[v], path) PROVE ToCome(path)'
      BY <1>2, <2>8, Zenon DEF ToCome, Brings
    <2>9. Brings(rec, path) => ToCome(path)'
      BY <1>2, Zenon DEF ToCome, Brings
    <2>10. InQueue(path)' => ToCome(path)'
      BY Zenon DEF ToCome
    <2>11. ToCome(path) => Sent(path)' \/ ToCome(path)'
      BY <2>4, <2>8, <2>9, <2>10, Zenon DEF ToCome, Hands
    <2>. QED
      BY <2>3, <2>5, <2>6, <2>7, <2>11, Zenon DEF Cover
  <1>. QED
    BY <1>3, <1>4, <1>5, Zenon

\* A walker without a directory brings nothing.
LEMMA BringsWhat ==
  ASSUME NEW rec, NEW path, Brings(rec, path)
  PROVE  rec.pc \in {"self", "open", "read", "stat"}
  BY Zenon DEF Brings

\* Take and Quit.
LEMMA TakeKeeps ==
  ASSUME ScanInv, task = "drain", NEW w \in Walkers, Take(w) \/ Quit(w)
  PROVE  Aimed' /\ Truthful' /\ Covered'
  <1>1. /\ Base /\ work \in Seq(Seq(Names))
        /\ walker[w].pc = "idle" /\ ByWalker /\ UNCHANGED <<posix, progress>>
    BY Zenon DEF ScanInv, Base, Types, WalkTypes, Take, Quit
  <1>2. Emits
    BY <1>1, Zenon DEF Emits
  <1>3. ASSUME NEW path PROVE ~Brings(walker[w], path)
    BY <1>1, BringsWhat, Zenon
  <1>4. CASE Take(w)
    <2> DEFINE rec == [WalkerIdle EXCEPT !.pc = "self", !.path = Head(work)]
    <2>1. work # <<>> /\ Becomes(w, rec) /\ work' = Tail(work)
      BY <1>4, Zenon DEF Take
    <2>2. rec.pc = "self" /\ rec.path = Head(work)
      BY Zenon DEF WalkerIdle
    <2> HIDE DEF rec
    <2>3. Heads(rec)
      BY <2>2, Zenon DEF Heads
    <2>4. \A j \in DOMAIN work : j = 1 \/ (j - 1 \in DOMAIN work' /\ work'[j - 1] = work[j])
      BY <1>1, <2>1, TailFacts, Zenon DEF TailLaws
    <2>5. work[1] = Head(work)
      BY <1>1, <2>1, TailFacts, Zenon DEF TailLaws
    <2>6. ASSUME NEW path \in Seq(Names) PROVE Hands(w, rec, path)
      <3>1. InQueue(path) => InQueue(path)' \/ Brings(rec, path)
        <4> SUFFICES ASSUME NEW i \in 0..Len(path), NEW j \in DOMAIN work, work[j] = Prefix(path, i)
                     PROVE  InQueue(path)' \/ Brings(rec, path)
          BY Zenon DEF InQueue
        <4>1. CASE j = 1
          BY <2>2, <2>5, <4>1, Zenon DEF Brings
        <4>2. CASE j # 1
          BY <2>4, <4>2, Zenon DEF InQueue
        <4>. QED
          BY <4>1, <4>2, Zenon
      <3>. QED
        BY <1>3, <3>1, Zenon DEF Hands
    <2>. QED
      BY <1>1, <1>2, <2>1, <2>3, <2>6, WalkerKeeps, Zenon
  <1>5. CASE Quit(w)
    <2> DEFINE rec == [walker[w] EXCEPT !.pc = "done"]
    <2>1. Becomes(w, rec) /\ UNCHANGED work
      BY <1>5, Zenon DEF Quit, To
    <2>2. rec.pc = "done"
      BY <1>1, WalkerHas, Zenon DEF WalkerRecs, WalkerTyped
    <2> HIDE DEF rec
    <2>3. Heads(rec)
      BY <2>2, Zenon DEF Heads
    <2>4. ASSUME NEW path \in Seq(Names) PROVE Hands(w, rec, path)
      BY <1>3, <2>1, Zenon DEF Hands, InQueue
    <2>. QED
      BY <1>1, <1>2, <2>1, <2>3, <2>4, WalkerKeeps, Zenon
  <1>. QED
    BY <1>4, <1>5, Zenon

\* A directory that is reported is then listed.
LEMMA EmitSelfKeeps ==
  ASSUME Laws, ScanInv, task = "drain", NEW w \in Walkers, EmitSelf(w)
  PROVE  Aimed' /\ Truthful' /\ Covered'
  <1> DEFINE rec == [walker[w] EXCEPT !.pc = "open"]
             q   == walker[w].path
  <1>1. /\ Base /\ walker[w].pc = "self" /\ ByWalker /\ UNCHANGED work
        /\ Becomes(w, rec) /\ emit_path(q, TRUE)
    BY Zenon DEF ScanInv, EmitSelf, To
  <1>2. walker[w] \in WalkerRecs /\ q \in Seq(Names)
    BY <1>1, WalkerHas, Zenon DEF WalkerTyped
  <1>3. rec.pc = "open" /\ rec.path = q
    BY <1>2, Zenon DEF WalkerRecs
  <1>4. emit_error \/ EventOut(q)
    BY <1>1, <1>2, Emitted, Zenon
  <1>5. Emits /\ PosixTypes /\ UNCHANGED enricher
    BY <1>1, <1>4, Zenon DEF Emits, Base, Types, ByWalker, lookup
  <1>6. \A path : EventOut(path) => Sent(path)'
    BY <1>5, SentStays, Zenon
  <1> HIDE DEF rec
  <1>7. Heads(rec)
    BY <1>3, Zenon DEF Heads
  <1>8. ASSUME NEW path \in Seq(Names), ~emit_error PROVE Hands(w, rec, path)
    <2>1. ASSUME Brings(walker[w], path) PROVE Brings(rec, path) \/ Sent(path)'
      <3>1. PICK i \in 0..Len(path) : q = Prefix(path, i)
        BY <1>1, <2>1, Zenon DEF Brings
      <3>2. CASE i < Len(path)
        BY <1>3, <3>1, <3>2, Zenon DEF Brings
      <3>3. CASE ~(i < Len(path))
        BY <1>4, <1>6, <1>8, <3>1, <3>3, Prefixes DEF PrefixLaws
      <3>. QED
        BY <3>2, <3>3, Zenon
    <2>. QED
      BY <1>1, <2>1, Zenon DEF Hands, InQueue
  <1>. QED
    BY <1>1, <1>5, <1>7, <1>8, WalkerKeeps, Zenon

\* A directory that is opened is listed completely.
LEMMA ReadDirKeeps ==
  ASSUME ScanInv, task = "drain", NEW w \in Walkers, ReadDir(w)
  PROVE  Aimed' /\ Truthful' /\ Covered'
  <1> DEFINE q == walker[w].path
             d == Lookup(q)
             lists == [walker[w] EXCEPT !.pc = "read", !.dir = d, !.todo = Listing]
             ends  == [walker[w] EXCEPT !.pc = "finish"]
  <1>1. /\ Base /\ walker[w].pc = "open" /\ ByWalker /\ UNCHANGED work
        /\ \/ Becomes(w, lists) /\ UNCHANGED <<posix, progress>>
           \/ emit_error /\ Becomes(w, ends)
    BY Zenon DEF ScanInv, ReadDir, To
  <1>2. walker[w] \in WalkerRecs /\ q \in Seq(Names)
    BY <1>1, WalkerHas, Zenon DEF WalkerTyped
  <1>3. ends.pc = "finish" /\ lists.pc = "read" /\ lists.path = q /\ lists.dir = d /\ lists.todo = Listing
    BY <1>2, Zenon DEF WalkerRecs
  <1> HIDE DEF lists, ends
  <1>4. Emits
    BY <1>1, Zenon DEF Emits
  <1>5. CASE emit_error /\ Becomes(w, ends)
    BY <1>1, <1>3, <1>4, <1>5, WalkerKeeps, Zenon DEF Heads
  <1>6. CASE Becomes(w, lists)
    <2>1. Heads(lists)
      BY <1>3, Zenon DEF Heads
    <2>2. ASSUME NEW path \in Seq(Names) PROVE Hands(w, lists, path)
      <3>1. ASSUME Brings(walker[w], path) PROVE Brings(lists, path)
        <4>1. PICK i \in 0..Len(path) : i < Len(path) /\ q = Prefix(path, i)
          BY <1>1, <3>1, Zenon DEF Brings
        <4>2. i + 1 \in 0..Len(path) /\ i + 1 \in 1..Len(path) /\ (i + 1) - 1 = i
          BY <4>1
        <4>3. path[i + 1] \in Names /\ Prefix(path, i + 1) = Append(Prefix(path, (i + 1) - 1), path[i + 1])
          BY <4>2, Prefixes, Zenon DEF PrefixLaws
        <4>4. PICK j \in DOMAIN Listing : Listing[j] = path[i + 1]
          BY <4>3, ScanAssumption, Zenon
        <4>5. j \in DOMAIN lists.todo /\ Prefix(path, i + 1) = Append(lists.path, lists.todo[j])
          BY <1>3, <4>1, <4>2, <4>3, <4>4, Zenon
        <4>. QED
          BY <1>3, <4>2, <4>5, Zenon DEF Brings
      <3>. QED
        BY <1>1, <3>1, Zenon DEF Hands, InQueue
    <2>. QED
      BY <1>1, <1>4, <1>6, <2>1, <2>2, WalkerKeeps, Zenon
  <1>. QED
    BY <1>1, <1>5, <1>6, Zenon

\* The name a walker looks at, on a path that stays.
Reads(w, path, i) == Prefix(path, i) = Append(walker[w].path, Head(walker[w].todo))

\* A walker that looks at a path which is due finds what is there.
FindsAt(w, path, i) ==
  /\ i \in 1..Len(path) /\ i - 1 \in Nat /\ Len(walker[w].path) = i - 1
  /\ Head(walker[w].todo) = path[i] /\ ~Ignored(path[i])
  /\ <<walker[w].dir, path[i]>> \in Places /\ <<walker[w].dir, path[i]>> \notin moved
  /\ link[<<walker[w].dir, path[i]>>] = Lookup(Prefix(path, i)) /\ Lookup(Prefix(path, i)) # None
  /\ i < Len(path) => Lookup(Prefix(path, i)) \in Directories

\* What it looks at is on the path.
LEMMA LooksAt ==
  ASSUME Laws, Base, Aimed, NEW w \in Walkers, walker[w].pc \in {"read", "stat"}, walker[w].todo # <<>>,
         NEW path \in Seq(Names), Due1(path), NEW i \in 0..Len(path), Reads(w, path, i)
  PROVE  FindsAt(w, path, i)
  <1> USE DEF FindsAt
  <1> DEFINE q == walker[w].path
             n == Head(walker[w].todo)
             d == walker[w].dir
             up == Prefix(path, i - 1)
  <1>1. q \in Seq(Names) /\ n \in Names
    BY WalkerHas, Zenon DEF WalkerTyped
  <1>2. Len(Append(q, n)) = Len(q) + 1 /\ Len(q) \in Nat
    BY <1>1
  <1>3. Len(Prefix(path, i)) = i
    BY Prefixes, Zenon DEF PrefixLaws
  <1>4. i = Len(q) + 1
    BY <1>2, <1>3, Zenon DEF Reads
  <1>5. i \in 1..Len(path) /\ i - 1 \in Nat /\ Len(q) = i - 1
    BY <1>2, <1>4
  <1>6. FsTypes
    BY Zenon DEF Base, Types
  <1>7. /\ <<Lookup(up), path[i]>> \in Places /\ <<Lookup(up), path[i]>> \notin moved
        /\ link[<<Lookup(up), path[i]>>] = Lookup(Prefix(path, i)) /\ Lookup(Prefix(path, i)) # None
        /\ StaysIn(link, moved, up) /\ up \in Seq(Names) /\ Prefix(path, i) = Append(up, path[i]) /\ path[i] \in Names
        /\ ~Ignored(path[i])
        /\ i < Len(path) => Lookup(Prefix(path, i)) \in Directories
    BY <1>5, <1>6, DuePath, Zenon DEF PlacesAlong
  <1>8. Append(up, path[i]) = Append(q, n)
    BY <1>7, Zenon DEF Reads
  <1>9. up = q /\ path[i] = n
    <2>1. PICK a \in Seq(Names), b \in Seq(Names), x \in Names, y \in Names :
            a = up /\ b = q /\ x = path[i] /\ y = n
      BY <1>1, <1>7, Zenon
    <2>2. Append(a, x) = Append(b, y)
      BY <1>8, <2>1, Zenon
    <2>3. a = b /\ x = y
      BY <2>2, AppendOnce
    <2>. QED
      BY <2>1, <2>3, Zenon
  <1>10. d = Lookup(up)
    BY <1>7, <1>9, Zenon DEF Aimed, Heads
  <1>. QED
    BY <1>5, <1>7, <1>9, <1>10, Zenon

\* The rest of a listing.
LEMMA RestBrings ==
  ASSUME Base, NEW w \in Walkers, walker[w].pc \in {"read", "stat"}, NEW path, NEW rec,
         Brings(walker[w], path), rec.pc = "read", rec.path = walker[w].path,
         walker[w].todo # <<>>, rec.todo = Tail(walker[w].todo)
  PROVE  Brings(rec, path) \/ \E i \in 0..Len(path) : Reads(w, path, i)
  <1> DEFINE s == walker[w].todo
  <1>1. PICK i \in 0..Len(path) : \E j \in DOMAIN s : Prefix(path, i) = Append(walker[w].path, s[j])
    BY Zenon DEF Brings
  <1>2. PICK j \in DOMAIN s : Prefix(path, i) = Append(walker[w].path, s[j])
    BY <1>1, Zenon
  <1>3. s \in Seq(Names)
    BY WalkerHas, Zenon DEF WalkerTyped
  <1>4. /\ s[1] = Head(s)
        /\ j = 1 \/ (j - 1 \in DOMAIN Tail(s) /\ Tail(s)[j - 1] = s[j])
    BY <1>3, TailFacts, Zenon DEF TailLaws
  <1>5. CASE j = 1
    BY <1>2, <1>4, <1>5, Zenon DEF Reads
  <1>6. CASE j # 1
    <2>1. j - 1 \in DOMAIN rec.todo /\ rec.todo[j - 1] = s[j]
      BY <1>4, <1>6, Zenon
    <2>2. Prefix(path, i) = Append(rec.path, rec.todo[j - 1])
      BY <1>2, <2>1, Zenon
    <2>. QED
      BY <2>1, <2>2, Zenon DEF Brings
  <1>. QED
    BY <1>5, <1>6, Zenon

\* A directory on a path that is wanted is not too deep.
LEMMA DeepEnough ==
  ASSUME Base, NEW w \in Walkers, NEW path \in Seq(Names), Due1(path), NEW i \in 1..Len(path),
         Len(walker[w].path) = i - 1, i < Len(path) \/ IsDir(Lookup(path))
  PROVE  Descends(w)
  <1>1. Wanted(path) /\ world \in Worlds /\ Len(path) \in Nat
    BY DEF Due1, Base, Types, FsTypes
  <1>2. world.max_depth \in Nat \cup {None}
    BY <1>1, ScanAssumption, Zenon
  <1>3. CASE world.max_depth = None
    BY <1>3, Zenon DEF Descends
  <1>4. CASE world.max_depth # None
    <2>1. PICK m \in Nat : m = world.max_depth
      BY <1>2, <1>4, Zenon
    <2>2. /\ IsDir(Lookup(path)) => Len(path) <= m + 0
          /\ Len(path) <= m + 0 \/ Len(path) <= m + 1
      BY <1>1, <1>4, <2>1, Zenon DEF Wanted
    <2>3. i - 1 < m
      BY <1>1, <2>2
    <2>. QED
      BY <2>1, <2>3, Zenon DEF Descends, Depth
  <1>. QED
    BY <1>3, <1>4, Zenon

\* A directory that a walker finds is queued, a file is looked at.
LEMMA NextEntryKeeps ==
  ASSUME Laws, ScanInv, task = "drain", NEW w \in Walkers, NextEntry(w)
  PROVE  Aimed' /\ Truthful' /\ Covered'
  <1> DEFINE n == Head(walker[w].todo)
             o == link[<<walker[w].dir, n>>]
             rest  == [walker[w] EXCEPT !.todo = Tail(@)]
             looks == [walker[w] EXCEPT !.pc = "stat"]
  <1>1. /\ Base /\ Aimed /\ walker[w].pc = "read" /\ walker[w].todo # <<>> /\ ByWalker /\ UNCHANGED <<posix, progress>>
        /\ \/ (o = None \/ Ignored(n)) /\ Becomes(w, rest) /\ UNCHANGED work
           \/ /\ o # None /\ ~Ignored(n) /\ IsDir(o) /\ Becomes(w, rest)
              /\ IF Descends(w) THEN Queues(Step(walker[w].path, n)) ELSE UNCHANGED <<pending, work>>
           \/ /\ o # None /\ ~Ignored(n) /\ ~IsDir(o)
              /\ Becomes(w, looks) /\ UNCHANGED work
    BY Zenon DEF ScanInv, NextEntry
  <1>2. /\ walker[w] \in WalkerRecs /\ walker[w].path \in Seq(Names) /\ n \in Names /\ Heads(walker[w])
    BY <1>1, WalkerHas, Zenon DEF Aimed, WalkerTyped
  <1>3. /\ rest.pc = "read" /\ rest.path = walker[w].path /\ rest.dir = walker[w].dir /\ rest.todo = Tail(walker[w].todo)
        /\ looks.pc = "stat" /\ looks.path = walker[w].path /\ looks.dir = walker[w].dir /\ looks.todo = walker[w].todo
    BY <1>1, <1>2, Zenon DEF WalkerRecs
  <1> HIDE DEF rest, looks
  <1>4. Emits
    BY <1>1, Zenon DEF Emits
  <1>5. open /\ work \in Seq(Seq(Names))
    BY <1>1, BusyPending, Zenon DEF Base, Types, WalkTypes, PendingWhileBusy
  <1>6. \/ /\ Becomes(w, rest)
           /\ \A j \in DOMAIN work : j \in DOMAIN work' /\ work'[j] = work[j]
           /\ \/ o = None \/ Ignored(n)
              \/ /\ IsDir(o)
                 /\ Descends(w) => \E j \in DOMAIN work' : work'[j] = Append(walker[w].path, n)
        \/ ~IsDir(o) /\ Becomes(w, looks) /\ UNCHANGED work
    <2>1. CASE (o = None \/ Ignored(n)) /\ Becomes(w, rest) /\ UNCHANGED work
      BY <2>1, Zenon
    <2>2. CASE /\ IsDir(o) /\ Becomes(w, rest)
               /\ IF Descends(w) THEN Queues(Step(walker[w].path, n)) ELSE UNCHANGED <<pending, work>>
      <3>1. CASE Descends(w)
        <4>1. PICK q \in Seq(Names) : q = Append(walker[w].path, n)
          <5>1. PICK a \in Seq(Names), x \in Names : a = walker[w].path /\ x = n
            BY <1>2, Zenon
          <5>2. Append(a, x) \in Seq(Names)
            OBVIOUS
          <5>. QED
            BY <5>1, <5>2, Zenon
        <4>2. work' = Append(work, q)
          BY <1>5, <2>2, <3>1, <4>1, Zenon DEF Queues, Step
        <4>3. /\ Len(work) + 1 \in DOMAIN Append(work, q) /\ Append(work, q)[Len(work) + 1] = q
              /\ \A j \in DOMAIN work : j \in DOMAIN Append(work, q) /\ Append(work, q)[j] = work[j]
          <5>1. AppendLaws(Seq(Names), work, q)
            BY <1>5, <4>1, AppendFacts, Zenon
          <5>. QED
            BY <5>1, Zenon DEF AppendLaws
        <4>. QED
          BY <2>2, <4>1, <4>2, <4>3, Zenon
      <3>2. CASE ~Descends(w)
        BY <2>2, <3>2, Zenon
      <3>. QED
        BY <3>1, <3>2, Zenon
    <2>3. CASE ~IsDir(o) /\ Becomes(w, looks) /\ UNCHANGED work
      BY <2>3, Zenon
    <2>. QED
      BY <1>1, <2>1, <2>2, <2>3, Zenon
  <1>7. CASE /\ Becomes(w, rest)
             /\ \A j \in DOMAIN work : j \in DOMAIN work' /\ work'[j] = work[j]
             /\ \/ o = None \/ Ignored(n)
                \/ /\ IsDir(o)
                   /\ Descends(w) => \E j \in DOMAIN work' : work'[j] = Append(walker[w].path, n)
    <2>1. Heads(rest)
      BY <1>1, <1>2, <1>3, Zenon DEF Heads
    <2>2. ASSUME NEW path \in Seq(Names), Due1(path) PROVE Hands(w, rest, path)
      <3>1. InQueue(path) => InQueue(path)'
        BY <1>7, Zenon DEF InQueue
      <3>2. ASSUME Brings(walker[w], path), ~Brings(rest, path) PROVE InQueue(path)'
        <4>1. PICK i \in 0..Len(path) : Reads(w, path, i)
          BY <1>1, <1>3, <3>2, RestBrings, Zenon
        <4>2. /\ i \in 1..Len(path) /\ Len(walker[w].path) = i - 1 /\ n = path[i] /\ ~Ignored(path[i])
              /\ link[<<walker[w].dir, path[i]>>] = Lookup(Prefix(path, i)) /\ Lookup(Prefix(path, i)) # None
          <5>1. Base /\ Aimed /\ walker[w].pc \in {"read", "stat"} /\ walker[w].todo # <<>>
            BY <1>1, Zenon
          <5>. QED
            BY <2>2, <4>1, <5>1, LooksAt, ZenonT(30) DEF FindsAt
        <4>3. o = Lookup(Prefix(path, i)) /\ o # None /\ ~Ignored(n)
          BY <4>2, Zenon
        <4>4. IsDir(o) /\ (Descends(w) => \E j \in DOMAIN work' : work'[j] = Append(walker[w].path, n))
          BY <1>7, <4>3, Zenon
        <4>5. i < Len(path) \/ IsDir(Lookup(path))
          <5>1. CASE i = Len(path)
            BY <4>3, <4>4, <5>1, Prefixes, Zenon DEF PrefixLaws
          <5>2. CASE i # Len(path)
            BY <4>2, <5>2
          <5>. QED
            BY <5>1, <5>2, Zenon
        <4>6. Descends(w)
          BY <1>1, <2>2, <4>2, <4>5, DeepEnough, Zenon
        <4>7. \E j \in DOMAIN work' : work'[j] = Prefix(path, i)
          BY <4>1, <4>4, <4>6, Zenon DEF Reads
        <4>. QED
          BY <4>7, Zenon DEF InQueue
      <3>. QED
        BY <3>1, <3>2, Zenon DEF Hands
    <2>. QED
      BY <1>1, <1>4, <1>7, <2>1, <2>2, WalkerKeeps, Zenon
  <1>8. CASE ~IsDir(o) /\ Becomes(w, looks) /\ UNCHANGED work
    <2>1. Heads(looks)
      BY <1>1, <1>2, <1>3, <1>8, Zenon DEF Heads
    <2>2. ASSUME NEW path \in Seq(Names) PROVE Hands(w, looks, path)
      BY <1>1, <1>3, <1>8, Zenon DEF Brings, Hands, InQueue
    <2>. QED
      BY <1>1, <1>4, <1>8, <2>1, <2>2, WalkerKeeps, Zenon
  <1>. QED
    BY <1>6, <1>7, <1>8, Zenon

\* A read that fails is an error.
LEMMA ReadFailsKeeps ==
  ASSUME ScanInv, task = "drain", NEW w \in Walkers, ReadFails(w)
  PROVE  Aimed' /\ Truthful' /\ Covered'
  <1> DEFINE rest == [walker[w] EXCEPT !.todo = Tail(@)]
             ends == [walker[w] EXCEPT !.pc = "finish"]
  <1>1. /\ Base /\ Aimed /\ ByWalker /\ emit_error
        /\ \/ Becomes(w, ends)
           \/ walker[w].pc = "read" /\ Becomes(w, rest)
    BY Zenon DEF ScanInv, ReadFails, To
  <1>2. walker[w] \in WalkerRecs /\ Heads(walker[w])
    BY <1>1, WalkerHas, Zenon DEF Aimed, WalkerTyped
  <1>3. ends.pc = "finish" /\ rest.pc = walker[w].pc /\ rest.path = walker[w].path /\ rest.dir = walker[w].dir
    BY <1>2, Zenon DEF WalkerRecs
  <1> HIDE DEF rest, ends
  <1>4. Emits
    BY <1>1, Zenon DEF Emits
  <1>5. CASE Becomes(w, ends)
    BY <1>1, <1>3, <1>4, <1>5, WalkerKeeps, Zenon DEF Heads
  <1>6. CASE walker[w].pc = "read" /\ Becomes(w, rest)
    BY <1>1, <1>2, <1>3, <1>4, <1>6, WalkerKeeps, Zenon DEF Heads
  <1>. QED
    BY <1>1, <1>5, <1>6, Zenon

\* A file that a walker found is sent.
LEMMA EmitEntryKeeps ==
  ASSUME Laws, ScanInv, task = "drain", NEW w \in Walkers, EmitEntry(w)
  PROVE  Aimed' /\ Truthful' /\ Covered'
  <1> DEFINE n == Head(walker[w].todo)
             q == Append(walker[w].path, n)
             rest == [walker[w] EXCEPT !.pc = "read", !.todo = Tail(@)]
  <1>1. /\ Base /\ Aimed /\ walker[w].pc = "stat" /\ ByWalker /\ UNCHANGED work
        /\ emit_path(q, FALSE) /\ Becomes(w, rest)
    BY Zenon DEF ScanInv, EmitEntry, Step
  <1>2. walker[w] \in WalkerRecs /\ walker[w].todo # <<>> /\ walker[w].path \in Seq(Names) /\ n \in Names /\ Heads(walker[w])
    BY <1>1, WalkerHas, Zenon DEF Aimed, WalkerTyped
  <1>3. rest.pc = "read" /\ rest.path = walker[w].path /\ rest.dir = walker[w].dir /\ rest.todo = Tail(walker[w].todo)
    BY <1>2, Zenon DEF WalkerRecs
  <1> HIDE DEF rest
  <1>4. q \in Seq(Names)
    BY <1>2
  <1>5. emit_error \/ EventOut(q) \/ (Old(Lookup(q)) /\ UNCHANGED <<posix, progress>>)
    BY <1>1, <1>4, Emitted, Zenon
  <1>6. Emits /\ PosixTypes /\ UNCHANGED enricher
    BY <1>1, <1>5, Zenon DEF Emits, Base, Types, ByWalker, lookup
  <1>7. \A path : EventOut(path) => Sent(path)'
    BY <1>6, SentStays, Zenon
  <1>8. Heads(rest)
    BY <1>1, <1>2, <1>3, Zenon DEF Heads
  <1>9. ASSUME NEW path \in Seq(Names), Due1(path), ~emit_error PROVE Hands(w, rest, path)
    <2>1. ASSUME Brings(walker[w], path), ~Brings(rest, path) PROVE Sent(path)'
      <3>1. PICK i \in 0..Len(path) : Reads(w, path, i)
        BY <1>1, <1>2, <1>3, <2>1, RestBrings, Zenon
      <3>2. /\ i \in 1..Len(path) /\ n = path[i] /\ <<walker[w].dir, path[i]>> \notin moved
            /\ link[<<walker[w].dir, path[i]>>] = Lookup(Prefix(path, i))
            /\ i < Len(path) => Lookup(Prefix(path, i)) \in Directories
        <4>1. Base /\ Aimed /\ walker[w].pc \in {"read", "stat"} /\ walker[w].todo # <<>>
          BY <1>1, <1>2, Zenon
        <4>. QED
          BY <1>9, <3>1, <4>1, LooksAt, ZenonT(30) DEF FindsAt
      <3>3. <<walker[w].dir, n>> \notin moved
        BY <3>2, Zenon
      <3>4. ~IsDir(link[<<walker[w].dir, n>>])
        BY <1>1, <1>2, <3>3, Zenon DEF Heads
      <3>5. ~(i < Len(path))
        BY <3>2, <3>4, Zenon DEF IsDir
      <3>6. i = Len(path)
        BY <3>2, <3>5
      <3>7. q = path
        BY <3>1, <3>6, Prefixes, Zenon DEF Reads, PrefixLaws
      <3>8. ~Old(Lookup(path))
        BY <1>9, Zenon DEF Due1, Wanted, Old
      <3>9. EventOut(path)
        BY <1>5, <1>9, <3>7, <3>8, Zenon
      <3>. QED
        BY <1>7, <3>9, Zenon
    <2>. QED
      BY <1>1, <2>1, Zenon DEF Hands, InQueue
  <1>. QED
    BY <1>1, <1>6, <1>8, <1>9, WalkerKeeps, Zenon

\* A directory is done when nothing of its listing is left.
LEMMA FinishKeeps ==
  ASSUME ScanInv, task = "drain", NEW w \in Walkers, Finish(w)
  PROVE  Aimed' /\ Truthful' /\ Covered'
  <1>1. /\ walker[w].pc = "finish" \/ (walker[w].pc = "read" /\ walker[w].todo = <<>>)
        /\ Becomes(w, WalkerIdle) /\ ByWalker /\ UNCHANGED <<work, posix, progress>>
    BY Zenon DEF Finish
  <1>2. Emits
    BY <1>1, Zenon DEF Emits
  <1>3. Heads(WalkerIdle)
    BY Zenon DEF Heads, WalkerIdle
  <1>4. ASSUME NEW path \in Seq(Names) PROVE Hands(w, WalkerIdle, path)
    BY <1>1 DEF Brings, Hands, InQueue
  <1>. QED
    BY <1>1, <1>2, <1>3, <1>4, WalkerKeeps, Zenon

\* No step of a walker loses a path.
LEMMA WalkKeeps ==
  ASSUME Laws, ScanInv, task = "drain", NEW w \in Walkers, Walk(w)
  PROVE  Aimed' /\ Truthful' /\ Covered'
  BY TakeKeeps, EmitSelfKeeps, ReadDirKeeps, NextEntryKeeps, ReadFailsKeeps, EmitEntryKeeps, FinishKeeps, Zenon DEF Walk

-----------------------------------------------------------------------------
(* The lookups and the task lose no path.                                  *)

\* A step that keeps namespace, walk and task.
LEMMA QuietKeeps ==
  ASSUME ScanInv, task = "drain", UNCHANGED <<world, link, moved, work, walker>>, Clean' => Clean,
         Truthful',
         ASSUME NEW path \in Seq(Names), Due1(path), Clean'
         PROVE  (Stored(path) \/ Rowed(path) \/ Sent(path)) => (Stored(path) \/ Rowed(path) \/ Sent(path))'
  PROVE  Aimed' /\ Covered'
  <1>1. Aimed /\ Covered
    BY Zenon DEF ScanInv
  <1>2. Aimed'
    <2>1. \A r : Heads(r)' <=> Heads(r)
      BY SameTree, Zenon DEF SamePath
    <2>. QED
      BY <1>1, <2>1, Zenon DEF Aimed
  <1>3. Covered'
    BY <1>1, SameTree, Zenon DEF Covered, ToCome, InQueue, Brings, Cover, SamePath
  <1>. QED
    BY <1>2, <1>3, Zenon

\* TakeEvent and EnricherQuits.
LEMMA TakeEventKeeps ==
  ASSUME Laws, ScanInv, task = "drain", NEW e \in Enrichers, TakeEvent(e) \/ EnricherQuits(e)
  PROVE  Aimed' /\ Truthful' /\ Covered'
  <1>1. /\ Base /\ Truthful /\ enricher[e].pc = "idle"
        /\ UNCHANGED <<world, link, moved, work, walker, events, batch, db, progress, failures>>
    BY Zenon DEF ScanInv, TakeEvent, EnricherQuits, ByEnricher, walk, store
  <1>2. enricher \in [Enrichers -> HandRecs] /\ posix \in Seq(PosixEvents)
    BY <1>1, HandHas, Zenon DEF HandTyped
  <1>3. Truthful'
    BY <1>1, SameTree, Zenon DEF Truthful, SamePath
  <1>4. Clean' => Clean
    BY <1>1, Zenon DEF Clean
  <1>5. \A f \in Enrichers : f # e => enricher'[f] = enricher[f]
    BY <1>2, Zenon DEF TakeEvent, EnricherQuits
  <1>6. ASSUME NEW path \in Seq(Names)
        PROVE  (Stored(path) \/ Rowed(path) \/ Sent(path)) => (Stored(path) \/ Rowed(path) \/ Sent(path))'
    <2>1. /\ \A q : Lookup(q)' = Lookup(q)
          /\ \A r : RowOf(r, path)' <=> RowOf(r, path)
      BY <1>1, SameTree, Zenon DEF SamePath
    <2>2. Stored(path) => Stored(path)'
      BY <1>1, <2>1, Zenon DEF Stored
    <2>3. Rowed(path) => Rowed(path)'
      BY <1>1, <2>1, Zenon DEF Rowed
    <2>4. ASSUME NEW f \in Enrichers, enricher[f].pc = "hold", ~enricher[f].event.error, enricher[f].event.path = path
          PROVE  Sent(path)'
      BY <1>1, <1>5, <2>4, Zenon DEF Sent
    <2>5. ASSUME NEW i \in DOMAIN posix, ~posix[i].error, posix[i].path = path PROVE Sent(path)'
      <3>1. CASE TakeEvent(e)
        <4>1. /\ posix # <<>> /\ posix' = Tail(posix)
              /\ enricher'[e] = [pc |-> "hold", event |-> Head(posix)]
          BY <1>2, <3>1, Zenon DEF TakeEvent
        <4>2. /\ posix[1] = Head(posix)
              /\ i = 1 \/ (i - 1 \in DOMAIN Tail(posix) /\ Tail(posix)[i - 1] = posix[i])
          BY <1>2, <4>1, TailFacts, Zenon DEF TailLaws
        <4>3. CASE i = 1
          BY <2>5, <4>1, <4>2, <4>3 DEF Sent
        <4>4. CASE i # 1
          BY <2>5, <4>1, <4>2, <4>4, Zenon DEF Sent
        <4>. QED
          BY <4>3, <4>4, Zenon
      <3>2. CASE EnricherQuits(e)
        BY <3>2 DEF EnricherQuits
      <3>. QED
        BY <3>1, <3>2, Zenon
    <2>6. Sent(path) => Sent(path)'
      BY <2>4, <2>5, Zenon DEF Sent
    <2>. QED
      BY <2>2, <2>3, <2>6, Zenon
  <1>. QED
    BY <1>1, <1>3, <1>4, <1>6, QuietKeeps, Zenon

\* An entry that is sent comes out as its row.
LEMMA EnrichKeeps ==
  ASSUME Laws, ScanInv, task = "drain", NEW e \in Enrichers, Enrich(e)
  PROVE  Aimed' /\ Truthful' /\ Covered'
  <1> DEFINE ev == enricher[e].event
  <1>1. /\ Base /\ Truthful /\ FsTypes /\ enricher[e].pc = "hold"
        /\ UNCHANGED <<world, link, moved, work, walker, batch, db, failures, posix>>
    BY Zenon DEF ScanInv, Base, Types, Enrich, ByEnricher, walk, store
  <1>2. /\ enricher \in [Enrichers -> HandRecs] /\ events \in Seq(ScanEvents) /\ ev \in PosixEvents
        /\ progress.errors \in Nat
    BY <1>1, HandHas, Zenon DEF HandTyped
  <1>3. /\ ev.error => ev = Failure
        /\ ~ev.error => ev \in PosixRows
    <2>1. Failure.error /\ \A x \in PosixRows : ~x.error
      BY Zenon DEF Failure, PosixRows
    <2>2. ev \in PosixRows \/ ev = Failure
      BY <1>2, Zenon DEF PosixEvents
    <2>. QED
      BY <2>1, <2>2, Zenon
  <1>4. PICK out \in ScanEvents :
          /\ Sends(e, out)
          /\ ~out.error => Right(out)
          /\ progress'.errors = progress.errors \/ progress'.errors = progress.errors + 1
          /\ progress'.errors = progress.errors /\ ~ev.error =>
               Lookup(ev.path) # None /\ out = enrich_lustre(ev)
    <2>0. Failure \in ScanEvents /\ Failure.error /\ Failure = [error |-> TRUE]
      BY Zenon DEF Failure, ScanEvents
    <2>1. CASE ev.error /\ Sends(e, ev) /\ UNCHANGED progress
      BY <1>3, <2>0, <2>1, Zenon
    <2>2. CASE Sends(e, [error |-> TRUE]) /\ Uncounts
      BY <1>2, <2>0, <2>2 DEF Uncounts
    <2>3. CASE ~ev.error /\ Lookup(ev.path) # None /\ Sends(e, enrich_lustre(ev)) /\ UNCHANGED progress
      BY <1>1, <1>3, <2>3, EnrichedRow, Zenon DEF ScanEvents
    <2>. QED
      BY <2>1, <2>2, <2>3, Zenon DEF Enrich
  <1>5. /\ events' = Append(events, out) /\ enricher' = [enricher EXCEPT ![e] = EnricherIdle]
    BY <1>4, Zenon DEF Sends
  <1>6. /\ Len(events) + 1 \in DOMAIN events' /\ events'[Len(events) + 1] = out
        /\ \A i \in DOMAIN events : i \in DOMAIN events' /\ events'[i] = events[i]
        /\ \A i \in DOMAIN events' : events'[i] = out \/ (i \in DOMAIN events /\ events'[i] = events[i])
    <2>1. /\ Len(events) + 1 \in DOMAIN Append(events, out) /\ Append(events, out)[Len(events) + 1] = out
          /\ \A i \in DOMAIN events : i \in DOMAIN Append(events, out) /\ Append(events, out)[i] = events[i]
          /\ \A i \in DOMAIN Append(events, out) :
               i = Len(events) + 1 \/ (i \in DOMAIN events /\ Append(events, out)[i] = events[i])
      BY <1>2, AppendFacts DEF AppendLaws
    <2>. QED
      BY <1>5, <2>1, Zenon
  <1>7. Truthful'
    BY <1>1, <1>4, <1>6, SameTree, Zenon DEF Truthful, SamePath
  <1>8. Clean' => Clean /\ progress'.errors = progress.errors
    BY <1>1, <1>2, <1>4 DEF Clean
  <1>9. \A f \in Enrichers : f # e => enricher'[f] = enricher[f]
    BY <1>2, <1>5, Zenon
  <1>10. ASSUME NEW path \in Seq(Names), Due1(path), Clean'
        PROVE  (Stored(path) \/ Rowed(path) \/ Sent(path)) => (Stored(path) \/ Rowed(path) \/ Sent(path))'
    <2>1. /\ \A q : Lookup(q)' = Lookup(q)
          /\ \A r : RowOf(r, path)' <=> RowOf(r, path)
      BY <1>1, SameTree, Zenon DEF SamePath
    <2>2. Stored(path) => Stored(path)'
      BY <1>1, <2>1, Zenon DEF Stored
    <2>3. Rowed(path) => Rowed(path)'
      <3>1. ASSUME NEW i \in DOMAIN events, ~events[i].error, RowOf(events[i], path) PROVE Rowed(path)'
        <4>1. PICK r : r = events[i]
          BY Zenon
        <4>2. i \in DOMAIN events' /\ events'[i] = r /\ ~r.error /\ RowOf(r, path)
          BY <1>6, <3>1, <4>1, Zenon
        <4>3. RowOf(r, path)'
          BY <2>1, <4>2, Zenon
        <4>. QED
          BY <4>2, <4>3, Zenon DEF Rowed
      <3>2. (\E i \in DOMAIN batch : RowOf(batch[i], path)) => Rowed(path)'
        BY <1>1, <2>1, Zenon DEF Rowed
      <3>. QED
        BY <3>1, <3>2, Zenon DEF Rowed
    <2>4. ASSUME NEW f \in Enrichers, f # e,
                 enricher[f].pc = "hold", ~enricher[f].event.error, enricher[f].event.path = path
          PROVE  Sent(path)'
      BY <1>9, <2>4, Zenon DEF Sent
    <2>5. ASSUME ~ev.error, ev.path = path PROVE Rowed(path)'
      BY <1>1, <1>3, <1>4, <1>6, <1>8, <1>10, <2>1, <2>5, EnrichedRow, Zenon DEF Due1, RowEvents, Rowed
    <2>6. (\E i \in DOMAIN posix : ~posix[i].error /\ posix[i].path = path) => Sent(path)'
      BY <1>1, Zenon DEF Sent
    <2>7. Sent(path) => Sent(path)' \/ Rowed(path)'
      BY <2>4, <2>5, <2>6, Zenon DEF Sent
    <2>. QED
      BY <2>2, <2>3, <2>7, Zenon
  <1>. QED
    BY <1>1, <1>7, <1>8, <1>10, QuietKeeps, Zenon

\* A row that is received is in the batch.
LEMMA ReceiveKeeps ==
  ASSUME ScanInv, Receive
  PROVE  Aimed' /\ Truthful' /\ Covered'
  <1> DEFINE h == Head(events)
  <1>1. /\ task = "drain" /\ Base /\ Truthful /\ events # <<>> /\ events' = Tail(events)
        /\ \/ h.error /\ failures' = failures + 1 /\ batch' = batch
           \/ ~h.error /\ batch' = Append(batch, h) /\ failures' = failures
        /\ UNCHANGED <<world, link, moved, work, walker, enricher, posix, db, progress>>
    BY Zenon DEF ScanInv, Receive, ByTask, walk
  <1>2. events \in Seq(ScanEvents) /\ batch \in Seq(RowEvents) /\ failures \in Nat
    BY <1>1, Zenon DEF Base, Types, LookupTypesOK, StoreTypes
  <1>3. /\ h \in ScanEvents /\ 1 \in DOMAIN events /\ events[1] = h
        /\ \A i \in DOMAIN Tail(events) : i + 1 \in DOMAIN events /\ Tail(events)[i] = events[i + 1]
        /\ \A i \in DOMAIN events : i = 1 \/ (i - 1 \in DOMAIN Tail(events) /\ Tail(events)[i - 1] = events[i])
    BY <1>1, <1>2, TailFacts, Zenon DEF TailLaws
  <1>4. ~h.error => h \in RowEvents
    BY <1>3 DEF Failure, ScanEvents
  <1>5. /\ \A i \in DOMAIN batch : i \in DOMAIN batch' /\ batch'[i] = batch[i]
        /\ \A i \in DOMAIN batch' : (i \in DOMAIN batch /\ batch'[i] = batch[i]) \/ (batch'[i] = h /\ ~h.error)
        /\ ~h.error => \E i \in DOMAIN batch' : batch'[i] = h
    <2>1. CASE batch' = batch /\ h.error
      BY <2>1, Zenon
    <2>2. CASE ~h.error /\ batch' = Append(batch, h)
      <3>1. PICK r \in RowEvents : r = h
        BY <1>4, <2>2, Zenon
      <3>2. /\ Len(batch) + 1 \in DOMAIN Append(batch, r) /\ Append(batch, r)[Len(batch) + 1] = r
            /\ \A i \in DOMAIN batch : i \in DOMAIN Append(batch, r) /\ Append(batch, r)[i] = batch[i]
            /\ \A i \in DOMAIN Append(batch, r) :
                 i = Len(batch) + 1 \/ (i \in DOMAIN batch /\ Append(batch, r)[i] = batch[i])
        BY <1>2, AppendFacts DEF AppendLaws
      <3>. QED
        BY <2>2, <3>1, <3>2, Zenon
    <2>. QED
      BY <1>1, <2>1, <2>2, Zenon
  <1>6. Truthful'
    <2>1. \A r : Right(r)' <=> Right(r)
      BY <1>1, SameTree, Zenon DEF SamePath
    <2>2. \A i \in DOMAIN events' : ~events'[i].error => Right(events'[i])
      BY <1>1, <1>3, Zenon DEF Truthful
    <2>3. ~h.error => Right(h)
      BY <1>1, <1>3, Zenon DEF Truthful
    <2>4. \A i \in DOMAIN batch' : Right(batch'[i])
      BY <1>1, <1>5, <2>3, Zenon DEF Truthful
    <2>. QED
      BY <2>1, <2>2, <2>4, Zenon DEF Truthful
  <1>7. Clean' => Clean
    BY <1>1, <1>2 DEF Clean
  <1>8. ASSUME NEW path \in Seq(Names)
        PROVE  (Stored(path) \/ Rowed(path) \/ Sent(path)) => (Stored(path) \/ Rowed(path) \/ Sent(path))'
    <2>1. /\ \A q : Lookup(q)' = Lookup(q)
          /\ \A r : RowOf(r, path)' <=> RowOf(r, path)
      BY <1>1, SameTree, Zenon DEF SamePath
    <2>2. Stored(path) => Stored(path)'
      BY <1>1, <2>1, Zenon DEF Stored
    <2>3. Sent(path) => Sent(path)'
      BY <1>1, Zenon DEF Sent
    <2>4. ASSUME NEW i \in DOMAIN events, ~events[i].error, RowOf(events[i], path) PROVE Rowed(path)'
      <3>1. PICK r : r = events[i]
        BY Zenon
      <3>2. ~r.error /\ RowOf(r, path)'
        BY <2>1, <2>4, <3>1, Zenon
      <3>3. CASE i = 1
        BY <1>3, <1>5, <3>1, <3>2, <3>3, Zenon DEF Rowed
      <3>4. CASE i # 1
        BY <1>1, <1>3, <3>1, <3>2, <3>4, Zenon DEF Rowed
      <3>. QED
        BY <3>3, <3>4, Zenon
    <2>5. ASSUME NEW i \in DOMAIN batch, RowOf(batch[i], path) PROVE Rowed(path)'
      <3>1. PICK r : r = batch[i]
        BY Zenon
      <3>2. RowOf(r, path)' /\ i \in DOMAIN batch' /\ batch'[i] = r
        BY <1>5, <2>1, <2>5, <3>1, Zenon
      <3>. QED
        BY <3>2, Zenon DEF Rowed
    <2>. QED
      BY <2>2, <2>3, <2>4, <2>5, Zenon DEF Rowed
  <1>. QED
    BY <1>1, <1>6, <1>7, <1>8, QuietKeeps, Zenon

\* A batch that is stored leaves its rows and their edges in the catalog.
LEMMA PersistKeeps ==
  ASSUME Laws, ScanInv, Persist
  PROVE  Aimed' /\ Truthful' /\ Covered'
  <1>1. /\ task = "drain" /\ Base /\ FsTypes /\ Truthful
        /\ db' = upsert_lustre_scan_batch(db, batch) /\ batch' = <<>>
        /\ UNCHANGED <<world, link, moved, work, walker, enricher, posix, events, progress, failures>>
    BY Zenon DEF ScanInv, Base, Types, Persist, Due, ByTask, walk
  <1>2. batch \in Seq(RowEvents) /\ db \in ScanTables
    BY <1>1, Zenon DEF Base, Types, StoreTypes
  <1>3. /\ \A o \in Objects : db.entry[o] # None => db'.entry[o] # None
        /\ \A j \in 1..Len(batch) : db'.entry[batch[j].obj] # None
        /\ \A p \in Places, o \in Objects :
             Agree(batch, p, o) /\ (db.edge[p] = o \/ p \in Places1(batch, Len(batch))) => db'.edge[p] = o
    <2> DEFINE new == upsert_lustre_scan_batch(db, batch)
    <2>1. /\ \A o \in Objects : db.entry[o] # None => new.entry[o] # None
          /\ \A j \in 1..Len(batch) : new.entry[batch[j].obj] # None
          /\ \A p \in Places, o \in Objects :
               Agree(batch, p, o) /\ (db.edge[p] = o \/ p \in Places1(batch, Len(batch))) => new.edge[p] = o
      BY <1>2, BatchFacts, Zenon DEF BatchStores
    <2> HIDE DEF new
    <2>2. db' = new
      BY <1>1, Zenon DEF new
    <2>. QED
      BY <2>1, <2>2, Zenon
  <1>4. Truthful'
    BY <1>1, SameTree DEF Truthful, SamePath
  <1>5. Clean' => Clean
    BY <1>1, Zenon DEF Clean
  <1>6. ASSUME NEW path \in Seq(Names), Due1(path)
        PROVE  (Stored(path) \/ Rowed(path) \/ Sent(path)) => (Stored(path) \/ Rowed(path) \/ Sent(path))'
    <2> DEFINE o == Lookup(path)
               p == <<Lookup(Parent(path)), path[Len(path)]>>
    <2>1. /\ o \in Objects /\ p \in Places /\ p \notin moved /\ link[p] = o
      BY <1>1, <1>6, DueEnd, Zenon DEF PlaceAtEnd
    <2>2. Agree(batch, p, o)
      <3>1. \A j \in DOMAIN batch : Right(batch[j])
        BY <1>1, Zenon DEF Truthful
      <3>2. DOMAIN batch = 1..Len(batch)
        BY <1>2
      <3>. QED
        BY <2>1, <3>1, <3>2, Zenon DEF Agree, Right
    <2>3. /\ Lookup(path)' = Lookup(path) /\ Lookup(Parent(path))' = Lookup(Parent(path))
          /\ \A r : RowOf(r, path)' <=> RowOf(r, path)
      BY <1>1, SameTree, Zenon DEF Parent, SamePath
    <2>4. db'.entry[o] # None /\ db'.edge[p] = o => Stored(path)'
      BY <2>3, Zenon DEF Stored
    <2>5. Stored(path) => Stored(path)'
      BY <1>3, <2>1, <2>2, <2>4, Zenon DEF Stored
    <2>6. ASSUME NEW j \in DOMAIN batch, RowOf(batch[j], path) PROVE Stored(path)'
      <3>1. batch[j].obj = o /\ At(batch[j].row) = p
        BY <2>6, Zenon DEF RowOf
      <3>2. j \in 1..Len(batch) /\ batch[j] \in RowEvents
        BY <1>2
      <3>3. batch[j].row.parent # None
        BY <2>1, <3>1, Constants, Zenon DEF At, NoneApart
      <3>4. p \in Places1(batch, Len(batch))
        BY <3>1, <3>2, <3>3, Zenon DEF Places1
      <3>5. db'.edge[p] = o
        BY <1>3, <2>1, <2>2, <3>4, Zenon
      <3>6. db'.entry[o] # None
        BY <1>3, <3>1, <3>2, Zenon
      <3>. QED
        BY <2>4, <3>5, <3>6, Zenon
    <2>7. (\E i \in DOMAIN events : ~events[i].error /\ RowOf(events[i], path)) => Rowed(path)'
      BY <1>1, <2>3, Zenon DEF Rowed
    <2>8. Sent(path) => Sent(path)'
      BY <1>1, Zenon DEF Sent
    <2>. QED
      BY <2>5, <2>6, <2>7, <2>8, Zenon DEF Rowed
  <1>. QED
    BY <1>1, <1>4, <1>5, <1>6, QuietKeeps, Zenon

-----------------------------------------------------------------------------
(* Users, the start and the end.                                           *)

\* A path that stays whatever a user does led to the same object before.
StayedPath(path) ==
  /\ StaysIn(link, moved, path) /\ Lookup(path)' = Lookup(path)
  /\ path # <<>> => Lookup(Parent(path))' = Lookup(Parent(path))
  /\ Due1(path)' => Due1(path)

\* So it is for a rename or an unlink.
LEMMA UserPath ==
  ASSUME Laws, Base, (\E p, q \in Places : Rename(p, q)) \/ (\E p \in Places : Unlink(p)),
         NEW path \in Seq(Names), StaysIn(link, moved, path)'
  PROVE  StayedPath(path)
  <1> USE DEF StayedPath
  <1>1. /\ moved \subseteq moved' /\ world' = world
        /\ \A p \in Places : p \notin moved' => link'[p] = link[p]
    BY UserBase, Zenon DEF UserEffect
  <1>2. StaysIn(link', moved', path)
    BY Zenon DEF StaysIn
  <1>3. \A i \in 0..Len(path) : LookupIn(link', Prefix(path, i)) = LookupIn(link, Prefix(path, i))
    <2>1. PICK new, gone, tree : new = link' /\ gone = moved' /\ tree = link
      BY Zenon
    <2>2. (\A p \in Places : p \notin gone => new[p] = tree[p]) /\ StaysIn(new, gone, path)
      BY <1>1, <1>2, <2>1, Zenon
    <2>3. \A i \in 0..Len(path) : LookupIn(new, Prefix(path, i)) = LookupIn(tree, Prefix(path, i))
      BY <2>2, Unmoved
    <2>. QED
      BY <2>1, <2>3, Zenon
  <1>4. Len(path) \in 0..Len(path) /\ Len(path) \in Nat /\ \A i \in 1..Len(path) : i - 1 \in 0..Len(path)
    BY Prefixes DEF PrefixLaws
  <1>5. LookupIn(link', path) = LookupIn(link, path)
    BY <1>3, <1>4, Prefixes, Zenon DEF PrefixLaws
  <1>6. StaysIn(link, moved, path)
    <2>1. LookupIn(link, path) # None
      BY <1>2, <1>5, Zenon DEF StaysIn
    <2>2. ASSUME NEW i \in 1..Len(path) PROVE <<LookupIn(link, Prefix(path, i - 1)), path[i]>> \notin moved
      BY <1>1, <1>2, <1>3, <1>4, Zenon DEF StaysIn
    <2>. QED
      BY <2>1, <2>2, Zenon DEF StaysIn
  <1>7. Lookup(path)' = Lookup(path)
    BY <1>5, Zenon DEF Lookup
  <1>8. path # <<>> => Lookup(Parent(path))' = Lookup(Parent(path))
    BY <1>3, <1>4 DEF Parent, Lookup
  <1>9. Due1(path)' => Due1(path)
    BY <1>1, <1>6, <1>7, Zenon DEF Due1, Wanted, Ignored, IsDir
  <1>. QED
    BY <1>6, <1>7, <1>8, <1>9, Zenon

\* What a user does concerns no path that stays.
LEMMA UserKeeps ==
  ASSUME Laws, ScanInv, (\E p, q \in Places : Rename(p, q)) \/ (\E p \in Places : Unlink(p))
  PROVE  (task' = "drain" => Aimed' /\ Truthful') /\ Covered' /\ Complete'
  <1>1. /\ Base /\ moved \subseteq moved'
        /\ UNCHANGED <<world, task, work, walker, posix, enricher, events, db, batch, failures, progress, partly>>
        /\ \A p \in Places : p \notin moved' => link'[p] = link[p]
    BY UserBase, Zenon DEF ScanInv, UserEffect
  <1>2. ASSUME task' = "drain" PROVE Aimed'
    <2> SUFFICES ASSUME NEW w \in Walkers PROVE Heads(walker[w])'
      BY Zenon DEF Aimed
    <2>1. Heads(walker[w]) /\ walker'[w] = walker[w]
      BY <1>1, <1>2, Zenon DEF ScanInv, Aimed
    <2>2. PICK rec : rec = walker[w]
      BY Zenon
    <2>3. rec.path \in Seq(Names)
      BY <1>1, <2>2, WalkerHas, Zenon DEF WalkerTyped
    <2>4. ASSUME rec.pc \in {"read", "stat"}, StaysIn(link, moved, rec.path)' PROVE rec.dir = Lookup(rec.path)'
      <3>1. StaysIn(link, moved, rec.path) /\ Lookup(rec.path)' = Lookup(rec.path)
        BY <1>1, <2>3, <2>4, UserPath, Zenon DEF StayedPath
      <3>. QED
        BY <2>1, <2>2, <2>4, <3>1, Zenon DEF Heads
    <2>5. ASSUME rec.pc = "stat", <<rec.dir, Head(rec.todo)>> \notin moved'
          PROVE  ~IsDir(link'[<<rec.dir, Head(rec.todo)>>])
      <3>1. rec.dir \in Directories /\ Head(rec.todo) \in Names
        BY <1>1, <2>2, <2>5, WalkerHas, Zenon DEF WalkerTyped
      <3>2. <<rec.dir, Head(rec.todo)>> \in Places
        BY <3>1, Constants, Zenon DEF NoneApart
      <3>3. link'[<<rec.dir, Head(rec.todo)>>] = link[<<rec.dir, Head(rec.todo)>>] /\ <<rec.dir, Head(rec.todo)>> \notin moved
        BY <1>1, <2>5, <3>2, Zenon
      <3>4. ~IsDir(link[<<rec.dir, Head(rec.todo)>>])
        BY <2>1, <2>2, <2>5, <3>3, Zenon DEF Heads
      <3>. QED
        BY <3>3, <3>4, Zenon
    <2>6. Heads(rec)'
      BY <2>4, <2>5, Zenon DEF Heads, IsDir
    <2>. QED
      BY <2>1, <2>2, <2>6, Zenon DEF Heads
  <1>3. ASSUME task' = "drain" PROVE Truthful'
    BY <1>1, <1>3, Zenon DEF Right, ScanInv, Truthful
  <1>4. ASSUME NEW path \in Seq(Names), Due1(path)'
        PROVE  /\ Due1(path) /\ Lookup(path)' = Lookup(path) /\ Lookup(Parent(path))' = Lookup(Parent(path))
               /\ Stored(path) => Stored(path)'
    <2>1. StaysIn(link, moved, path)' /\ path # <<>>
      BY <1>4, Zenon DEF Due1
    <2>2. Due1(path) /\ Lookup(path)' = Lookup(path) /\ Lookup(Parent(path))' = Lookup(Parent(path))
      BY <1>1, <1>4, <2>1, UserPath, Zenon DEF StayedPath
    <2>3. Stored(path) => Stored(path)'
      BY <1>1, <2>2, Zenon DEF Stored
    <2>. QED
      BY <2>2, <2>3, Zenon
  <1>5. Covered'
    <2> SUFFICES ASSUME task' = "drain", Clean', NEW path \in Seq(Names), Due1(path)' PROVE Cover(path)'
      BY Zenon DEF Covered
    <2>1. /\ Due1(path) /\ Lookup(path)' = Lookup(path) /\ Lookup(Parent(path))' = Lookup(Parent(path))
          /\ Stored(path) => Stored(path)'
      BY <1>4, Zenon
    <2>2. Cover(path)
      BY <1>1, <2>1, Zenon DEF ScanInv, Covered, Clean
    <2>3. \A r : RowOf(r, path) => RowOf(r, path)'
      BY <2>1, Zenon DEF RowOf
    <2>4. Rowed(path) => Rowed(path)'
      BY <1>1, <2>3, Zenon DEF Rowed
    <2>5. Sent(path) => Sent(path)'
      BY <1>1, Zenon DEF Sent
    <2>6. ToCome(path) => ToCome(path)'
      BY <1>1, Zenon DEF ToCome, InQueue, Brings
    <2>. QED
      BY <2>1, <2>2, <2>4, <2>5, <2>6, Zenon DEF Cover
  <1>6. Complete'
    BY <1>1, <1>4, Zenon DEF ScanInv, Complete, Rows, Finished
  <1>. QED
    BY <1>2, <1>3, <1>5, <1>6, Zenon

\* A scan starts with the root queued.
LEMMA StartKeeps ==
  ASSUME Laws, Start
  PROVE  Aimed' /\ Truthful' /\ Covered'
  <1>1. /\ work' = Fresh.work /\ walker' = Fresh.walker /\ events' = <<>> /\ batch' = <<>>
    BY Zenon DEF Start, Begins
  <1>2. Aimed'
    BY <1>1, FreshFacts, Zenon DEF Aimed, Heads, FreshWalk
  <1>3. Truthful'
    BY <1>1 DEF Truthful
  <1>4. ASSUME NEW path \in Seq(Names) PROVE InQueue(path)'
    <2>1. 1 \in DOMAIN work' /\ work'[1] = Prefix(path, 0) /\ 0 \in 0..Len(path)
      BY <1>1, Prefixes, FreshFacts DEF PrefixLaws, FreshWalk
    <2>. QED
      BY <2>1, Zenon DEF InQueue
  <1>5. Covered'
    BY <1>4, Zenon DEF Covered, Cover, ToCome
  <1>. QED
    BY <1>2, <1>3, <1>5, Zenon

\* When everything is drained and there was no error, all is stored.
LEMMA EndStored ==
  ASSUME Laws, ScanInv, End, Clean, NEW path \in Seq(Names), Due1(path)
  PROVE  Stored(path)
  <1>1. /\ Base /\ Covered /\ task = "drain" /\ batch = <<>> /\ events = <<>>
        /\ \A e \in Enrichers : enricher[e].pc = "done"
    BY Zenon DEF ScanInv, End, Drained
  <1>2. PICK e \in Enrichers : enricher[e].pc = "done"
    BY <1>1, ScanAssumption, Zenon
  <1>3. posix = <<>> /\ \A w \in Walkers : walker[w].pc = "done"
    BY <1>1, <1>2, Zenon DEF Base, Queued
  <1>4. PICK w \in Walkers : walker[w].pc = "done"
    BY <1>3, ScanAssumption, Zenon
  <1>5. pending = 0 /\ pending = Len(work) + Cardinality(Busy) /\ work \in Seq(Seq(Names))
    BY <1>1, <1>4, Zenon DEF Base, Queued, Types, WalkTypes
  <1>6. Cardinality(Busy) \in Nat
    BY ScanAssumption, FiniteLaw, Zenon DEF Busy
  <1>7. DOMAIN work = {}
    BY <1>5, <1>6
  <1>8. ~InQueue(path)
    BY <1>7, Zenon DEF InQueue
  <1>9. \A v \in Walkers : ~Brings(walker[v], path)
    BY <1>3, BringsWhat, Zenon
  <1>10. DOMAIN posix = {} /\ DOMAIN events = {} /\ DOMAIN batch = {}
    BY <1>1, <1>3
  <1>11. ~Rowed(path)
    BY <1>10, Zenon DEF Rowed
  <1>12. ~Sent(path)
    BY <1>1, <1>10, Zenon DEF Sent
  <1>. QED
    BY <1>1, <1>8, <1>9, <1>11, <1>12, Zenon DEF Covered, Cover, ToCome

\* A scan that ends without errors is complete.
LEMMA EndKeeps ==
  ASSUME Laws, ScanInv, End
  PROVE  Complete'
  <1>1. /\ Base /\ task' = Outcome
        /\ UNCHANGED <<world, link, moved, db, batch, failures, progress, partly>>
    BY Zenon DEF ScanInv, End, ByTask, store
  <1>2. task' \in {"start", "ingest", "Failed", "Completed"}
    BY <1>1, Zenon DEF Outcome
  <1>3. progress \in [scanned : Nat, errors : Nat] /\ failures \in Nat
    BY <1>1, Zenon DEF Base, Types, PosixTypes, StoreTypes
  <1>4. PICK m \in Nat : m = progress.errors
    BY <1>3, Zenon
  <1>5. ASSUME Finished' PROVE Clean
    <2>1. CASE task' = "ingest"
      BY <1>1, <1>4, <2>1 DEF Outcome, Initial, Clean
    <2>2. CASE task' # "ingest"
      BY <1>1, <1>3, <1>4, <1>5, <2>2 DEF Finished, Clean
    <2>. QED
      BY <2>1, <2>2, Zenon
  <1>6. ASSUME Finished', NEW path \in Seq(Names), Due1(path)' PROVE Stored(path)'
    BY <1>1, <1>5, <1>6, SameTree, EndStored, Zenon DEF Parent, Stored, SamePath
  <1>7. task' # "count"
    BY <1>2, Zenon
  <1>. QED
    BY <1>6, <1>7, Zenon DEF Complete

\* The invariant at the start.
LEMMA InvInit ==
  ASSUME Laws, Init
  PROVE  ScanInv
  BY InitBase, EmptyTables, Zenon DEF Init, Finished, ScanInv, Covered, Complete

\* A step to a scan that goes on or starts again completes nothing.
LEMMA NotComplete ==
  ASSUME task' \in {"drain", "start"}
  PROVE  Complete'
  BY Zenon DEF Finished, Complete

\* Every step keeps the invariant.
LEMMA InvNext ==
  ASSUME Laws, ScanInv, [Next]_vars
  PROVE  ScanInv'
  <1>1. Base /\ Base'
    BY BaseNext, Zenon DEF ScanInv
  <1> DEFINE Kept == (task' = "drain" => Aimed' /\ Truthful') /\ Covered' /\ Complete'
  <1>2. Kept => ScanInv'
    BY <1>1, Zenon DEF ScanInv
  <1>3. CASE UNCHANGED vars
    <2>1. UNCHANGED <<world, link, task, work, walker, posix, enricher, events, db, batch, failures, progress, moved, partly>>
      BY <1>3, Zenon DEF vars, walk, lookup, store
    <2>2. \A path, q : Lookup(path)' = Lookup(path) /\ (Due1(path)' <=> Due1(path))
      BY <2>1, SameTree, Zenon DEF SamePath
    <2>3. \A path : (\A r : RowOf(r, path)' <=> RowOf(r, path))
      BY <2>1, SameTree, Zenon DEF SamePath
    <2>4. (\A r : Right(r)' <=> Right(r)) /\ (\A rec : Heads(rec)' <=> Heads(rec))
      BY <2>1, SameTree, Zenon DEF SamePath
    <2>5. Aimed => Aimed'
      BY <2>1, <2>4, Zenon DEF Aimed
    <2>6. Truthful => Truthful'
      BY <2>1, <2>4, Zenon DEF Truthful
    <2>7. \A path : Stored(path) => Stored(path)'
      BY <2>1, <2>2, Zenon DEF Stored, Parent
    <2>8. \A path : Cover(path) => Cover(path)'
      <3> TAKE path
      <3>1. Rowed(path) => Rowed(path)'
        BY <2>1, <2>3, Zenon DEF Rowed
      <3>2. Sent(path) => Sent(path)'
        BY <2>1, Zenon DEF Sent
      <3>3. ToCome(path) => ToCome(path)'
        BY <2>1, Zenon DEF ToCome, InQueue, Brings
      <3>. QED
        BY <2>7, <3>1, <3>2, <3>3, Zenon DEF Cover
    <2>9. Covered'
      BY <2>1, <2>2, <2>8, Zenon DEF ScanInv, Covered, Clean
    <2>10. Complete'
      BY <2>1, <2>2, <2>7, Zenon DEF ScanInv, Complete, Finished, Rows
    <2>. QED
      BY <1>2, <2>1, <2>5, <2>6, <2>9, <2>10, Zenon DEF ScanInv
  <1>4. ASSUME task = "drain", NEW w \in Walkers, Walk(w) PROVE Kept
    BY <1>4, NotComplete, WalkKeeps, Zenon DEF Walk, Take, Quit, EmitSelf, ReadDir, NextEntry, ReadFails,
       EmitEntry, Finish, ByWalker
  <1>5. ASSUME task = "drain", NEW e \in Enrichers, LookUp(e) PROVE Kept
    BY <1>5, NotComplete, TakeEventKeeps, EnrichKeeps, Zenon DEF LookUp, TakeEvent, EnricherQuits, Enrich, ByEnricher
  <1>6. ASSUME Count PROVE Kept
    <2>1. /\ task = "count" /\ task' \in {"start", "ingest"} /\ UNCHANGED <<db, partly>>
          /\ task' = "start" \/ task' = IF scoped_entry_count(db) = 0 THEN "start" ELSE "ingest"
      BY <1>6, Zenon DEF Count, store
    <2>2. ~partly => task' = "start"
      BY <2>1, FreshFacts, Zenon DEF ScanInv, Complete, scoped_entry_count, FreshWalk
    <2>3. task' # "drain" /\ task' # "count"
      BY <2>1, Zenon
    <2>4. Complete'
      BY <2>1, <2>2, <2>3, NotComplete, Zenon DEF Complete
    <2>. QED
      BY <2>3, <2>4, Zenon DEF Covered
  <1>7. ASSUME Start PROVE Kept
    BY <1>7, NotComplete, StartKeeps, Zenon DEF Start
  <1>8. ASSUME Receive \/ Persist PROVE Kept
    BY <1>8, NotComplete, ReceiveKeeps, PersistKeeps, Zenon DEF Receive, Persist, Due
  <1>9. ASSUME End PROVE Kept
    <2>1. task' # "drain"
      BY <1>9, Zenon DEF End, Outcome
    <2>2. Complete'
      BY <1>9, EndKeeps, Zenon
    <2>. QED
      BY <2>1, <2>2, Zenon DEF Covered
  <1>10. ASSUME PersistFails PROVE Kept
    <2>1. task = "drain" /\ world' = world
      BY <1>10, Zenon DEF PersistFails, Due, ByTask
    <2>2. CASE Initial
      BY <1>10, <2>2, NotComplete, Zenon DEF PersistFails, Covered
    <2>3. CASE ~Initial
      <3>1. /\ task' = "drain" /\ batch' = <<>> /\ failures' = failures + 1 /\ world.api
            /\ UNCHANGED <<world, link, moved, walker, events>>
        BY <1>10, <2>1, <2>3, Zenon DEF PersistFails, Initial, ByTask, walk
      <3>2. failures \in Nat
        BY <1>1, Zenon DEF Base, Types, StoreTypes
      <3>3. failures' # 0
        BY <3>1, <3>2
      <3>4. Covered'
        BY <3>1, <3>3, Zenon DEF Covered, Clean
      <3>5. Complete'
        BY <3>1, NotComplete, Zenon
      <3>6. (\A r : Right(r)' <=> Right(r)) /\ (\A rec : Heads(rec)' <=> Heads(rec))
        BY <3>1, SameTree, Zenon DEF SamePath
      <3>7. Aimed'
        BY <2>1, <3>1, <3>6, Zenon DEF ScanInv, Aimed
      <3>8. Truthful'
        BY <2>1, <3>1, <3>6 DEF ScanInv, Truthful
      <3>. QED
        BY <3>4, <3>5, <3>7, <3>8, Zenon
    <2>. QED
      BY <2>2, <2>3, Zenon
  <1>11. ASSUME Crash PROVE Kept
    BY <1>11, Zenon DEF Crash, Finished, Complete, Rows, Covered
  <1>12. ASSUME (\E p, q \in Places : Rename(p, q)) \/ (\E p \in Places : Unlink(p)) PROVE Kept
    BY <1>12, UserKeeps, Zenon
  <1> HIDE DEF Kept
  <1>. QED
    BY <1>2, <1>3, <1>4, <1>5, <1>6, <1>7, <1>8, <1>9, <1>10, <1>11, <1>12, Zenon DEF Next, Task

\* A path of the property is one the invariant speaks of.
LEMMA PathsAre ==
  ASSUME Laws, NEW path \in Paths
  PROVE  /\ path \in Seq(Names) /\ path # <<>>
         /\ Front(path) = Parent(path) /\ Last(path) = path[Len(path)]
  <1>1. Cardinality(Dirs) \in Nat
    BY CatalogAssumption, FiniteLaw, Zenon
  <1>2. PICK n \in 1..(Cardinality(Dirs) + 1) : path \in [1..n -> Names]
    BY Zenon DEF Paths
  <1>3. n \in Nat /\ n > 0
    BY <1>1, <1>2
  <1>4. path \in Seq(Names) /\ Len(path) = n
    BY <1>2, <1>3
  <1>5. path # <<>>
    BY <1>3, <1>4
  <1>. QED
    BY <1>4, <1>5, Zenon DEF Front, Parent, Prefix, Last

\* The invariant implies that a scan that ended is complete.
LEMMA InvComplete ==
  ASSUME Laws, ScanInv
  PROVE  ScanComplete
  <1> SUFFICES ASSUME Finished, ~partly, NEW path \in Paths, Stays(path), Wanted(path)
               PROVE  /\ db.entry[Lookup(path)] # None
                      /\ db.edge[<<Lookup(Front(path)), Last(path)>>] = Lookup(path)
    BY Zenon DEF ScanComplete
  <1>1. path \in Seq(Names) /\ path # <<>> /\ Front(path) = Parent(path) /\ Last(path) = path[Len(path)]
    BY PathsAre, Zenon
  <1>2. StaysIn(link, moved, path)
    BY Zenon DEF Stays, StaysIn, Lookup, Prefix
  <1>3. Stored(path)
    BY <1>1, <1>2, Zenon DEF ScanInv, Complete, Due1
  <1>. QED
    BY <1>1, <1>3, Zenon DEF Stored

-----------------------------------------------------------------------------
(* The theorems.                                                           *)

INSTANCE FiniteSetTheorems

\* A set of numbers has a least element: the numbers are well-founded.
LEMMA LeastNumber == \A T : T \subseteq Nat /\ T # {} => \E m \in T : \A n \in T : m <= n
  <1> SUFFICES ASSUME NEW T, T \subseteq Nat, T # {} PROVE \E m \in T : \A n \in T : m <= n
    BY Zenon
  <1> DEFINE less == OpToRel(<, Nat)
  <1>1. \A x, y \in Nat : y < x => <<y, x>> \in less
    BY Zenon DEF OpToRel
  <1>2. IsWellFoundedOn(less, Nat)
    BY NatLessThanWellFounded, Zenon
  <1> HIDE DEF less
  <1>3. PICK x \in T : \A y \in T : ~(<<y, x>> \in less)
    BY <1>2, WFMin, Zenon
  <1>4. ASSUME NEW n \in T PROVE x <= n
    <2>1. n \in Nat /\ x \in Nat /\ <<n, x>> \notin less
      BY <1>3, Zenon
    <2>. QED
      BY <1>1, <2>1
  <1>. QED
    BY <1>4, Zenon

\* The laws hold.
LEMMA LawsHold == Laws
  <1>1. IsFiniteSet({}) /\ Cardinality({}) = 0
    BY FS_EmptySet, Zenon
  <1>2. \A x : IsFiniteSet({x})
    BY FS_Singleton, Zenon
  <1>3. \A a, b \in Int : IsFiniteSet(a..b)
    BY FS_Interval, Zenon
  <1>4. \A S : IsFiniteSet(S) => Cardinality(S) \in Nat
    BY FS_CardinalityType, Zenon
  <1>5. \A S, x : IsFiniteSet(S) /\ x \notin S
          => IsFiniteSet(S \cup {x}) /\ Cardinality(S \cup {x}) = Cardinality(S) + 1
    BY FS_AddElement, Zenon
  <1>6. \A S : IsFiniteSet(S) => \A T \in SUBSET S : IsFiniteSet(T)
    BY FS_Subset, Zenon
  <1>7. \A S, T : IsFiniteSet(S) /\ IsFiniteSet(T) => IsFiniteSet(S \cup T) /\ IsFiniteSet(S \X T)
    BY FS_Union, FS_Product, Zenon
  <1>8. \A S, T : IsFiniteSet(S) /\ ExistsBijection(S, T) => Cardinality(T) = Cardinality(S)
    BY FS_Bijection, Zenon
  <1>. QED
    BY LeastNumber, <1>1, <1>2, <1>3, <1>4, <1>5, <1>6, <1>7, <1>8, Zenon DEF Laws

\* Types, queue and tally in all behaviours.
LEMMA BaseHolds == Spec => []Base
  <1>1. Init => Base
    BY LawsHold, InitBase, Zenon
  <1>2. Base /\ [Next]_vars => Base'
    BY LawsHold, BaseNext, Zenon
  <1>. QED
    BY <1>1, <1>2, PTL DEF Spec

\* Every variable has its type, the counters do not go below zero, and pending
\* counts the directories queued or walked (posix.rs, pending.fetch_add and
\* fetch_sub; the scanned counter of walker.rs).
THEOREM ScanTypes == Spec => []TypeOK
  <1>1. Base => TypeOK
    BY BaseTypes, Zenon
  <1>. QED
    BY <1>1, BaseHolds, PTL

\* When the last event is out, scanned is the number of rows handed over: every
\* entry was counted once, also if its lookup failed later (walker.rs).
THEOREM ScannedRowsReceived == Spec => []ScannedIsReceived
  <1>1. Base => ScannedIsReceived
    BY LawsHold, BaseReceived, Zenon
  <1>. QED
    BY <1>1, BaseHolds, PTL

\* A scan that ends without errors has stored every entry whose path stayed as it
\* was during the scan, however the walkers, lookups, users, faults and crashes
\* interleave, and whatever the channels, batches and numbers of workers (posix.rs,
\* walker.rs, run_initial_scan, start_scan).
THEOREM ScansAreComplete == Spec => []ScanComplete
  <1>1. Init => ScanInv
    BY LawsHold, InvInit, Zenon
  <1>2. ScanInv /\ [Next]_vars => ScanInv'
    BY LawsHold, InvNext, Zenon
  <1>3. ScanInv => ScanComplete
    BY LawsHold, InvComplete, Zenon
  <1>. QED
    BY <1>1, <1>2, <1>3, PTL DEF Spec
=============================================================================
