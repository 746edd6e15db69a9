--------------------------- MODULE MerkProofProofs ---------------------------
(***************************************************************************)
(* Proofs about MerkProof: what a verified proof shows is the chain's, and *)
(* an honest proof is verified, for any keys and entries, trees of any     *)
(* size and proofs of any length.                                          *)
(***************************************************************************)
EXTENDS MerkProof, FiniteSetTheorems, SequenceTheorems, WellFoundedInduction, TLAPS

-----------------------------------------------------------------------------
(* The trees over a set of keys *)

LEMMA LeastNat ==
  ASSUME NEW S, S \subseteq Nat, S # {}
  PROVE  \E n \in S : \A m \in S : n <= m
<1> DEFINE R == {ss \in Nat \X Nat : ss[1] < ss[2]}
<1>1. IsWellFoundedOn(R, Nat)
  BY NatLessThanWellFounded DEF OpToRel
<1>2. PICK n \in S : \A m \in S : ~(<<m, n>> \in R)
  <2> HIDE DEF R
  <2> QED BY <1>1, WFMin
<1>3. ASSUME NEW m \in S PROVE n <= m
  <2>1. <<m, n>> \in Nat \X Nat /\ ~(<<m, n>> \in R)
    BY <1>2
  <2>2. ~(m < n)
    BY <2>1
  <2> QED BY <2>2
<1> QED BY <1>3

LEMMA SetsAreFinite ==
  ASSUME NEW S \in SUBSET Keys
  PROVE  S \subseteq Nat /\ IsFiniteSet(S) /\ Cardinality(S) \in Nat
BY MerkAssumption, FS_Subset, FS_CardinalityType

LEMMA SidesAreSmaller ==
  ASSUME NEW S \in SUBSET Keys, NEW k \in S
  PROVE  /\ Before(S, k) \in SUBSET Keys /\ After(S, k) \in SUBSET Keys
         /\ Cardinality(Before(S, k)) \in Nat /\ Cardinality(After(S, k)) \in Nat
         /\ Cardinality(Before(S, k)) < Cardinality(S) /\ Cardinality(After(S, k)) < Cardinality(S)
<1>1. S \subseteq Nat /\ IsFiniteSet(S) /\ Cardinality(S) \in Nat
  BY SetsAreFinite
<1>2. ASSUME NEW T \in SUBSET S, k \notin T
      PROVE  Cardinality(T) \in Nat /\ Cardinality(T) < Cardinality(S)
  <2>1. Cardinality(T) <= Cardinality(S) /\ Cardinality(T) # Cardinality(S) /\ IsFiniteSet(T)
    BY <1>1, <1>2, FS_Subset
  <2>2. Cardinality(T) \in Nat
    BY <2>1, FS_CardinalityType
  <2> QED BY <1>1, <2>1, <2>2
<1>3. Before(S, k) \in SUBSET S /\ After(S, k) \in SUBSET S
  BY DEF Before, After
<1>4. k \notin Before(S, k) /\ k \notin After(S, k)
  BY <1>1 DEF Before, After
<1> QED BY <1>2, <1>3, <1>4

\* The body of Trees.
TreesOver(f, S) ==
  IF S = {} THEN {NoTree} ELSE UNION {Joined(k, f[Before(S, k)], f[After(S, k)]) : k \in S}

LEMMA SameOver ==
  ASSUME NEW f, NEW g, NEW S \in SUBSET Keys,
         \A k \in S : f[Before(S, k)] = g[Before(S, k)] /\ f[After(S, k)] = g[After(S, k)]
  PROVE  TreesOver(f, S) = TreesOver(g, S)
<1>1. \A k \in S : Joined(k, f[Before(S, k)], f[After(S, k)]) = Joined(k, g[Before(S, k)], g[After(S, k)])
  OBVIOUS
<1>2. {Joined(k, f[Before(S, k)], f[After(S, k)]) : k \in S} = {Joined(k, g[Before(S, k)], g[After(S, k)]) : k \in S}
  BY <1>1
<1> QED BY <1>2 DEF TreesOver

Small(n) == {S \in SUBSET Keys : Cardinality(S) <= n}

LEMMA TreesExist ==
  ASSUME NEW n \in Nat
  PROVE  \E f : f = [S \in Small(n) |-> TreesOver(f, S)]
<1> DEFINE Has(m) == \E f : f = [S \in Small(m) |-> TreesOver(f, S)]
           Bad == {m \in Nat : ~Has(m)}
<1>1. CASE Bad = {}
  BY <1>1
<1>2. CASE Bad # {}
  <2>1. PICK m \in Bad : \A i \in Bad : m <= i
    <3>1. Bad \subseteq Nat
      OBVIOUS
    <3> HIDE DEF Bad
    <3> QED BY <1>2, <3>1, LeastNat
  <2>2. m \in Nat /\ ~Has(m)
    OBVIOUS
  <2>3. CASE m = 0
    <3> DEFINE f == [S \in Small(0) |-> {NoTree}]
    <3>1. \A S \in Small(0) : S = {}
      <4> TAKE S \in Small(0)
      <4>1. S \in SUBSET Keys /\ Cardinality(S) <= 0
        BY DEF Small
      <4> QED BY <4>1, SetsAreFinite, FS_EmptySet
    <3>2. \A S \in Small(0) : TreesOver(f, S) = {NoTree}
      <4> HIDE DEF f
      <4> QED BY <3>1 DEF TreesOver
    <3>3. f = [S \in Small(0) |-> TreesOver(f, S)]
      BY <3>2
    <3> HIDE DEF f
    <3> QED BY <2>2, <2>3, <3>3
  <2>4. CASE m # 0
    <3>1. m - 1 \in Nat /\ ~(m <= m - 1)
      BY <2>2, <2>4
    <3>2. Has(m - 1)
      BY <2>1, <3>1
    <3>3. PICK f : f = [S \in Small(m - 1) |-> TreesOver(f, S)]
      BY <3>2
    <3> DEFINE g == [S \in Small(m) |-> TreesOver(f, S)]
    <3>4. \A S \in Small(m - 1) : S \in Small(m) /\ g[S] = f[S]
      <4> TAKE S \in Small(m - 1)
      <4>1. S \in SUBSET Keys /\ Cardinality(S) <= m - 1
        BY DEF Small
      <4>2. S \in Small(m)
        BY <4>1, <2>2, SetsAreFinite DEF Small
      <4>3. f[S] = TreesOver(f, S)
        BY <3>3
      <4> QED BY <4>2, <4>3
    <3>5. \A S \in Small(m) : TreesOver(f, S) = TreesOver(g, S)
      <4> TAKE S \in Small(m)
      <4>1. S \in SUBSET Keys /\ Cardinality(S) <= m /\ Cardinality(S) \in Nat
        BY SetsAreFinite DEF Small
      <4>2. \A k \in S : Before(S, k) \in Small(m - 1) /\ After(S, k) \in Small(m - 1)
        BY <4>1, <2>2, SidesAreSmaller DEF Small
      <4> HIDE DEF g
      <4> QED BY <3>4, <4>1, <4>2, SameOver
    <3>6. g = [S \in Small(m) |-> TreesOver(g, S)]
      BY <3>5
    <3> HIDE DEF g
    <3> QED BY <2>2, <3>6
  <2> QED BY <2>3, <2>4
<1> QED BY <1>1, <1>2

LEMMA TreesAre ==
  ASSUME NEW S \in SUBSET Keys
  PROVE  Trees[S] = TreesOver(Trees, S)
<1> DEFINE Eq(f) == f = [T \in SUBSET Keys |-> TreesOver(f, T)]
<1>1. SUBSET Keys = Small(Cardinality(Keys)) /\ Cardinality(Keys) \in Nat
  <2>1. IsFiniteSet(Keys)
    BY MerkAssumption
  <2> QED BY <2>1, FS_Subset, FS_CardinalityType DEF Small
<1>2. \E f : Eq(f)
  BY <1>1, TreesExist
<1>3. Trees = CHOOSE f : Eq(f)
  BY DEF Trees, TreesOver
<1>4. Eq(Trees)
  <2> HIDE DEF Eq
  <2> QED BY <1>2, <1>3
<1> QED BY <1>4

LEMMA TreeIsJoin ==
  ASSUME NEW S \in SUBSET Keys, S # {}, NEW t \in Trees[S]
  PROVE  \E k \in S : \E l \in Trees[Before(S, k)] : \E r \in Trees[After(S, k)] : t = Join(k, l, r)
<1>1. PICK k \in S : t \in Joined(k, Trees[Before(S, k)], Trees[After(S, k)])
  <2> DEFINE J(k) == Joined(k, Trees[Before(S, k)], Trees[After(S, k)])
  <2>1. Trees[S] = UNION {J(k) : k \in S}
    BY TreesAre DEF TreesOver
  <2> HIDE DEF J
  <2>2. \E k \in S : t \in J(k)
    BY <2>1
  <2> QED BY <2>2 DEF J
<1>2. PICK p \in Trees[Before(S, k)] \X Trees[After(S, k)] : t = Join(k, p[1], p[2])
  BY <1>1 DEF Joined
<1> QED BY <1>2

LEMMA NoKeysNoTree == Trees[{}] = {NoTree}
BY TreesAre DEF TreesOver

\* A tree over a set of keys has those keys, and no part of it is no child.
LEMMA TreeHasItsKeys ==
  ASSUME NEW S \in SUBSET Keys, NEW t \in Trees[S]
  PROVE  t.keys = S /\ NoChild \notin t.parts
<1> DEFINE OK(u, T) == u.keys = T /\ NoChild \notin u.parts
           Bad == {n \in Nat : \E T \in SUBSET Keys : Cardinality(T) = n /\ \E u \in Trees[T] : ~OK(u, T)}
<1>1. CASE Bad = {}
  BY <1>1, SetsAreFinite
<1>2. CASE Bad # {}
  <2>1. PICK n \in Bad : \A m \in Bad : n <= m
    <3>1. Bad \subseteq Nat
      OBVIOUS
    <3> HIDE DEF Bad
    <3> QED BY <1>2, <3>1, LeastNat
  <2>0. n \in Nat
    OBVIOUS
  <2>2. PICK T \in SUBSET Keys : Cardinality(T) = n /\ \E u \in Trees[T] : ~OK(u, T)
    OBVIOUS
  <2>3. PICK u \in Trees[T] : ~OK(u, T)
    BY <2>2
  <2>4. \A X \in SUBSET Keys : Cardinality(X) < n => \A v \in Trees[X] : OK(v, X)
    <3> SUFFICES ASSUME NEW X \in SUBSET Keys, Cardinality(X) < n, NEW v \in Trees[X], ~OK(v, X)
                 PROVE  FALSE
      OBVIOUS
    <3>1. Cardinality(X) \in Nat
      BY SetsAreFinite
    <3>2. Cardinality(X) \in Bad
      BY <3>1
    <3> HIDE DEF Bad, OK
    <3> QED BY <2>0, <2>1, <3>1, <3>2
  <2>5. CASE T = {}
    BY <2>3, <2>5, NoKeysNoTree DEF NoTree
  <2>6. CASE T # {}
    <3>1. PICK k \in T : \E l \in Trees[Before(T, k)] : \E r \in Trees[After(T, k)] : u = Join(k, l, r)
      BY <2>3, <2>6, TreeIsJoin
    <3>2. PICK l \in Trees[Before(T, k)] : \E r \in Trees[After(T, k)] : u = Join(k, l, r)
      BY <3>1
    <3>3. PICK r \in Trees[After(T, k)] : u = Join(k, l, r)
      BY <3>2
    <3>4. OK(l, Before(T, k)) /\ OK(r, After(T, k))
      <4> HIDE DEF OK
      <4> QED BY <2>2, <2>4, SidesAreSmaller
    <3>5. T = Before(T, k) \cup {k} \cup After(T, k)
      <4>1. T \subseteq Nat
        BY SetsAreFinite
      <4>2. \A j \in T : j < k \/ j = k \/ j > k
        BY <4>1
      <4> QED BY <4>2 DEF Before, After
    <3> DEFINE h == NodeHash(KvHash(k, StoredHash(Entry[k])), l.hash, r.hash)
    <3>6. u.keys = l.keys \cup {k} \cup r.keys /\ u.parts = l.parts \cup {h} \cup r.parts
      BY <3>3 DEF Join
    <3>7. h # NoChild
      BY DEF NodeHash, NoChild
    <3> HIDE DEF h
    <3> QED BY <2>3, <3>4, <3>5, <3>6, <3>7
  <2> QED BY <2>5, <2>6
<1> QED BY <1>1, <1>2

-----------------------------------------------------------------------------
(* What a row of nodes shows of a set of keys *)

\* The node stands for the keys K: a pruned subtree for any, any other node for one
\* of whose element it has the hash.
StandsFor(n, K) ==
  n.type # "Hash" => \E k \in K : K = {k} /\ KvHashOf(n) = KvHash(k, StoredHash(Entry[k]))

\* The places of seq take the keys S in key order, f telling which takes which.
Placed(seq, S, f) ==
  /\ f \in [1 .. Len(seq) -> SUBSET S]
  /\ \A k \in S : \E i \in 1 .. Len(seq) : k \in f[i]
  /\ \A i, j \in 1 .. Len(seq) : i < j => \A a \in f[i], b \in f[j] : a < b

\* The nodes stand for the keys S in key order.
ViewBy(seq, S, f) == Placed(seq, S, f) /\ \A i \in 1 .. Len(seq) : StandsFor(seq[i], f[i])

View(seq, S) == \E f : ViewBy(seq, S, f)

\* What is in each place of seq, h telling its keys, is in one of left, or n, or in
\* one of right.
MadeOf(seq, h, left, f, n, k, right, g) ==
  \A i \in 1 .. Len(seq) :
    \/ \E j \in 1 .. Len(left) : seq[i] = left[j] /\ h[i] = f[j]
    \/ seq[i] = n /\ h[i] = {k}
    \/ \E j \in 1 .. Len(right) : seq[i] = right[j] /\ h[i] = g[j]

\* The places of the two sides of a node and its own make those of the whole.
LEMMA PlacesJoin ==
  ASSUME NEW N, NEW left \in Seq(N), NEW right \in Seq(N), NEW n \in N,
         NEW S \in SUBSET Keys, NEW k \in S,
         NEW f, Placed(left, Before(S, k), f), NEW g, Placed(right, After(S, k), g),
         NEW seq, seq = left \o <<n>> \o right
  PROVE  \E h : Placed(seq, S, h) /\ MadeOf(seq, h, left, f, n, k, right, g)
<1> DEFINE s == left \o <<n>> \o right
           a == Len(left)
           b == Len(right)
<1>1. a \in Nat /\ b \in Nat /\ S \subseteq Nat
  <2>1. S \subseteq Nat
    BY SetsAreFinite
  <2> QED BY <2>1, LenProperties
<1>2. <<n>> \in Seq(N) /\ Len(<<n>>) = 1 /\ <<n>>[1] = n
  OBVIOUS
<1>3. left \o <<n>> \in Seq(N) /\ Len(left \o <<n>>) = a + 1
      /\ \A i \in 1 .. a + 1 : (left \o <<n>>)[i] = IF i <= a THEN left[i] ELSE <<n>>[i - a]
  BY <1>2, ConcatProperties
<1>4. s \in Seq(N) /\ Len(s) = a + 1 + b
      /\ \A i \in 1 .. a + 1 + b : s[i] = IF i <= a + 1 THEN (left \o <<n>>)[i] ELSE right[i - (a + 1)]
  BY <1>3, ConcatProperties
<1>5. \A i \in 1 .. a + 1 + b :
        s[i] = IF i <= a THEN left[i] ELSE IF i = a + 1 THEN n ELSE right[i - (a + 1)]
  <2> HIDE DEF s, a, b
  <2> TAKE i \in 1 .. a + 1 + b
  <2>1. CASE i <= a
    BY <1>1, <1>3, <1>4, <2>1
  <2>2. CASE i = a + 1
    <3>1. i - a = 1 /\ i \in 1 .. a + 1 /\ ~(i <= a)
      BY <1>1, <2>2
    <3> QED BY <1>2, <1>3, <1>4, <3>1, <2>2
  <2>3. CASE i > a + 1
    BY <1>1, <1>4, <2>3
  <2> QED BY <1>1, <2>1, <2>2, <2>3
<1> DEFINE h == [i \in 1 .. a + 1 + b |-> IF i <= a THEN f[i] ELSE IF i = a + 1 THEN {k} ELSE g[i - (a + 1)]]
<1>8. /\ \A i \in 1 .. a : h[i] = f[i] /\ h[i] \in SUBSET Before(S, k)
      /\ h[a + 1] = {k}
      /\ \A i \in 1 .. b : h[a + 1 + i] = g[i] /\ h[a + 1 + i] \in SUBSET After(S, k)
  <2>1. ASSUME NEW i \in 1 .. a
        PROVE  h[i] = f[i] /\ f[i] \in SUBSET Before(S, k)
    <3>1. i \in 1 .. a + 1 + b /\ i <= a
      BY <1>1
    <3> QED BY <3>1 DEF Placed
  <2>2. h[a + 1] = {k}
    <3>1. a + 1 \in 1 .. a + 1 + b /\ ~(a + 1 <= a)
      BY <1>1
    <3> QED BY <3>1
  <2>3. ASSUME NEW i \in 1 .. b
        PROVE  h[a + 1 + i] = g[i] /\ g[i] \in SUBSET After(S, k)
    <3>1. a + 1 + i \in 1 .. a + 1 + b /\ ~(a + 1 + i <= a) /\ a + 1 + i # a + 1 /\ (a + 1 + i) - (a + 1) = i
      BY <1>1
    <3> QED BY <3>1 DEF Placed
  <2> QED BY <2>1, <2>2, <2>3
<1>9. \A i \in 1 .. a + 1 + b : i \in 1 .. a \/ i = a + 1 \/ \E j \in 1 .. b : i = a + 1 + j
  <2> TAKE i \in 1 .. a + 1 + b
  <2>1. CASE i > a + 1
    <3>1. i - (a + 1) \in 1 .. b /\ i = a + 1 + (i - (a + 1))
      BY <1>1, <2>1
    <3> QED BY <3>1
  <2> QED BY <1>1, <2>1
<1>10. Before(S, k) \subseteq S /\ After(S, k) \subseteq S
  BY DEF Before, After
<1>11. h \in [1 .. a + 1 + b -> SUBSET S]
  <2>1. \A i \in 1 .. a + 1 + b : h[i] \in SUBSET S
    <3> HIDE DEF h
    <3> QED BY <1>8, <1>9, <1>10
  <2> QED BY <2>1
<1>12. ASSUME NEW x \in S
       PROVE  \E i \in 1 .. a + 1 + b : x \in h[i]
  <2> HIDE DEF h
  <2>1. CASE x < k
    <3>1. PICK i \in 1 .. a : x \in f[i]
      BY <2>1 DEF Placed, Before
    <3>2. i \in 1 .. a + 1 + b /\ x \in h[i]
      BY <1>1, <1>8, <3>1
    <3> QED BY <3>2
  <2>2. CASE x = k
    <3>1. a + 1 \in 1 .. a + 1 + b
      BY <1>1
    <3> QED BY <1>8, <2>2, <3>1
  <2>3. CASE x > k
    <3>1. PICK i \in 1 .. b : x \in g[i]
      BY <2>3 DEF Placed, After
    <3>2. a + 1 + i \in 1 .. a + 1 + b /\ x \in h[a + 1 + i]
      BY <1>1, <1>8, <3>1
    <3> QED BY <3>2
  <2> QED BY <1>1, <2>1, <2>2, <2>3
<1>13. ASSUME NEW i \in 1 .. a + 1 + b, NEW j \in 1 .. a + 1 + b, i < j, NEW x \in h[i], NEW y \in h[j]
       PROVE  x < y
  <2> HIDE DEF h
  <2>1. \A m \in 1 .. a : \A z \in h[m] : z \in S /\ z < k
    BY <1>8 DEF Before
  <2>2. \A m \in 1 .. b : \A z \in h[a + 1 + m] : z \in S /\ z > k
    BY <1>8 DEF After
  <2>3. CASE i \in 1 .. a /\ j \in 1 .. a
    BY <1>8, <1>13, <2>3 DEF Placed
  <2>4. CASE i \in 1 .. a /\ j = a + 1
    BY <1>8, <2>1, <2>4
  <2>5. ASSUME i \in 1 .. a, NEW m \in 1 .. b, j = a + 1 + m
        PROVE  x < y
    <3>1. x \in S /\ x < k /\ y \in S /\ y > k
      BY <2>1, <2>2, <2>5
    <3> QED BY <1>1, <3>1
  <2>6. ASSUME i = a + 1, NEW m \in 1 .. b, j = a + 1 + m
        PROVE  x < y
    <3>1. x = k /\ y \in S /\ y > k
      BY <1>8, <2>2, <2>6
    <3> QED BY <1>1, <3>1
  <2>7. ASSUME NEW l \in 1 .. b, i = a + 1 + l, NEW m \in 1 .. b, j = a + 1 + m
        PROVE  x < y
    <3>1. l < m
      BY <1>1, <1>13, <2>7
    <3>2. x \in g[l] /\ y \in g[m]
      BY <1>8, <2>7
    <3> QED BY <3>1, <3>2 DEF Placed
  <2>8. ~(i = a + 1 /\ j \in 1 .. a + 1) /\ ~((\E l \in 1 .. b : i = a + 1 + l) /\ j \in 1 .. a + 1)
    BY <1>1, <1>13
  <2>9. \/ i \in 1 .. a /\ j \in 1 .. a
        \/ i \in 1 .. a /\ j = a + 1
        \/ i \in 1 .. a /\ \E m \in 1 .. b : j = a + 1 + m
        \/ i = a + 1 /\ \E m \in 1 .. b : j = a + 1 + m
        \/ (\E l \in 1 .. b : i = a + 1 + l) /\ \E m \in 1 .. b : j = a + 1 + m
    <3>1. (j \in 1 .. a \/ j = a + 1) => j \in 1 .. a + 1
      BY <1>1
    <3>2. (i \in 1 .. a \/ i = a + 1 \/ \E l \in 1 .. b : i = a + 1 + l)
          /\ (j \in 1 .. a \/ j = a + 1 \/ \E m \in 1 .. b : j = a + 1 + m)
      BY <1>9
    <3> HIDE DEF a, b
    <3> QED BY <2>8, <3>1, <3>2
  <2> QED BY <2>3, <2>4, <2>5, <2>6, <2>7, <2>9
<1>14. ASSUME NEW i \in 1 .. a + 1 + b
       PROVE  \/ \E j \in 1 .. a : s[i] = left[j] /\ h[i] = f[j]
              \/ s[i] = n /\ h[i] = {k}
              \/ \E j \in 1 .. b : s[i] = right[j] /\ h[i] = g[j]
  <2> HIDE DEF h, s
  <2>1. CASE i \in 1 .. a
    <3>1. s[i] = left[i] /\ h[i] = f[i]
      BY <1>5, <1>8, <2>1
    <3> QED BY <2>1, <3>1
  <2>2. CASE i = a + 1
    <3>1. s[i] = n /\ h[i] = {k}
      BY <1>1, <1>5, <1>8, <2>2
    <3> QED BY <3>1
  <2>3. ASSUME NEW j \in 1 .. b, i = a + 1 + j
        PROVE  s[i] = right[j] /\ h[i] = g[j]
    <3>1. ~(i <= a) /\ i # a + 1 /\ i - (a + 1) = j
      BY <1>1, <2>3
    <3> QED BY <1>5, <1>8, <2>3, <3>1
  <2> QED BY <1>9, <2>1, <2>2, <2>3
<1>15. Placed(s, S, h)
  <2>1. Len(s) = a + 1 + b
    BY <1>4
  <2> HIDE DEF h, s, a, b
  <2> QED BY <2>1, <1>11, <1>12, <1>13 DEF Placed
<1>16. MadeOf(s, h, left, f, n, k, right, g)
  <2>1. Len(s) = a + 1 + b
    BY <1>4
  <2> HIDE DEF h, s
  <2> QED BY <1>14, <2>1 DEF MadeOf
<1>17. seq = s
  OBVIOUS
<1> HIDE DEF h, s
<1> QED BY <1>15, <1>16, <1>17

LEMMA ViewsJoin ==
  ASSUME NEW N, NEW left \in Seq(N), NEW right \in Seq(N), NEW n \in N,
         NEW S \in SUBSET Keys, NEW k \in S,
         View(left, Before(S, k)), View(right, After(S, k)), StandsFor(n, {k})
  PROVE  View(left \o <<n>> \o right, S)
<1>1. PICK f : ViewBy(left, Before(S, k), f)
  BY DEF View
<1>2. PICK g : ViewBy(right, After(S, k), g)
  BY DEF View
<1> PICK s : s = left \o <<n>> \o right
  OBVIOUS
<1>0. Placed(left, Before(S, k), f) /\ Placed(right, After(S, k), g)
  BY <1>1, <1>2 DEF ViewBy
<1>3. PICK h : Placed(s, S, h) /\ MadeOf(s, h, left, f, n, k, right, g)
  BY <1>0, PlacesJoin
<1>4. ViewBy(s, S, h)
  BY <1>1, <1>2, <1>3 DEF ViewBy, MadeOf
<1> QED BY <1>4 DEF View

-----------------------------------------------------------------------------
(* The inductive invariant *)

\* Whatever tree of the chain's entries has the hash h, the nodes are a view of it.
Side(seq, h) == \A S \in SUBSET Keys : \A t \in Trees[S] : h = t.hash => View(seq, S)

\* A tree on the stack: its node, between the nodes of its two sides.
GoodTree(t) ==
  /\ t = [node |-> t.node, left |-> t.left, right |-> t.right, shown |-> t.shown]
  /\ t.node \in NodesOf(tree)
  /\ t.node.type = "Hash" => t.left = NoChild /\ t.right = NoChild
  /\ \E l, r \in Seq(NodesOf(tree)) :
       /\ t.shown = l \o <<t.node>> \o r
       /\ t.left = NoChild => l = <<>>
       /\ t.right = NoChild => r = <<>>
       /\ Side(l, ChildHash(t.left)) /\ Side(r, ChildHash(t.right))

TreeInv ==
  \E S \in SUBSET Keys : \E t \in Trees[S] : tree = [hash |-> t.hash, keys |-> t.keys, parts |-> t.parts]

StackInv == (\E A : stack \in Seq(A)) /\ \A i \in 1 .. Len(stack) : GoodTree(stack[i])

VerdictInv == verdict = "accepted" => Valid

MerkInv == TreeInv /\ StackInv /\ VerdictInv

LEMMA HashesDiffer ==
  ASSUME NEW kv, NEW l, NEW r
  PROVE  NodeHash(kv, l, r) # NullHash /\ NodeHash(kv, l, r) # NoChild
BY DEF NodeHash, NullHash, NoChild

\* The hash of no keys is that of no tree of any.
LEMMA NoKeysHash ==
  ASSUME NEW S \in SUBSET Keys, NEW t \in Trees[S]
  PROVE  t.hash = NullHash <=> S = {}
<1>1. CASE S = {}
  BY <1>1, NoKeysNoTree DEF NoTree
<1>2. CASE S # {}
  <2>1. PICK k \in S : \E l \in Trees[Before(S, k)] : \E r \in Trees[After(S, k)] : t = Join(k, l, r)
    BY <1>2, TreeIsJoin
  <2>2. PICK l \in Trees[Before(S, k)] : \E r \in Trees[After(S, k)] : t = Join(k, l, r)
    BY <2>1
  <2>3. PICK r \in Trees[After(S, k)] : t = Join(k, l, r)
    BY <2>2
  <2>4. t.hash = NodeHash(KvHash(k, StoredHash(Entry[k])), l.hash, r.hash)
    BY <2>3 DEF Join
  <2>5. t.hash # NullHash
    BY <2>4 DEF NodeHash, NullHash
  <2> QED BY <1>2, <2>5
<1> QED BY <1>1, <1>2

LEMMA NothingIsOfNothing == Side(<<>>, NullHash)
<1> SUFFICES ASSUME NEW S \in SUBSET Keys, NEW t \in Trees[S], NullHash = t.hash
             PROVE  View(<<>>, S)
  BY DEF Side
<1>1. S = {} /\ Len(<<>>) = 0
  BY NoKeysHash
<1>2. ViewBy(<<>>, S, <<>>)
  BY <1>1 DEF ViewBy, Placed
<1> QED BY <1>2 DEF View

LEMMA NodesAre ==
  ASSUME TreeInv, NEW n \in NodesOf(tree)
  PROVE  /\ n.type \in {"Hash", "KVHash", "KVDigest", "KVValueHash", "KVRefValueHash", "KV"}
         /\ n.type = "Hash" => n.hash # NoChild
<1>1. PICK S \in SUBSET Keys : \E t \in Trees[S] : tree = [hash |-> t.hash, keys |-> t.keys, parts |-> t.parts]
  BY DEF TreeInv
<1>2. NoChild \notin tree.parts
  BY <1>1, TreeHasItsKeys
<1>3. NullHash # NoChild
  BY DEF NullHash, NoChild
<1>4. CASE \E h \in tree.parts \cup {NullHash} : n = HashNode(h)
  BY <1>2, <1>3, <1>4 DEF HashNode
<1>5. CASE \E k \in tree.keys : n = KVHashNode(k) \/ n = KVDigestNode(k)
  BY <1>5 DEF KVHashNode, KVDigestNode
<1>6. CASE \E k \in tree.keys, b \in Bytes : n = KVValueHashNode(k, b)
  BY <1>6 DEF KVValueHashNode
<1>7. CASE \E k \in tree.keys : n = ValueNode(k)
  BY <1>7 DEF ValueNode, KVValueHashNode
<1>8. \/ \E h \in tree.parts \cup {NullHash} : n = HashNode(h)
      \/ \E k \in tree.keys : n = KVHashNode(k) \/ n = KVDigestNode(k) \/ n = ValueNode(k)
      \/ \E k \in tree.keys, b \in Bytes : n = KVValueHashNode(k, b)
  <2> DEFINE A == {HashNode(h) : h \in tree.parts \cup {NullHash}}
             B == {NodesAt(k) : k \in tree.keys}
             C == {KVValueHashNode(k, b) : k \in tree.keys, b \in Bytes}
  <2>1. NodesOf(tree) = A \cup C \cup UNION B
    BY DEF NodesOf
  <2>2. n \in A \/ n \in UNION B \/ n \in C
    <3> HIDE DEF A, B, C
    <3> QED BY <2>1
  <2>3. n \in UNION B => \E k \in tree.keys : n \in NodesAt(k)
    OBVIOUS
  <2>4. n \in C => \E k \in tree.keys, b \in Bytes : n = KVValueHashNode(k, b)
    OBVIOUS
  <2>5. n \in A => \E h \in tree.parts \cup {NullHash} : n = HashNode(h)
    OBVIOUS
  <2> HIDE DEF A, B, C
  <2> QED BY <2>2, <2>3, <2>4, <2>5 DEF NodesAt
<1> QED BY <1>4, <1>5, <1>6, <1>7, <1>8

\* What a tree of the stack shows is a view of any tree of its hash: equal hashes
\* are of equal children, down to what is pruned.
LEMMA GoodIsSide ==
  ASSUME NEW t, GoodTree(t)
  PROVE  t.shown \in Seq(NodesOf(tree)) /\ Side(t.shown, TreeHash(t))
<1> DEFINE N == NodesOf(tree)
<1>1. t.node \in N
  BY DEF GoodTree
<1>2. PICK l \in Seq(N), r \in Seq(N) :
        /\ t.shown = l \o <<t.node>> \o r
        /\ t.left = NoChild => l = <<>>
        /\ t.right = NoChild => r = <<>>
        /\ Side(l, ChildHash(t.left)) /\ Side(r, ChildHash(t.right))
  BY DEF GoodTree
<1>3. <<t.node>> \in Seq(N)
  BY <1>1
<1>4. t.shown \in Seq(N)
  <2>1. l \o <<t.node>> \in Seq(N)
    BY <1>3, ConcatProperties
  <2> QED BY <1>2, <2>1, ConcatProperties
<1>5. ASSUME NEW S \in SUBSET Keys, NEW u \in Trees[S], TreeHash(t) = u.hash
      PROVE  View(t.shown, S)
  <2>1. CASE t.node.type = "Hash"
    <3>1. t.shown = <<t.node>>
      <4>1. l = <<>> /\ r = <<>>
        BY <1>2, <2>1 DEF GoodTree
      <4> QED BY <1>2, <1>3, <4>1, ConcatEmptySeq
    <3> DEFINE f == [i \in 1 .. 1 |-> S]
    <3>2. Len(<<t.node>>) = 1 /\ <<t.node>>[1] = t.node
      OBVIOUS
    <3>3. \A i \in 1 .. 1 : i = 1
      OBVIOUS
    <3>4. ViewBy(<<t.node>>, S, f)
      <4>1. f \in [1 .. 1 -> SUBSET S] /\ f[1] = S
        OBVIOUS
      <4>2. StandsFor(<<t.node>>[1], f[1])
        BY <2>1, <3>2 DEF StandsFor
      <4> HIDE DEF f
      <4> QED BY <3>2, <3>3, <4>1, <4>2 DEF ViewBy, Placed
    <3> HIDE DEF f
    <3> QED BY <3>1, <3>4 DEF View
  <2>2. CASE t.node.type # "Hash"
    <3>1. u.hash = NodeHash(KvHashOf(t.node), ChildHash(t.left), ChildHash(t.right))
      BY <1>5, <2>2 DEF TreeHash
    <3>2. u.hash # NullHash
      BY <3>1, HashesDiffer
    <3>3. S # {}
      BY <3>2, NoKeysHash
    <3>4. PICK k \in S : \E v \in Trees[Before(S, k)] : \E w \in Trees[After(S, k)] : u = Join(k, v, w)
      BY <3>3, TreeIsJoin
    <3>5. PICK v \in Trees[Before(S, k)] : \E w \in Trees[After(S, k)] : u = Join(k, v, w)
      BY <3>4
    <3>6. PICK w \in Trees[After(S, k)] : u = Join(k, v, w)
      BY <3>5
    <3>7. u.hash = NodeHash(KvHash(k, StoredHash(Entry[k])), v.hash, w.hash)
      BY <3>6 DEF Join
    <3>8. /\ KvHashOf(t.node) = KvHash(k, StoredHash(Entry[k]))
          /\ ChildHash(t.left) = v.hash /\ ChildHash(t.right) = w.hash
      BY <3>1, <3>7 DEF NodeHash
    <3>9. View(l, Before(S, k)) /\ View(r, After(S, k))
      BY <1>2, <3>8, SidesAreSmaller DEF Side
    <3>10. StandsFor(t.node, {k})
      BY <3>8 DEF StandsFor
    <3>11. View(l \o <<t.node>> \o r, S)
      <4> HIDE DEF N
      <4> QED BY <1>1, <3>9, <3>10, ViewsJoin
    <3> QED BY <1>2, <3>11
  <2> QED BY <2>1, <2>2
<1> QED BY <1>4, <1>5 DEF Side

-----------------------------------------------------------------------------
(* Every step keeps the invariant *)

LEMMA TreeHashIsAHash ==
  ASSUME TreeInv, NEW t, GoodTree(t)
  PROVE  TreeHash(t) # NoChild
BY NodesAre, HashesDiffer DEF GoodTree, TreeHash

LEMMA PushIsGood ==
  ASSUME NEW n \in NodesOf(tree)
  PROVE  GoodTree([node |-> n, left |-> NoChild, right |-> NoChild, shown |-> <<n>>])
<1> DEFINE t == [node |-> n, left |-> NoChild, right |-> NoChild, shown |-> <<n>>]
           N == NodesOf(tree)
<1>1. t.node = n /\ t.left = NoChild /\ t.right = NoChild /\ t.shown = <<n>>
  OBVIOUS
<1>2. t = [node |-> t.node, left |-> t.left, right |-> t.right, shown |-> t.shown]
  OBVIOUS
<1>3. <<n>> \in Seq(N) /\ <<>> \in Seq(N)
  OBVIOUS
<1>4. <<n>> = <<>> \o <<n>> \o <<>>
  BY <1>3, ConcatEmptySeq
<1>5. Side(<<>>, ChildHash(NoChild))
  BY NothingIsOfNothing DEF ChildHash
<1> HIDE DEF t
<1>6. GoodTree(t)
  BY <1>1, <1>2, <1>3, <1>4, <1>5 DEF GoodTree
<1> QED BY <1>6 DEF t

\* A parent that takes a child shows, on the child's side, what the child does.
LEMMA AttachedIsGood ==
  ASSUME TreeInv, NEW p, GoodTree(p), NEW c, GoodTree(c), NEW left \in BOOLEAN, NEW t \in Attached(p, c, left)
  PROVE  GoodTree(t)
<1> DEFINE N == NodesOf(tree)
<1>1. /\ p = [node |-> p.node, left |-> p.left, right |-> p.right, shown |-> p.shown]
      /\ p.node \in N /\ p.node.type # "Hash"
  BY DEF GoodTree, Attached
<1>2. PICK l \in Seq(N), r \in Seq(N) :
        /\ p.shown = l \o <<p.node>> \o r
        /\ p.left = NoChild => l = <<>>
        /\ p.right = NoChild => r = <<>>
        /\ Side(l, ChildHash(p.left)) /\ Side(r, ChildHash(p.right))
  BY DEF GoodTree
<1>3. c.shown \in Seq(N) /\ Side(c.shown, ChildHash(TreeHash(c))) /\ TreeHash(c) # NoChild
  <2>1. TreeHash(c) # NoChild
    BY TreeHashIsAHash
  <2> QED BY <2>1, GoodIsSide DEF ChildHash
<1>4. <<p.node>> \in Seq(N)
  BY <1>1
<1>5. CASE left /\ p.left = NoChild /\ t = [p EXCEPT !.left = TreeHash(c), !.shown = c.shown \o @]
  <2>1. /\ t.node = p.node /\ t.left = TreeHash(c) /\ t.right = p.right /\ t.shown = c.shown \o p.shown
        /\ t = [node |-> t.node, left |-> t.left, right |-> t.right, shown |-> t.shown]
    BY <1>1, <1>5
  <2>2. p.shown = <<p.node>> \o r
    BY <1>2, <1>4, <1>5, ConcatEmptySeq
  <2>3. t.shown = c.shown \o <<t.node>> \o r
    <3>1. t.shown = c.shown \o (<<p.node>> \o r)
      BY <2>1, <2>2
    <3>2. c.shown \o (<<p.node>> \o r) = c.shown \o <<p.node>> \o r
      <4> DEFINE x == c.shown
                 y == <<p.node>>
      <4>1. x \in Seq(N) /\ y \in Seq(N) /\ r \in Seq(N)
        BY <1>3, <1>4
      <4> HIDE DEF N, x, y
      <4>2. x \o (y \o r) = (x \o y) \o r
        BY <4>1, ConcatAssociative, SMTT(30)
      <4> QED BY <4>2 DEF x, y
    <3> QED BY <2>1, <3>1, <3>2
  <2> QED BY <1>1, <1>2, <1>3, <2>1, <2>3 DEF GoodTree
<1>6. CASE ~left /\ p.right = NoChild /\ t = [p EXCEPT !.right = TreeHash(c), !.shown = @ \o c.shown]
  <2>1. /\ t.node = p.node /\ t.left = p.left /\ t.right = TreeHash(c) /\ t.shown = p.shown \o c.shown
        /\ t = [node |-> t.node, left |-> t.left, right |-> t.right, shown |-> t.shown]
    BY <1>1, <1>6
  <2>2. p.shown = l \o <<p.node>>
    <3>1. l \o <<p.node>> \in Seq(N)
      BY <1>2, <1>4, ConcatProperties
    <3> QED BY <1>2, <1>6, <3>1, ConcatEmptySeq
  <2>3. t.shown = l \o <<t.node>> \o c.shown
    BY <2>1, <2>2
  <2>4. /\ t.left = NoChild => l = <<>>
        /\ t.right = NoChild => c.shown = <<>>
        /\ Side(l, ChildHash(t.left)) /\ Side(c.shown, ChildHash(t.right))
    BY <1>2, <1>3, <2>1
  <2>5. \E x, y \in Seq(N) :
          /\ t.shown = x \o <<t.node>> \o y
          /\ t.left = NoChild => x = <<>>
          /\ t.right = NoChild => y = <<>>
          /\ Side(x, ChildHash(t.left)) /\ Side(y, ChildHash(t.right))
    BY <1>2, <1>3, <2>3, <2>4
  <2> QED BY <1>1, <2>1, <2>5 DEF GoodTree
<1> QED BY <1>1, <1>5, <1>6 DEF Attached

LEMMA PushKeeps ==
  ASSUME StackInv, NEW t, GoodTree(t)
  PROVE  /\ \E A : Append(stack, t) \in Seq(A)
         /\ \A i \in 1 .. Len(Append(stack, t)) : GoodTree(Append(stack, t)[i])
<1>1. PICK A : stack \in Seq(A)
  BY DEF StackInv
<1> DEFINE B == A \cup {t}
<1>2. stack \in Seq(B)
  BY <1>1, SeqMonotonic
<1>3. /\ Append(stack, t) \in Seq(B) /\ Len(Append(stack, t)) = Len(stack) + 1
      /\ \A i \in 1 .. Len(stack) : Append(stack, t)[i] = stack[i]
      /\ Append(stack, t)[Len(stack) + 1] = t
  <2> HIDE DEF B
  <2>1. t \in B
    BY DEF B
  <2> QED BY <1>2, <2>1, AppendProperties
<1>4. Len(stack) \in Nat
  BY <1>1
<1>5. \A i \in 1 .. Len(stack) + 1 : i \in 1 .. Len(stack) \/ i = Len(stack) + 1
  BY <1>4
<1> HIDE DEF B
<1> QED BY <1>3, <1>5 DEF StackInv

LEMMA AttachKeeps ==
  ASSUME TreeInv, StackInv, NEW op \in DOMAIN TreeOps, NEW t \in Combined(op)
  PROVE  /\ \E A : Append(SubSeq(stack, 1, Len(stack) - 2), t) \in Seq(A)
         /\ \A i \in 1 .. Len(Append(SubSeq(stack, 1, Len(stack) - 2), t)) :
              GoodTree(Append(SubSeq(stack, 1, Len(stack) - 2), t)[i])
<1>1. PICK A : stack \in Seq(A)
  BY DEF StackInv
<1> DEFINE n == Len(stack)
           rest == SubSeq(stack, 1, n - 2)
           B == A \cup {t}
<1>2. n \in Nat /\ n >= 2
  <2>1. n \in Nat
    BY <1>1
  <2>2. ~(n < 2)
    BY DEF Combined
  <2> QED BY <2>1, <2>2
<1>3. GoodTree(stack[n]) /\ GoodTree(stack[n - 1])
  <2>1. n \in 1 .. Len(stack) /\ n - 1 \in 1 .. Len(stack)
    BY <1>2
  <2> QED BY <2>1 DEF StackInv
<1>4. TreeOps[op].left \in BOOLEAN
  <2>1. op \in {"Parent", "Child", "ParentInverted", "ChildInverted"}
    BY DEF TreeOps
  <2>2. /\ TreeOps["Parent"].left \in BOOLEAN /\ TreeOps["Child"].left \in BOOLEAN
        /\ TreeOps["ParentInverted"].left \in BOOLEAN /\ TreeOps["ChildInverted"].left \in BOOLEAN
    BY DEF TreeOps
  <2> QED BY <2>1, <2>2
<1>5. t \in Attached(stack[n], stack[n - 1], TreeOps[op].left)
      \/ t \in Attached(stack[n - 1], stack[n], TreeOps[op].left)
  BY <1>2 DEF Combined
<1>6. GoodTree(t)
  BY <1>3, <1>4, <1>5, AttachedIsGood
<1>7. stack \in Seq(B)
  BY <1>1, SeqMonotonic
<1>8. rest \in Seq(B) /\ Len(rest) = n - 2 /\ \A i \in 1 .. n - 2 : rest[i] = stack[i]
  <2>1. \A i \in 1 .. n - 2 : stack[i] \in B
    <3> HIDE DEF B
    <3> QED BY <1>2, <1>7
  <2>2. 1 \in Int /\ n - 2 \in Int /\ n - 2 - 1 + 1 = n - 2 /\ (1 <= n - 2 \/ n - 2 = 0)
    <3> HIDE DEF n
    <3> QED BY <1>2
  <2>3. /\ rest \in Seq(B) /\ Len(rest) = IF 1 <= n - 2 THEN n - 2 - 1 + 1 ELSE 0
        /\ \A i \in 1 .. n - 2 - 1 + 1 : rest[i] = stack[1 + i - 1]
    <3> HIDE DEF B, n
    <3> QED BY <2>1, <2>2, SubSeqProperties
  <2>4. \A i \in 1 .. n - 2 : 1 + i - 1 = i
    BY <1>2
  <2> HIDE DEF B, rest
  <2> QED BY <1>2, <2>2, <2>3, <2>4
<1>9. /\ Append(rest, t) \in Seq(B) /\ Len(Append(rest, t)) = n - 2 + 1
      /\ \A i \in 1 .. n - 2 : Append(rest, t)[i] = rest[i]
      /\ Append(rest, t)[n - 2 + 1] = t
  <2>1. t \in B
    OBVIOUS
  <2> HIDE DEF B, rest
  <2> QED BY <1>8, <2>1, AppendProperties
<1>10. \A i \in 1 .. n - 2 + 1 : (i \in 1 .. n - 2 /\ i \in 1 .. Len(stack)) \/ i = n - 2 + 1
  BY <1>2
<1> HIDE DEF B, rest
<1>11. \A i \in 1 .. n - 2 + 1 : GoodTree(Append(rest, t)[i])
  BY <1>6, <1>8, <1>9, <1>10 DEF StackInv
<1> QED BY <1>9, <1>11 DEF rest

LEMMA NextMerkInv == MerkInv /\ [Next]_vars => MerkInv'
<1> SUFFICES ASSUME MerkInv, [Next]_vars PROVE MerkInv'
  OBVIOUS
<1>0. TreeInv /\ StackInv /\ VerdictInv
  BY DEF MerkInv
<1>1. UNCHANGED tree
  BY DEF Next, vars, Push, Attach, End, Refuse
<1>2. TreeInv'
  BY <1>0, <1>1 DEF TreeInv
<1>3. \A t : GoodTree(t) => GoodTree(t)'
  BY <1>1 DEF GoodTree
<1>4. ASSUME stack' = <<>>
      PROVE  StackInv'
  <2>1. stack' \in Seq({}) /\ Len(stack') = 0
    BY <1>4
  <2>2. \E A : stack' \in Seq(A)
    BY <2>1
  <2>3. 1 .. Len(stack') = {}
    BY <2>1
  <2> QED BY <2>2, <2>3 DEF StackInv
<1>5. ASSUME NEW t, GoodTree(t), stack' = Append(stack, t)
      PROVE  StackInv'
  BY <1>0, <1>1, <1>5, PushKeeps, ZenonT(60) DEF StackInv, GoodTree
<1>6. CASE UNCHANGED <<stack, verdict>>
  BY <1>0, <1>1, <1>2, <1>6 DEF MerkInv, StackInv, VerdictInv, GoodTree, Valid, ShownNodes, Shown
<1>7. ASSUME NEW n \in NodesOf(tree), NEW inverted \in BOOLEAN, Push(n, inverted)
      PROVE  MerkInv'
  <2>1. CASE Refuse
    BY <1>2, <1>4, <2>1 DEF Refuse, MerkInv, VerdictInv
  <2>2. CASE /\ stack' = Append(stack, [node |-> n, left |-> NoChild, right |-> NoChild, shown |-> <<n>>])
             /\ UNCHANGED verdict
    <3>1. StackInv'
      BY <1>5, <2>2, PushIsGood
    <3>2. verdict' = "open"
      BY <1>7, <2>2 DEF Push, Takes
    <3> QED BY <1>2, <3>1, <3>2 DEF MerkInv, VerdictInv
  <2> QED BY <1>7, <2>1, <2>2 DEF Push
<1>8. ASSUME NEW op \in DOMAIN TreeOps, Attach(op)
      PROVE  MerkInv'
  <2>1. CASE Refuse
    BY <1>2, <1>4, <2>1 DEF Refuse, MerkInv, VerdictInv
  <2>2. ASSUME NEW t \in Combined(op), stack' = Append(SubSeq(stack, 1, Len(stack) - 2), t), UNCHANGED verdict
        PROVE  MerkInv'
    <3>1. StackInv'
      BY <1>0, <1>1, <2>2, AttachKeeps, ZenonT(60) DEF StackInv, GoodTree
    <3>2. verdict' = "open"
      BY <1>8, <2>2 DEF Attach, Takes
    <3> QED BY <1>2, <3>1, <3>2 DEF MerkInv, VerdictInv
  <2> QED BY <1>8, <2>1, <2>2 DEF Attach
<1>9. CASE End
  <2>1. CASE Refuse
    BY <1>2, <1>4, <2>1 DEF Refuse, MerkInv, VerdictInv
  <2>2. CASE Valid /\ UNCHANGED stack
    <3>1. StackInv'
      BY <1>0, <1>1, <2>2 DEF StackInv, GoodTree
    <3>2. Valid'
      BY <2>2 DEF Valid, ShownNodes, Shown
    <3> QED BY <1>2, <3>1, <3>2 DEF MerkInv, VerdictInv
  <2> QED BY <1>9, <2>1, <2>2 DEF End
<1> QED BY <1>6, <1>7, <1>8, <1>9 DEF Next, vars

LEMMA InitMerkInv == Init => MerkInv
<1> SUFFICES ASSUME Init PROVE MerkInv
  OBVIOUS
<1>1. TreeInv
  <2>1. PICK t \in UNION {Trees[S] : S \in (SUBSET Keys) \ {{}}} :
          tree = [hash |-> t.hash, keys |-> t.keys, parts |-> t.parts]
    BY DEF Init
  <2>2. PICK S \in (SUBSET Keys) \ {{}} : t \in Trees[S]
    BY <2>1
  <2> QED BY <2>1, <2>2 DEF TreeInv
<1>2. stack = <<>> /\ verdict = "open"
  BY DEF Init
<1>3. stack \in Seq({}) /\ Len(stack) = 0
  BY <1>2
<1> QED BY <1>1, <1>2, <1>3 DEF MerkInv, StackInv, VerdictInv

-----------------------------------------------------------------------------
(* What a node that stands for a key says of it *)

\* A node with a key is of the key it stands for, and its bytes, if bound, are the
\* element's: a value hash of one kind is of no other.
LEMMA NodeSays ==
  ASSUME NEW n, n.type \in {"Hash", "KVHash", "KVDigest", "KVValueHash", "KVRefValueHash", "KV"}, HasKey(n),
         NEW k, KvHashOf(n) = KvHash(k, StoredHash(Entry[k]))
  PROVE  /\ n.key = k
         /\ HasValue(n) /\ Binding(n) \notin {"unboundTree", "refused"} =>
              /\ n.value = Entry[k].bytes
              /\ n.type = "KVRefValueHash" <=> Entry[k].reference
<1> DEFINE e == Entry[k]
<1>1. \A a, b : ValueHash(a) = ValueHash(b) => a = b
  BY DEF ValueHash
<1>2. \A a, b, c, d : CombineHash(a, b) = CombineHash(c, d) => a = c /\ b = d
  BY DEF CombineHash
<1>3. \A a, b, c : ValueHash(a) # CombineHash(b, c)
  BY DEF ValueHash, CombineHash
<1>4. \A a : ValueHash(a) # NullHash /\ ValueHash(a) # LowerRoot
  BY DEF ValueHash, NullHash, LowerRoot
<1>5. NullHash # LowerRoot
  BY DEF NullHash, LowerRoot
<1>6. \A a, b, c, d : KvHash(a, b) = KvHash(c, d) => a = c /\ b = d
  BY DEF KvHash
<1>7. \/ e.reference /\ StoredHash(e) = CombineHash(ValueHash(Pointer), ValueHash(e.bytes))
      \/ ~e.reference /\ e.bytes \in Subtrees /\ StoredHash(e) = CombineHash(ValueHash(e.bytes), LowerRoot)
      \/ ~e.reference /\ e.bytes \in EmptyTrees /\ StoredHash(e) = CombineHash(ValueHash(e.bytes), NullHash)
      \/ ~e.reference /\ StoredHash(e) = ValueHash(e.bytes)
  BY DEF StoredHash
<1>12. \A key, vh : KvHashOf(n) = KvHash(key, vh) => key = k /\ vh = StoredHash(e)
  BY <1>6
<1> HIDE DEF e
<1>8. CASE n.type = "KV"
  <2>1. KvHashOf(n) = KvHash(n.key, ValueHash(n.value))
    BY <1>8 DEF KvHashOf
  <2>2. n.key = k /\ ValueHash(n.value) = StoredHash(e)
    BY <1>12, <2>1
  <2>3. ~e.reference /\ n.value = e.bytes
    BY <1>1, <1>3, <1>7, <2>2
  <2> QED BY <1>8, <2>2, <2>3 DEF e
<1>9. CASE n.type = "KVDigest"
  <2>1. KvHashOf(n) = KvHash(n.key, n.valueHash)
    BY <1>9 DEF KvHashOf
  <2> QED BY <1>12, <1>9, <2>1 DEF HasValue
<1>10. CASE n.type = "KVValueHash"
  <2>1. KvHashOf(n) = KvHash(n.key, n.valueHash)
    BY <1>10 DEF KvHashOf
  <2>2. n.key = k /\ n.valueHash = StoredHash(e)
    BY <1>12, <2>1
  <2>3. CASE Binding(n) \notin {"unboundTree", "refused"}
    <3>1. \/ n.valueHash = CombineHash(ValueHash(n.value), NullHash)
          \/ n.valueHash = ValueHash(n.value)
      BY <1>10, <2>3 DEF Binding
    <3>2. ~e.reference /\ n.value = e.bytes
      BY <1>1, <1>2, <1>3, <1>4, <1>5, <1>7, <2>2, <3>1
    <3> QED BY <1>10, <2>2, <3>2 DEF e
  <2> QED BY <2>2, <2>3
<1>11. CASE n.type = "KVRefValueHash"
  <2>1. KvHashOf(n) = KvHash(n.key, CombineHash(n.valueHash, ValueHash(n.value)))
    BY <1>11 DEF KvHashOf
  <2>2. n.key = k /\ CombineHash(n.valueHash, ValueHash(n.value)) = StoredHash(e)
    BY <1>12, <2>1
  <2>3. e.reference /\ n.value = e.bytes
    BY <1>1, <1>2, <1>3, <1>4, <1>7, <2>2
  <2> QED BY <1>11, <2>2, <2>3 DEF e
<1> QED BY <1>8, <1>9, <1>10, <1>11 DEF HasKey

-----------------------------------------------------------------------------
(* The theorems *)

\* What a verified proof shows is a view of the keys of the chain's tree.
LEMMA VerifiedIsView ==
  ASSUME MerkInv, Verified
  PROVE  /\ tree.keys \in SUBSET Keys /\ Shown \in Seq(NodesOf(tree)) /\ View(Shown, tree.keys)
         /\ \A n \in ShownNodes : HasValue(n) => Binding(n) # "refused"
<1>1. Valid
  BY DEF MerkInv, VerdictInv, Verified
<1>2. GoodTree(stack[1])
  <2>1. Len(stack) = 1
    BY <1>1 DEF Valid
  <2> QED BY <2>1 DEF MerkInv, StackInv
<1>3. PICK S \in SUBSET Keys : \E t \in Trees[S] : tree = [hash |-> t.hash, keys |-> t.keys, parts |-> t.parts]
  BY DEF MerkInv, TreeInv
<1>4. PICK t \in Trees[S] : tree = [hash |-> t.hash, keys |-> t.keys, parts |-> t.parts]
  BY <1>3
<1>5. tree.hash = t.hash /\ tree.keys = S
  BY <1>4, TreeHasItsKeys
<1>6. stack[1].shown \in Seq(NodesOf(tree)) /\ Side(stack[1].shown, TreeHash(stack[1]))
  BY <1>2, GoodIsSide
<1>7. View(stack[1].shown, S)
  BY <1>4, <1>5, <1>6 DEF Side, Verified
<1> QED BY <1>1, <1>5, <1>6, <1>7 DEF Shown, Valid

LEMMA ShownStandsFor ==
  ASSUME MerkInv, Verified, NEW f, ViewBy(Shown, tree.keys, f), NEW i \in 1 .. Len(Shown), HasKey(Shown[i])
  PROVE  /\ Shown[i].key \in tree.keys /\ f[i] = {Shown[i].key}
         /\ HasValue(Shown[i]) /\ Binding(Shown[i]) # "unboundTree" =>
              /\ Shown[i].value = Entry[Shown[i].key].bytes
              /\ Shown[i].type = "KVRefValueHash" <=> Entry[Shown[i].key].reference
<1> DEFINE n == Shown[i]
<1>1. n \in NodesOf(tree) /\ (HasValue(n) => Binding(n) # "refused")
  BY VerifiedIsView DEF ShownNodes
<1>2. n.type \in {"Hash", "KVHash", "KVDigest", "KVValueHash", "KVRefValueHash", "KV"}
  BY <1>1, NodesAre DEF MerkInv
<1>3. StandsFor(n, f[i]) /\ n.type # "Hash" /\ f[i] \in SUBSET tree.keys
  BY DEF ViewBy, Placed, HasKey
<1>4. PICK k \in f[i] : f[i] = {k} /\ KvHashOf(n) = KvHash(k, StoredHash(Entry[k]))
  BY <1>3 DEF StandsFor
<1> HIDE DEF n
<1>5. HasKey(n)
  BY DEF n
<1>6. /\ n.key = k
      /\ HasValue(n) /\ Binding(n) \notin {"unboundTree", "refused"} =>
           n.value = Entry[k].bytes /\ (n.type = "KVRefValueHash" <=> Entry[k].reference)
  BY <1>2, <1>4, <1>5, NodeSays
<1> QED BY <1>1, <1>3, <1>4, <1>6 DEF n

LEMMA WholeIsWhole ==
  ASSUME MerkInv, Verified, RevealsWhole(Shown)
  PROVE  /\ {n.key : n \in ShownNodes} = tree.keys
         /\ Len(Shown) = Cardinality(tree.keys)
         /\ \A n \in ShownNodes : n.value = Entry[n.key].bytes
<1>1. PICK f : ViewBy(Shown, tree.keys, f)
  BY VerifiedIsView DEF View
<1>2. Len(Shown) \in Nat /\ DOMAIN Shown = 1 .. Len(Shown)
  BY VerifiedIsView
<1>3. \A i \in 1 .. Len(Shown) : HasValue(Shown[i]) /\ HasKey(Shown[i]) /\ Binding(Shown[i]) # "unboundTree"
  <2> TAKE i \in 1 .. Len(Shown)
  <2>1. HasValue(Shown[i]) /\ Binding(Shown[i]) \in {"bound", "emptyTree"}
    BY <1>2 DEF RevealsWhole
  <2> QED BY <2>1 DEF HasValue, HasKey
<1>4. \A i \in 1 .. Len(Shown) :
        /\ Shown[i].key \in tree.keys /\ f[i] = {Shown[i].key}
        /\ Shown[i].value = Entry[Shown[i].key].bytes
  BY <1>1, <1>3, ShownStandsFor
<1>5. \A n \in ShownNodes : \E i \in 1 .. Len(Shown) : n = Shown[i]
  BY <1>2 DEF ShownNodes
<1>6. \A i \in 1 .. Len(Shown) : Shown[i] \in ShownNodes
  BY <1>2 DEF ShownNodes
<1>7. \A k \in tree.keys : \E i \in 1 .. Len(Shown) : Shown[i].key = k
  BY <1>1, <1>4 DEF ViewBy, Placed
<1>8. \A i, j \in 1 .. Len(Shown) : i < j => Shown[i].key # Shown[j].key
  <2> TAKE i, j \in 1 .. Len(Shown)
  <2> HAVE i < j
  <2>1. \A a \in f[i], b \in f[j] : a < b
    BY <1>1 DEF ViewBy, Placed
  <2>2. Shown[i].key \in Nat
    BY <1>4, VerifiedIsView, SetsAreFinite
  <2>3. f[i] = {Shown[i].key} /\ f[j] = {Shown[j].key}
    BY <1>4
  <2> QED BY <2>1, <2>2, <2>3
<1>9. Len(Shown) = Cardinality(tree.keys)
  <2> DEFINE g == [i \in 1 .. Len(Shown) |-> Shown[i].key]
  <2>1. g \in [1 .. Len(Shown) -> tree.keys] /\ \A i \in 1 .. Len(Shown) : g[i] = Shown[i].key
    BY <1>4
  <2>2. ASSUME NEW i \in 1 .. Len(Shown), NEW j \in 1 .. Len(Shown), g[i] = g[j]
        PROVE  i = j
    <3>1. ~(i < j) /\ ~(j < i)
      BY <1>8, <2>1, <2>2
    <3> QED BY <1>2, <3>1
  <2> HIDE DEF g
  <2>3. g \in Bijection(1 .. Len(Shown), tree.keys)
    BY <1>7, <2>1, <2>2 DEF Bijection, Injection, Surjection, IsInjective
  <2>4. ExistsBijection(1 .. Len(Shown), tree.keys)
    BY <2>3 DEF ExistsBijection
  <2> QED BY <1>2, <2>4, FS_CountingElements
<1>10. {n.key : n \in ShownNodes} = tree.keys
  BY <1>4, <1>5, <1>6, <1>7
<1>11. \A n \in ShownNodes : n.value = Entry[n.key].bytes
  BY <1>4, <1>5
<1> QED BY <1>9, <1>10, <1>11

\* A value that a verified proof gives is the chain's at its key, and a proof that
\* shows a whole layer leaves out no entry of it: for any keys and entries, any
\* tree of them, and any proof, however it is pruned and in whatever order built.
THEOREM VerifiedValuesAreTheChains == Spec => []RevealedIsCommitted
<1>1. MerkInv => RevealedIsCommitted
  <2> SUFFICES ASSUME MerkInv, Verified
               PROVE  /\ \A n \in ShownNodes : HasKey(n) =>
                           /\ n.key \in tree.keys
                           /\ HasValue(n) /\ Binding(n) # "unboundTree" =>
                                /\ n.value = Entry[n.key].bytes
                                /\ n.type = "KVRefValueHash" <=> Entry[n.key].reference
                      /\ RevealsWhole(Shown) =>
                           /\ {n.key : n \in ShownNodes} = tree.keys
                           /\ Len(Shown) = Cardinality(tree.keys)
                           /\ \A n \in ShownNodes : n.value = Entry[n.key].bytes
    BY DEF RevealedIsCommitted
  <2>1. PICK f : ViewBy(Shown, tree.keys, f)
    BY VerifiedIsView DEF View
  <2>2. \A n \in ShownNodes : \E i \in 1 .. Len(Shown) : n = Shown[i]
    BY VerifiedIsView DEF ShownNodes
  <2>3. ASSUME NEW n \in ShownNodes, HasKey(n)
        PROVE  /\ n.key \in tree.keys
               /\ HasValue(n) /\ Binding(n) # "unboundTree" =>
                    /\ n.value = Entry[n.key].bytes
                    /\ n.type = "KVRefValueHash" <=> Entry[n.key].reference
    <3>1. PICK i \in 1 .. Len(Shown) : n = Shown[i]
      BY <2>2
    <3> QED BY <2>1, <2>3, <3>1, ShownStandsFor
  <2> QED BY <2>3, WholeIsWhole
<1> QED BY InitMerkInv, NextMerkInv, <1>1, PTL DEF Spec

\* A key that a verified proof proves absent is in no place of the chain's tree:
\* what stands before it and after it leaves no place for it, so nothing that is
\* pruned or hidden can be it.
THEOREM ProvenAbsentIsAbsent == Spec => []AbsentIsAbsent
<1>1. MerkInv => AbsentIsAbsent
  <2> SUFFICES ASSUME MerkInv, Verified, NEW k \in Keys, ProvesAbsent(Shown, k), k \in tree.keys
               PROVE  FALSE
    BY DEF AbsentIsAbsent
  <2>1. PICK f : ViewBy(Shown, tree.keys, f)
    BY VerifiedIsView DEF View
  <2>2. Len(Shown) \in Nat
    BY VerifiedIsView
  <2>3. PICK i \in 0 .. Len(Shown) :
          /\ i > 0 => HasKey(Shown[i]) /\ Shown[i].key < k
          /\ i < Len(Shown) => HasKey(Shown[i + 1]) /\ Shown[i + 1].key > k
    BY DEF ProvesAbsent
  <2>4. PICK j \in 1 .. Len(Shown) : k \in f[j]
    BY <2>1 DEF ViewBy, Placed
  <2>5. k \in Nat /\ tree.keys \subseteq Nat
    BY VerifiedIsView, MerkAssumption
  <2>6. CASE j <= i
    <3>1. i > 0 /\ i \in 1 .. Len(Shown)
      BY <2>2, <2>6
    <3>2. f[i] = {Shown[i].key} /\ Shown[i].key \in Nat /\ Shown[i].key < k
      BY <2>1, <2>3, <2>5, <3>1, ShownStandsFor
    <3>3. j < i => k < Shown[i].key
      BY <2>1, <2>4, <3>1, <3>2 DEF ViewBy, Placed
    <3>4. j = i => k = Shown[i].key
      BY <2>4, <3>2
    <3> QED BY <2>2, <2>5, <2>6, <3>2, <3>3, <3>4
  <2>7. CASE j > i
    <3>1. i < Len(Shown) /\ i + 1 \in 1 .. Len(Shown)
      BY <2>2, <2>7
    <3>2. f[i + 1] = {Shown[i + 1].key} /\ Shown[i + 1].key \in Nat /\ Shown[i + 1].key > k
      BY <2>1, <2>3, <2>5, <3>1, ShownStandsFor
    <3>3. i + 1 < j => Shown[i + 1].key < k
      BY <2>1, <2>4, <3>1, <3>2 DEF ViewBy, Placed
    <3>4. j = i + 1 => k = Shown[i + 1].key
      BY <2>4, <3>2
    <3> QED BY <2>2, <2>5, <2>7, <3>2, <3>3, <3>4
  <2> QED BY <2>2, <2>6, <2>7
<1> QED BY InitMerkInv, NextMerkInv, <1>1, PTL DEF Spec

-----------------------------------------------------------------------------
(* Runs of the machine *)

IsSeq(s) == \E A : s \in Seq(A)

LEMMA NoneIsSeq == IsSeq(<<>>) /\ Len(<<>>) = 0
<1>1. <<>> \in Seq({}) /\ Len(<<>>) = 0
  OBVIOUS
<1> QED BY <1>1 DEF IsSeq

LEMMA OneIsSeq ==
  ASSUME NEW x
  PROVE  IsSeq(<<x>>) /\ Len(<<x>>) = 1 /\ <<x>>[1] = x
<1>1. <<x>> \in Seq({x})
  OBVIOUS
<1> QED BY <1>1 DEF IsSeq

LEMMA SeqsJoin ==
  ASSUME NEW p, IsSeq(p), NEW q, IsSeq(q)
  PROVE  /\ IsSeq(p \o q) /\ Len(p) \in Nat /\ Len(q) \in Nat /\ Len(p \o q) = Len(p) + Len(q)
         /\ \A i \in 1 .. Len(p) + Len(q) : (p \o q)[i] = IF i <= Len(p) THEN p[i] ELSE q[i - Len(p)]
<1>1. PICK A : p \in Seq(A)
  BY DEF IsSeq
<1>2. PICK B : q \in Seq(B)
  BY DEF IsSeq
<1>3. p \in Seq(A \cup B) /\ q \in Seq(A \cup B)
  BY <1>1, <1>2, SeqMonotonic
<1>4. PICK C : C = A \cup B
  OBVIOUS
<1>5. /\ p \o q \in Seq(C) /\ Len(p) \in Nat /\ Len(q) \in Nat /\ Len(p \o q) = Len(p) + Len(q)
      /\ \A i \in 1 .. Len(p) + Len(q) : (p \o q)[i] = IF i <= Len(p) THEN p[i] ELSE q[i - Len(p)]
  BY <1>3, <1>4, ConcatProperties, LenProperties
<1> QED BY <1>5 DEF IsSeq

LEMMA SeqAppend ==
  ASSUME NEW s, IsSeq(s), NEW x
  PROVE  /\ IsSeq(Append(s, x)) /\ Len(s) \in Nat /\ Len(Append(s, x)) = Len(s) + 1
         /\ \A i \in 1 .. Len(s) : Append(s, x)[i] = s[i]
         /\ Append(s, x)[Len(s) + 1] = x
<1>1. PICK A : s \in Seq(A)
  BY DEF IsSeq
<1>2. PICK B : B = A \cup {x}
  OBVIOUS
<1>3. s \in Seq(B) /\ x \in B
  BY <1>1, <1>2, SeqMonotonic
<1>4. /\ Append(s, x) \in Seq(B) /\ Len(s) \in Nat /\ Len(Append(s, x)) = Len(s) + 1
      /\ \A i \in 1 .. Len(s) : Append(s, x)[i] = s[i]
      /\ Append(s, x)[Len(s) + 1] = x
  BY <1>3, AppendProperties, LenProperties
<1> QED BY <1>4 DEF IsSeq

LEMMA PrefixIs ==
  ASSUME NEW B, NEW s, NEW n \in Nat, \A i \in 1 .. n : s[i] \in B
  PROVE  /\ SubSeq(s, 1, n) \in Seq(B) /\ Len(SubSeq(s, 1, n)) = n
         /\ \A i \in 1 .. n : SubSeq(s, 1, n)[i] = s[i]
<1> DEFINE t == SubSeq(s, 1, n)
<1>1. 1 \in Int /\ n \in Int
  OBVIOUS
<1>2. /\ t \in Seq(B) /\ Len(t) = IF 1 <= n THEN n - 1 + 1 ELSE 0
      /\ \A i \in 1 .. n - 1 + 1 : t[i] = s[1 + i - 1]
  BY <1>1, SubSeqProperties
<1>3. n - 1 + 1 = n /\ (1 <= n \/ n = 0) /\ \A i \in 1 .. n : 1 + i - 1 = i
  OBVIOUS
<1> HIDE DEF t
<1>4. t \in Seq(B) /\ Len(t) = n /\ \A i \in 1 .. n : t[i] = s[i]
  BY <1>2, <1>3
<1> QED BY <1>4 DEF t

\* The two top trees of a stack, and what is below them.
Tops(z, s, x, y) ==
  ~(Len(z) < 2) /\ z[Len(z)] = y /\ z[Len(z) - 1] = x /\ SubSeq(z, 1, Len(z) - 2) = s

LEMMA SeqTops ==
  ASSUME NEW s, IsSeq(s), NEW x, NEW y
  PROVE  Tops(Append(Append(s, x), y), s, x, y)
<1> PICK z : z = Append(Append(s, x), y)
  OBVIOUS
<1>1. PICK A : s \in Seq(A)
  BY DEF IsSeq
<1>2. PICK B : B = A \cup {x, y}
  OBVIOUS
<1>3. s \in Seq(B) /\ x \in B /\ y \in B
  BY <1>1, <1>2, SeqMonotonic
<1>4. PICK w : w = Append(s, x)
  OBVIOUS
<1>5. /\ w \in Seq(B) /\ Len(s) \in Nat /\ Len(w) = Len(s) + 1
      /\ \A i \in 1 .. Len(s) : w[i] = s[i]
      /\ w[Len(s) + 1] = x
  BY <1>3, <1>4, AppendProperties, LenProperties
<1>6. /\ z \in Seq(B) /\ Len(z) = Len(w) + 1
      /\ \A i \in 1 .. Len(w) : z[i] = w[i]
      /\ z[Len(w) + 1] = y
  BY <1>3, <1>4, <1>5, AppendProperties
<1>7. PICK n \in Nat : n = Len(s)
  BY <1>5
<1>8. /\ Len(z) = n + 2 /\ z[n + 2] = y /\ z[n + 1] = x /\ n + 2 - 1 = n + 1 /\ n + 2 - 2 = n
      /\ \A i \in 1 .. n : z[i] = s[i]
  <2>1. Len(w) = n + 1 /\ n + 1 + 1 = n + 2
    BY <1>5, <1>7
  <2>2. n + 1 \in 1 .. Len(w) /\ \A i \in 1 .. n : i \in 1 .. Len(w)
    BY <2>1
  <2> QED BY <1>5, <1>6, <1>7, <2>1, <2>2
<1>9. SubSeq(z, 1, n) = s
  <2>1. PICK t : t = SubSeq(z, 1, n)
    OBVIOUS
  <2>2. \A i \in 1 .. n : z[i] \in B
    BY <1>6, <1>8
  <2>3. t \in Seq(B) /\ Len(t) = n /\ \A i \in 1 .. n : t[i] = z[i]
    BY <1>7, <2>1, <2>2, PrefixIs
  <2>4. t \in Seq(B) /\ s \in Seq(B) /\ Len(t) = Len(s) /\ \A i \in 1 .. Len(t) : t[i] = s[i]
    BY <1>3, <1>7, <1>8, <2>3
  <2>5. t = s
    BY <2>4, SeqEqual
  <2> QED BY <2>1, <2>5
<1>10. Tops(z, s, x, y)
  BY <1>7, <1>8, <1>9 DEF Tops
<1> QED BY <1>10

At(s, l) == [stack |-> s, last |-> l]

Leaf(n) == [node |-> n, left |-> NoChild, right |-> NoChild, shown |-> <<n>>]

\* InOrder and Combined of any key before and any stack.
Follows(prev, k, inverted) ==
  prev # NoKey /\ prev.inverted = inverted => IF inverted THEN k < prev.key ELSE k > prev.key

Merged(s, op) ==
  LET n == Len(s)
  IN  IF n < 2 THEN {}
      ELSE IF TreeOps[op].top THEN Attached(s[n], s[n - 1], TreeOps[op].left)
      ELSE Attached(s[n - 1], s[n], TreeOps[op].left)

DoesPush(op, c, d) ==
  \E n : \E inverted \in BOOLEAN :
    /\ op = PushOp(n, inverted)
    /\ HasKey(n) => Follows(c.last, n.key, inverted)
    /\ d = At(Append(c.stack, Leaf(n)),
              IF HasKey(n) THEN [key |-> n.key, inverted |-> inverted] ELSE c.last)

DoesAttach(op, c, d) ==
  \E o \in DOMAIN TreeOps : \E t \in Merged(c.stack, o) :
    op = Op(o) /\ d = At(Append(SubSeq(c.stack, 1, Len(c.stack) - 2), t), c.last)

\* The machine takes the operation from c to d, and refuses nothing.
Does(op, c, d) == DoesPush(op, c, d) \/ DoesAttach(op, c, d)

RunsBy(run, ops, c, d) ==
  /\ run[0] = c /\ run[Len(ops)] = d
  /\ \A i \in 1 .. Len(ops) : Does(ops[i], run[i - 1], run[i])

\* The operations take it from c to d.
Leads(ops, c, d) == IsSeq(ops) /\ \E run : RunsBy(run, ops, c, d)

LEMMA LeadsNowhere ==
  ASSUME NEW c
  PROVE  Leads(<<>>, c, c) /\ \A d : Leads(<<>>, c, d) => d = c
<1>1. \A d : Leads(<<>>, c, d) => d = c
  BY NoneIsSeq DEF Leads, RunsBy
<1>2. Leads(<<>>, c, c)
  <2> DEFINE run == [i \in 0 .. 0 |-> c]
  <2>1. run[0] = c
    OBVIOUS
  <2> HIDE DEF run
  <2>2. RunsBy(run, <<>>, c, c)
    BY <2>1, NoneIsSeq DEF RunsBy
  <2> QED BY <2>2, NoneIsSeq DEF Leads
<1> QED BY <1>1, <1>2

LEMMA LeadsByOne ==
  ASSUME NEW op, NEW c, NEW d, Does(op, c, d)
  PROVE  Leads(<<op>>, c, d)
<1> DEFINE run == [i \in 0 .. 1 |-> IF i = 0 THEN c ELSE d]
<1>1. run[0] = c /\ run[1] = d
  OBVIOUS
<1> HIDE DEF run
<1>2. RunsBy(run, <<op>>, c, d)
  <2>1. Len(<<op>>) = 1 /\ <<op>>[1] = op
    BY OneIsSeq
  <2>2. \A i \in 1 .. 1 : i = 1 /\ i - 1 = 0
    OBVIOUS
  <2> QED BY <1>1, <2>1, <2>2 DEF RunsBy
<1> QED BY <1>2, OneIsSeq DEF Leads

LEMMA LeadsOn ==
  ASSUME NEW p, NEW q, NEW c, NEW d, NEW e, Leads(p, c, d), Leads(q, d, e)
  PROVE  Leads(p \o q, c, e)
<1>1. PICK f : RunsBy(f, p, c, d)
  BY DEF Leads
<1>2. PICK g : RunsBy(g, q, d, e)
  BY DEF Leads
<1>3. PICK s : s = p \o q
  OBVIOUS
<1>4. PICK a \in Nat, b \in Nat : a = Len(p) /\ b = Len(q)
  BY SeqsJoin DEF Leads
<1>5. /\ IsSeq(s) /\ Len(s) = a + b
      /\ \A i \in 1 .. a + b : s[i] = IF i <= a THEN p[i] ELSE q[i - a]
  BY <1>3, <1>4, SeqsJoin DEF Leads
<1> DEFINE run == [i \in 0 .. a + b |-> IF i <= a THEN f[i] ELSE g[i - a]]
<1>6. (\A i \in 0 .. a : run[i] = f[i]) /\ \A i \in 0 .. a + b : i >= a => run[i] = g[i - a]
  <2>1. f[a] = g[0]
    BY <1>1, <1>2, <1>4 DEF RunsBy
  <2>2. \A i \in 0 .. a : i \in 0 .. a + b /\ i <= a
    BY <1>4
  <2>3. ASSUME NEW i \in 0 .. a + b, i >= a
        PROVE  run[i] = g[i - a]
    <3>1. CASE i = a
      <4>1. i - a = 0
        BY <3>1, <1>4
      <4> QED BY <2>1, <2>2, <3>1, <4>1
    <3>2. CASE i # a
      BY <2>3, <3>2, <1>4
    <3> QED BY <3>1, <3>2
  <2> QED BY <2>2, <2>3
<1> HIDE DEF run
<1>7. run[0] = c /\ run[a + b] = e
  <2>1. 0 \in 0 .. a /\ a + b \in 0 .. a + b /\ a + b >= a /\ a + b - a = b
    BY <1>4
  <2> QED BY <1>1, <1>2, <1>4, <1>6, <2>1 DEF RunsBy
<1>8. ASSUME NEW i \in 1 .. a + b
      PROVE  Does(s[i], run[i - 1], run[i])
  <2>1. CASE i <= a
    <3>1. i \in 1 .. a /\ i \in 0 .. a /\ i - 1 \in 0 .. a
      BY <1>4, <2>1
    <3> QED BY <1>1, <1>4, <1>5, <1>6, <2>1, <3>1 DEF RunsBy
  <2>2. CASE ~(i <= a)
    <3>1. /\ i - a \in 1 .. b /\ i \in 0 .. a + b /\ i >= a
          /\ i - 1 \in 0 .. a + b /\ i - 1 >= a /\ (i - 1) - a = (i - a) - 1
      BY <1>4, <2>2
    <3>2. Does(q[i - a], g[(i - a) - 1], g[i - a])
      BY <1>2, <1>4, <3>1 DEF RunsBy
    <3> QED BY <1>5, <1>6, <2>2, <3>1, <3>2
  <2> QED BY <2>1, <2>2
<1>9. RunsBy(run, s, c, e)
  BY <1>5, <1>7, <1>8 DEF RunsBy
<1> QED BY <1>3, <1>5, <1>9 DEF Leads

LEMMA LeadsFirst ==
  ASSUME NEW ops, NEW c, NEW d, Leads(ops, c, d), ops # <<>>
  PROVE  \E m : Does(Head(ops), c, m) /\ Leads(Tail(ops), m, d)
<1>1. PICK f : RunsBy(f, ops, c, d)
  BY DEF Leads
<1>2. PICK A : ops \in Seq(A)
  BY DEF Leads, IsSeq
<1>3. PICK a \in Nat : a = Len(ops)
  BY <1>2, LenProperties
<1>4. a >= 1 /\ Head(ops) = ops[1]
  <2>1. a # 0
    BY <1>2, <1>3, EmptySeq
  <2> QED BY <1>2, <1>3, <2>1, HeadTailProperties
<1>5. PICK s : s = Tail(ops)
  OBVIOUS
<1>6. s \in Seq(A) /\ Len(s) = a - 1 /\ \A i \in 1 .. a - 1 : s[i] = ops[i + 1]
  BY <1>2, <1>3, <1>4, <1>5, HeadTailProperties
<1> DEFINE run == [i \in 0 .. a - 1 |-> f[i + 1]]
<1>7. \A i \in 0 .. a - 1 : run[i] = f[i + 1]
  OBVIOUS
<1> HIDE DEF run
<1>8. RunsBy(run, s, f[1], d)
  <2>1. run[0] = f[1] /\ run[a - 1] = d
    <3>1. 0 \in 0 .. a - 1 /\ 0 + 1 = 1 /\ a - 1 \in 0 .. a - 1 /\ a - 1 + 1 = a
      BY <1>3, <1>4
    <3> QED BY <1>1, <1>3, <1>7, <3>1 DEF RunsBy
  <2>2. ASSUME NEW i \in 1 .. a - 1
        PROVE  Does(s[i], run[i - 1], run[i])
    <3>1. i - 1 \in 0 .. a - 1 /\ i - 1 + 1 = i /\ i \in 0 .. a - 1 /\ i + 1 \in 1 .. a /\ i + 1 - 1 = i
      BY <1>3
    <3>2. Does(ops[i + 1], f[i], f[i + 1])
      BY <1>1, <1>3, <3>1 DEF RunsBy
    <3> QED BY <1>6, <1>7, <3>1, <3>2
  <2> QED BY <1>6, <2>1, <2>2 DEF RunsBy
<1>9. Does(Head(ops), c, f[1])
  <2>1. 1 \in 1 .. a /\ 1 - 1 = 0
    BY <1>3, <1>4
  <2> QED BY <1>1, <1>3, <1>4, <2>1 DEF RunsBy
<1> QED BY <1>5, <1>6, <1>8, <1>9 DEF Leads, IsSeq

-----------------------------------------------------------------------------
(* What an honest proof builds *)

\* The node shows the keys K as an honest prover does: a pruned subtree of any, or
\* the element at the only one.
ShowsAs(n, K) == K # {} /\ (n.type = "Hash" \/ \E k \in K : K = {k} /\ n \in NodesAt(k))

HonestBy(seq, S, f) == Placed(seq, S, f) /\ \A i \in 1 .. Len(seq) : ShowsAs(seq[i], f[i])

Honest(seq, S) == IsSeq(seq) /\ \E f : HonestBy(seq, S, f)

LEMMA NothingIsHonest == Honest(<<>>, {})
<1>1. HonestBy(<<>>, {}, <<>>)
  <2>1. Len(<<>>) = 0
    BY NoneIsSeq
  <2> QED BY <2>1 DEF HonestBy, Placed
<1> QED BY <1>1, NoneIsSeq DEF Honest

LEMMA PrunedIsHonest ==
  ASSUME NEW S, S # {}, NEW n, n.type = "Hash"
  PROVE  Honest(<<n>>, S)
<1> DEFINE f == [i \in 1 .. 1 |-> S]
<1>1. IsSeq(<<n>>) /\ Len(<<n>>) = 1 /\ <<n>>[1] = n
  BY OneIsSeq
<1>2. f \in [1 .. 1 -> SUBSET S] /\ f[1] = S /\ \A i \in 1 .. 1 : i = 1
  OBVIOUS
<1> HIDE DEF f
<1>3. Placed(<<n>>, S, f)
  BY <1>1, <1>2 DEF Placed
<1>4. ShowsAs(<<n>>[1], f[1])
  BY <1>1, <1>2 DEF ShowsAs
<1>5. HonestBy(<<n>>, S, f)
  BY <1>1, <1>2, <1>3, <1>4 DEF HonestBy
<1> QED BY <1>1, <1>5 DEF Honest

LEMMA HonestJoin ==
  ASSUME NEW left, NEW right, NEW S \in SUBSET Keys, NEW k \in S, NEW n \in NodesAt(k),
         Honest(left, Before(S, k)), Honest(right, After(S, k))
  PROVE  Honest(left \o <<n>> \o right, S)
<1>1. PICK f : HonestBy(left, Before(S, k), f)
  BY DEF Honest
<1>2. PICK g : HonestBy(right, After(S, k), g)
  BY DEF Honest
<1>3. PICK s : s = left \o <<n>> \o right
  OBVIOUS
<1>4. IsSeq(s)
  <2>1. IsSeq(left \o <<n>>)
    BY OneIsSeq, SeqsJoin DEF Honest
  <2> QED BY <1>3, <2>1, SeqsJoin DEF Honest
<1>5. PICK N : n \in N /\ left \in Seq(N) /\ right \in Seq(N)
  <2>1. PICK A : left \in Seq(A)
    BY DEF Honest, IsSeq
  <2>2. PICK B : right \in Seq(B)
    BY DEF Honest, IsSeq
  <2>3. PICK C : C = A \cup B \cup {n}
    OBVIOUS
  <2>4. A \subseteq C /\ B \subseteq C /\ n \in C
    BY <2>3
  <2> QED BY <2>1, <2>2, <2>4, SeqMonotonic
<1>6. PICK h : Placed(s, S, h) /\ MadeOf(s, h, left, f, n, k, right, g)
  <2>1. Placed(left, Before(S, k), f) /\ Placed(right, After(S, k), g)
    BY <1>1, <1>2 DEF HonestBy
  <2> QED BY <1>3, <1>5, <2>1, PlacesJoin
<1>7. ShowsAs(n, {k})
  BY DEF ShowsAs
<1>8. HonestBy(s, S, h)
  BY <1>1, <1>2, <1>6, <1>7 DEF HonestBy, MadeOf
<1> QED BY <1>3, <1>4, <1>8 DEF Honest

\* What a node shows of an element hashes to it and binds.
LEMMA NodeAtIs ==
  ASSUME NEW k \in Keys, NEW n \in NodesAt(k)
  PROVE  /\ n.type # "Hash"
         /\ KvHashOf(n) = KvHash(k, StoredHash(Entry[k]))
         /\ HasKey(n) => n.key = k
         /\ HasValue(n) => /\ HasKey(n) /\ Binding(n) # "refused"
                           /\ (n.value \in Subtrees => Entry[k].reference)
                                => Binding(n) \in {"bound", "emptyTree"}
<1> DEFINE e == Entry[k]
<1>0. e.bytes \in Bytes /\ Items \cap (Subtrees \cup EmptyTrees) = {}
  BY MerkAssumption
<1>1. CASE n = KVHashNode(k)
  BY <1>1 DEF KVHashNode, KvHashOf, HasKey, HasValue
<1>2. CASE n = KVDigestNode(k)
  BY <1>2 DEF KVDigestNode, KvHashOf, HasKey, HasValue
<1>3. CASE n = ValueNode(k)
  <2>1. CASE e.reference
    <3>1. n = [type |-> "KVRefValueHash", key |-> k, value |-> e.bytes, valueHash |-> ValueHash(Pointer)]
      BY <1>3, <2>1 DEF ValueNode
    <3>2. KvHashOf(n) = KvHash(k, CombineHash(ValueHash(Pointer), ValueHash(e.bytes)))
      BY <3>1 DEF KvHashOf
    <3>3. StoredHash(e) = CombineHash(ValueHash(Pointer), ValueHash(e.bytes))
      BY <2>1 DEF StoredHash
    <3> QED BY <3>1, <3>2, <3>3 DEF HasKey, Binding
  <2>2. CASE ~e.reference /\ e.bytes \in Items
    <3>1. n = [type |-> "KV", key |-> k, value |-> e.bytes]
      BY <1>3, <2>2 DEF ValueNode
    <3>2. KvHashOf(n) = KvHash(k, ValueHash(e.bytes))
      BY <3>1 DEF KvHashOf
    <3>3. StoredHash(e) = ValueHash(e.bytes)
      BY <1>0, <2>2 DEF StoredHash
    <3> QED BY <3>1, <3>2, <3>3 DEF HasKey, Binding
  <2>3. CASE ~e.reference /\ e.bytes \notin Items
    <3>1. n = [type |-> "KVValueHash", key |-> k, value |-> e.bytes, valueHash |-> StoredHash(e)]
      BY <1>3, <2>3 DEF ValueNode, KVValueHashNode
    <3>2. KvHashOf(n) = KvHash(k, StoredHash(e))
      BY <3>1 DEF KvHashOf
    <3>3. e.bytes \in Subtrees \/ (e.bytes \in EmptyTrees /\ e.bytes \notin Subtrees)
      BY <1>0, <2>3 DEF Bytes
    <3>4. e.bytes \notin Subtrees => StoredHash(e) = CombineHash(ValueHash(e.bytes), NullHash)
      BY <2>3, <3>3 DEF StoredHash
    <3> HIDE DEF e
    <3>5. n.type = "KVValueHash" /\ n.key = k /\ n.value = e.bytes /\ n.valueHash = StoredHash(e)
      BY <3>1
    <3>6. Binding(n) = IF e.bytes \in Subtrees THEN "unboundTree" ELSE "emptyTree"
      BY <3>3, <3>4, <3>5 DEF Binding
    <3> QED BY <2>3, <3>2, <3>5, <3>6 DEF HasKey, e
  <2> QED BY <2>1, <2>2, <2>3
<1> QED BY <1>1, <1>2, <1>3 DEF NodesAt

\* A node with what it shows to its left and right, and the hashes of the two.
Grown(n, ls, rs, lh, rh) ==
  [node |-> n, left |-> IF lh = NullHash THEN NoChild ELSE lh,
   right |-> IF rh = NullHash THEN NoChild ELSE rh, shown |-> ls \o <<n>> \o rs]

\* The same of the child that comes first in the proof and the one that comes second.
GrownBy(n, inverted, fs, ss, fh, sh) ==
  IF inverted THEN Grown(n, ss, fs, sh, fh) ELSE Grown(n, fs, ss, fh, sh)

LEMMA EmptySides ==
  ASSUME NEW s, IsSeq(s)
  PROVE  <<>> \o s = s /\ s \o <<>> = s
<1>1. PICK A : s \in Seq(A)
  BY DEF IsSeq
<1> QED BY <1>1, ConcatEmptySeq

LEMMA SeqsAssociate ==
  ASSUME NEW p, IsSeq(p), NEW q, IsSeq(q), NEW r, IsSeq(r)
  PROVE  p \o (q \o r) = (p \o q) \o r
<1>1. PICK A : p \in Seq(A)
  BY DEF IsSeq
<1>2. PICK B : q \in Seq(B)
  BY DEF IsSeq
<1>3. PICK C : r \in Seq(C)
  BY DEF IsSeq
<1>4. PICK D : D = A \cup B \cup C
  OBVIOUS
<1>5. A \subseteq D /\ B \subseteq D /\ C \subseteq D
  BY <1>4
<1>6. p \in Seq(D) /\ q \in Seq(D) /\ r \in Seq(D)
  BY <1>1, <1>2, <1>3, <1>5, SeqMonotonic
<1> QED BY <1>6, ConcatAssociative, SMTT(30)

LEMMA LeafIsGrown ==
  ASSUME NEW n, NEW inverted \in BOOLEAN
  PROVE  Leaf(n) = GrownBy(n, inverted, <<>>, <<>>, NullHash, NullHash)
<1>1. <<>> \o <<n>> \o <<>> = <<n>>
  BY EmptySides, OneIsSeq
<1>2. Leaf(n) = Grown(n, <<>>, <<>>, NullHash, NullHash)
  BY <1>1 DEF Leaf, Grown
<1> QED BY <1>2 DEF GrownBy

LEMMA GrowsLeft ==
  ASSUME NEW n, n.type # "Hash", NEW rs, IsSeq(rs), NEW rh, NEW c, IsSeq(c.shown),
         TreeHash(c) # NullHash
  PROVE  Grown(n, c.shown, rs, TreeHash(c), rh) \in Attached(Grown(n, <<>>, rs, NullHash, rh), c, TRUE)
<1> DEFINE p == Grown(n, <<>>, rs, NullHash, rh)
<1>1. /\ p = [node |-> n, left |-> NoChild, right |-> IF rh = NullHash THEN NoChild ELSE rh,
              shown |-> <<>> \o <<n>> \o rs]
  BY DEF Grown
<1>2. c.shown \o (<<>> \o <<n>> \o rs) = c.shown \o <<n>> \o rs
  <2>1. <<>> \o <<n>> = <<n>>
    BY EmptySides, OneIsSeq
  <2>2. PICK x, y : x = c.shown /\ y = <<n>>
    OBVIOUS
  <2>3. IsSeq(x) /\ IsSeq(y)
    BY <2>2, OneIsSeq
  <2>4. x \o (y \o rs) = (x \o y) \o rs
    BY <2>3, SeqsAssociate
  <2> QED BY <2>1, <2>2, <2>4
<1> HIDE DEF p
<1>3. p.node.type # "Hash" /\ p.left = NoChild
  BY <1>1
<1>4. [p EXCEPT !.left = TreeHash(c), !.shown = c.shown \o @] = Grown(n, c.shown, rs, TreeHash(c), rh)
  <2>1. PICK x, y, z, h : /\ x = (IF rh = NullHash THEN NoChild ELSE rh) /\ y = <<>> \o <<n>> \o rs
                          /\ z = c.shown \o y /\ h = TreeHash(c)
    OBVIOUS
  <2>2. p = [node |-> n, left |-> NoChild, right |-> x, shown |-> y]
    BY <1>1, <2>1
  <2>3. [p EXCEPT !.left = h, !.shown = z] = [node |-> n, left |-> h, right |-> x, shown |-> z]
    <3>1. PICK u : u = [p EXCEPT !.left = h, !.shown = z]
      OBVIOUS
    <3>2. /\ u.node = n /\ u.left = h /\ u.right = x /\ u.shown = z
          /\ u = [node |-> u.node, left |-> u.left, right |-> u.right, shown |-> u.shown]
      BY <2>2, <3>1
    <3>3. u = [node |-> n, left |-> h, right |-> x, shown |-> z]
      BY <3>2
    <3> QED BY <3>1, <3>3
  <2>4. p.shown = y /\ z = c.shown \o <<n>> \o rs
    BY <1>2, <2>1, <2>2
  <2>5. Grown(n, c.shown, rs, h, rh) = [node |-> n, left |-> h, right |-> x, shown |-> z]
    BY <2>1, <2>4 DEF Grown
  <2> QED BY <2>1, <2>3, <2>4, <2>5
<1>5. Grown(n, c.shown, rs, TreeHash(c), rh) \in Attached(p, c, TRUE)
  BY <1>3, <1>4 DEF Attached
<1> QED BY <1>5 DEF p

LEMMA GrowsRight ==
  ASSUME NEW n, n.type # "Hash", NEW ls, IsSeq(ls), NEW lh, NEW c, IsSeq(c.shown),
         TreeHash(c) # NullHash
  PROVE  Grown(n, ls, c.shown, lh, TreeHash(c)) \in Attached(Grown(n, ls, <<>>, lh, NullHash), c, FALSE)
<1> DEFINE p == Grown(n, ls, <<>>, lh, NullHash)
<1>1. /\ p = [node |-> n, left |-> IF lh = NullHash THEN NoChild ELSE lh, right |-> NoChild,
              shown |-> ls \o <<n>> \o <<>>]
  BY DEF Grown
<1>2. (ls \o <<n>> \o <<>>) \o c.shown = ls \o <<n>> \o c.shown
  <2>1. IsSeq(ls \o <<n>>)
    BY SeqsJoin, OneIsSeq
  <2>2. ls \o <<n>> \o <<>> = ls \o <<n>>
    BY <2>1, EmptySides
  <2> QED BY <2>2
<1> HIDE DEF p
<1>3. p.node.type # "Hash" /\ p.right = NoChild
  BY <1>1
<1>4. [p EXCEPT !.right = TreeHash(c), !.shown = @ \o c.shown] = Grown(n, ls, c.shown, lh, TreeHash(c))
  <2>1. PICK x, y, z, h : /\ x = (IF lh = NullHash THEN NoChild ELSE lh) /\ y = ls \o <<n>> \o <<>>
                          /\ z = y \o c.shown /\ h = TreeHash(c)
    OBVIOUS
  <2>2. p = [node |-> n, left |-> x, right |-> NoChild, shown |-> y]
    BY <1>1, <2>1
  <2>3. [p EXCEPT !.right = h, !.shown = z] = [node |-> n, left |-> x, right |-> h, shown |-> z]
    <3>1. PICK u : u = [p EXCEPT !.right = h, !.shown = z]
      OBVIOUS
    <3>2. /\ u.node = n /\ u.left = x /\ u.right = h /\ u.shown = z
          /\ u = [node |-> u.node, left |-> u.left, right |-> u.right, shown |-> u.shown]
      BY <2>2, <3>1
    <3>3. u = [node |-> n, left |-> x, right |-> h, shown |-> z]
      BY <3>2
    <3> QED BY <3>1, <3>3
  <2>4. p.shown = y /\ z = ls \o <<n>> \o c.shown
    BY <1>2, <2>1, <2>2
  <2>5. Grown(n, ls, c.shown, lh, h) = [node |-> n, left |-> x, right |-> h, shown |-> z]
    BY <2>1, <2>4 DEF Grown
  <2> QED BY <2>1, <2>3, <2>4, <2>5
<1>5. Grown(n, ls, c.shown, lh, TreeHash(c)) \in Attached(p, c, FALSE)
  BY <1>3, <1>4 DEF Attached
<1> QED BY <1>5 DEF p

LEMMA AttachLeads ==
  ASSUME NEW s, IsSeq(s), NEW l, NEW x, NEW y, NEW o \in DOMAIN TreeOps,
         NEW t \in IF TreeOps[o].top THEN Attached(y, x, TreeOps[o].left) ELSE Attached(x, y, TreeOps[o].left)
  PROVE  Leads(<<Op(o)>>, At(Append(Append(s, x), y), l), At(Append(s, t), l))
<1> DEFINE c == At(Append(Append(s, x), y), l)
<1>1. PICK z : z = Append(Append(s, x), y)
  OBVIOUS
<1>2. c.stack = z /\ c.last = l
  BY <1>1 DEF At
<1>3. Tops(z, s, x, y)
  BY <1>1, SeqTops
<1>4. t \in Merged(z, o)
  BY <1>3 DEF Merged, Tops
<1> HIDE DEF c
<1>5. Does(Op(o), c, At(Append(s, t), l))
  BY <1>2, <1>3, <1>4 DEF Does, DoesAttach, Tops
<1> QED BY <1>5, LeadsByOne DEF c

\* The node takes what was built before it as its first child.
LEMMA ParentLeads ==
  ASSUME NEW s, IsSeq(s), NEW l, NEW inverted \in BOOLEAN, NEW n, n.type # "Hash",
         NEW c, IsSeq(c.shown), TreeHash(c) # NullHash
  PROVE  Leads(<<ParentOp(inverted)>>, At(Append(Append(s, c), Leaf(n)), l),
               At(Append(s, GrownBy(n, inverted, c.shown, <<>>, TreeHash(c), NullHash)), l))
<1>1. CASE inverted
  <2>1. /\ "ParentInverted" \in DOMAIN TreeOps
        /\ TreeOps["ParentInverted"].top = TRUE /\ TreeOps["ParentInverted"].left = FALSE
    BY DEF TreeOps
  <2>2. Leaf(n) = Grown(n, <<>>, <<>>, NullHash, NullHash)
    BY <1>1, LeafIsGrown DEF GrownBy
  <2>3. Grown(n, <<>>, c.shown, NullHash, TreeHash(c)) \in Attached(Leaf(n), c, FALSE)
    BY <2>2, NoneIsSeq, GrowsRight
  <2>4. Leads(<<Op("ParentInverted")>>, At(Append(Append(s, c), Leaf(n)), l),
              At(Append(s, Grown(n, <<>>, c.shown, NullHash, TreeHash(c))), l))
    BY <2>1, <2>3, AttachLeads
  <2> QED BY <1>1, <2>4 DEF GrownBy, ParentOp
<1>2. CASE ~inverted
  <2>1. "Parent" \in DOMAIN TreeOps /\ TreeOps["Parent"].top = TRUE /\ TreeOps["Parent"].left = TRUE
    BY DEF TreeOps
  <2>2. Leaf(n) = Grown(n, <<>>, <<>>, NullHash, NullHash)
    BY <1>2, LeafIsGrown DEF GrownBy
  <2>3. Grown(n, c.shown, <<>>, TreeHash(c), NullHash) \in Attached(Leaf(n), c, TRUE)
    BY <2>2, NoneIsSeq, GrowsLeft
  <2>4. Leads(<<Op("Parent")>>, At(Append(Append(s, c), Leaf(n)), l),
              At(Append(s, Grown(n, c.shown, <<>>, TreeHash(c), NullHash)), l))
    BY <2>1, <2>3, AttachLeads
  <2> QED BY <1>2, <2>4 DEF GrownBy, ParentOp
<1> QED BY <1>1, <1>2

\* The node takes what was built after it as its second child.
LEMMA ChildLeads ==
  ASSUME NEW s, IsSeq(s), NEW l, NEW inverted \in BOOLEAN, NEW n, n.type # "Hash",
         NEW fs, IsSeq(fs), NEW fh, NEW c, IsSeq(c.shown), TreeHash(c) # NullHash
  PROVE  Leads(<<ChildOp(inverted)>>,
               At(Append(Append(s, GrownBy(n, inverted, fs, <<>>, fh, NullHash)), c), l),
               At(Append(s, GrownBy(n, inverted, fs, c.shown, fh, TreeHash(c))), l))
<1>1. CASE inverted
  <2>1. /\ "ChildInverted" \in DOMAIN TreeOps
        /\ TreeOps["ChildInverted"].top = FALSE /\ TreeOps["ChildInverted"].left = TRUE
    BY DEF TreeOps
  <2>2. Grown(n, c.shown, fs, TreeHash(c), fh) \in Attached(Grown(n, <<>>, fs, NullHash, fh), c, TRUE)
    BY GrowsLeft
  <2>3. Leads(<<Op("ChildInverted")>>, At(Append(Append(s, Grown(n, <<>>, fs, NullHash, fh)), c), l),
              At(Append(s, Grown(n, c.shown, fs, TreeHash(c), fh)), l))
    BY <2>1, <2>2, AttachLeads
  <2> QED BY <1>1, <2>3 DEF GrownBy, ChildOp
<1>2. CASE ~inverted
  <2>1. "Child" \in DOMAIN TreeOps /\ TreeOps["Child"].top = FALSE /\ TreeOps["Child"].left = FALSE
    BY DEF TreeOps
  <2>2. Grown(n, fs, c.shown, fh, TreeHash(c)) \in Attached(Grown(n, fs, <<>>, fh, NullHash), c, FALSE)
    BY GrowsRight
  <2>3. Leads(<<Op("Child")>>, At(Append(Append(s, Grown(n, fs, <<>>, fh, NullHash)), c), l),
              At(Append(s, Grown(n, fs, c.shown, fh, TreeHash(c))), l))
    BY <2>1, <2>2, AttachLeads
  <2> QED BY <1>2, <2>3 DEF GrownBy, ChildOp
<1> QED BY <1>1, <1>2

\* Pushes may go on after the key before: every key of S follows it.
Ready(prev, S, inverted) == \A k \in S : Follows(prev, k, inverted)

\* The key before is what it was, or one of S.
Moves(prev, next, S, inverted) ==
  next = prev \/ \E k \in S : next = [key |-> k, inverted |-> inverted]

\* Every key of T comes after every one of S, in the proof's direction.
Apart(S, T, inverted) == \A j \in S, k \in T : IF inverted THEN k < j ELSE k > j

LEMMA ReadyAfter ==
  ASSUME NEW S, NEW T, NEW inverted \in BOOLEAN, NEW prev, NEW next, Moves(prev, next, S, inverted),
         Ready(prev, T, inverted), Apart(S, T, inverted)
  PROVE  Ready(next, T, inverted)
<1>1. CASE next = prev
  BY <1>1
<1>2. ASSUME NEW k \in S, next = [key |-> k, inverted |-> inverted]
      PROVE  Ready(next, T, inverted)
  <2>1. next.key = k
    BY <1>2
  <2> QED BY <2>1 DEF Ready, Follows, Apart
<1> QED BY <1>1, <1>2 DEF Moves

LEMMA MovesOn ==
  ASSUME NEW S, NEW T, NEW U, S \subseteq U, T \subseteq U, NEW inverted, NEW a, NEW b, NEW c,
         Moves(a, b, S, inverted), Moves(b, c, T, inverted)
  PROVE  Moves(a, c, U, inverted)
BY DEF Moves

LEMMA PushLeads ==
  ASSUME NEW s, NEW l, NEW n, NEW inverted \in BOOLEAN, NEW S,
         HasKey(n) => n.key \in S /\ Follows(l, n.key, inverted)
  PROVE  \E m : Leads(<<PushOp(n, inverted)>>, At(s, l), At(Append(s, Leaf(n)), m)) /\ Moves(l, m, S, inverted)
<1>1. PICK m : m = IF HasKey(n) THEN [key |-> n.key, inverted |-> inverted] ELSE l
  OBVIOUS
<1>2. Moves(l, m, S, inverted)
  BY <1>1 DEF Moves
<1>3. At(s, l).stack = s /\ At(s, l).last = l
  BY DEF At
<1>4. DoesPush(PushOp(n, inverted), At(s, l), At(Append(s, Leaf(n)), m))
  BY <1>1, <1>3 DEF DoesPush
<1>5. Leads(<<PushOp(n, inverted)>>, At(s, l), At(Append(s, Leaf(n)), m))
  BY <1>4, LeadsByOne DEF Does
<1> QED BY <1>2, <1>5

\* The operations build the tree of keys S whose hash is h, on any stack and after
\* any key that S may follow.
Builds(p, h, S, inverted) ==
  \A s, l : IsSeq(s) /\ Ready(l, S, inverted) =>
    \E u, m : /\ Leads(p, At(s, l), At(Append(s, u), m)) /\ Moves(l, m, S, inverted)
              /\ TreeHash(u) = h /\ Honest(u.shown, S)

\* What comes before or after a node in a proof: nothing for no child, or what
\* builds the child.
BuildsSide(p, h, S, inverted) ==
  \/ S = {} /\ p = <<>> /\ h = NullHash
  \/ S # {} /\ h # NullHash /\ h # NoChild /\ Builds(p, h, S, inverted)

\* The first child's operations, the node's push and the attachment of the two.
FirstDone(ops, s, l, n, inverted, h, F, k) ==
  \E fs, m : /\ Leads(ops, At(s, l), At(Append(s, GrownBy(n, inverted, fs, <<>>, h, NullHash)), m))
             /\ Moves(l, m, F \cup {k}, inverted) /\ Honest(fs, F)

\* The second child's, and its attachment.
SecondDone(ops, s, l, n, inverted, fs, fh, h, G) ==
  \E ss, m : /\ Leads(ops, At(Append(s, GrownBy(n, inverted, fs, <<>>, fh, NullHash)), l),
                       At(Append(s, GrownBy(n, inverted, fs, ss, fh, h)), m))
             /\ Moves(l, m, G, inverted) /\ Honest(ss, G)

LEMMA FirstHalf ==
  ASSUME NEW inverted \in BOOLEAN, NEW n, n.type # "Hash", NEW k, HasKey(n) => n.key = k,
         NEW F, NEW h, NEW p, BuildsSide(p, h, F, inverted), Apart(F, {k}, inverted),
         NEW s, IsSeq(s), NEW l, Ready(l, F \cup {k}, inverted),
         NEW ops, ops = p \o <<PushOp(n, inverted)>> \o (IF F = {} THEN <<>> ELSE <<ParentOp(inverted)>>)
  PROVE  FirstDone(ops, s, l, n, inverted, h, F, k)
<1>1. Ready(l, F, inverted) /\ Ready(l, {k}, inverted)
  BY DEF Ready
<1>2. CASE F = {} /\ p = <<>> /\ h = NullHash
  <2>1. HasKey(n) => n.key \in {k} /\ Follows(l, n.key, inverted)
    BY <1>1 DEF Ready
  <2>2. PICK m : /\ Leads(<<PushOp(n, inverted)>>, At(s, l), At(Append(s, Leaf(n)), m))
                 /\ Moves(l, m, {k}, inverted)
    BY <2>1, PushLeads
  <2>3. ops = <<PushOp(n, inverted)>>
    <3>1. PICK z : z = <<PushOp(n, inverted)>>
      OBVIOUS
    <3>2. IsSeq(z) /\ ops = <<>> \o z \o <<>>
      BY <1>2, <3>1, OneIsSeq
    <3>3. <<>> \o z = z /\ z \o <<>> = z
      BY <3>2, EmptySides
    <3> QED BY <3>1, <3>2, <3>3
  <2>4. Leaf(n) = GrownBy(n, inverted, <<>>, <<>>, h, NullHash)
    BY <1>2, LeafIsGrown
  <2>5. Moves(l, m, F \cup {k}, inverted)
    BY <2>2 DEF Moves
  <2> QED BY <1>2, <2>2, <2>3, <2>4, <2>5, NothingIsHonest DEF FirstDone
<1>3. CASE F # {} /\ h # NullHash /\ h # NoChild /\ Builds(p, h, F, inverted)
  <2>1. PICK u, a : /\ Leads(p, At(s, l), At(Append(s, u), a)) /\ Moves(l, a, F, inverted)
                    /\ TreeHash(u) = h /\ Honest(u.shown, F)
    BY <1>1, <1>3 DEF Builds
  <2>2. Ready(a, {k}, inverted)
    BY <1>1, <2>1, ReadyAfter
  <2>3. HasKey(n) => n.key \in {k} /\ Follows(a, n.key, inverted)
    BY <2>2 DEF Ready
  <2>4. PICK m : /\ Leads(<<PushOp(n, inverted)>>, At(Append(s, u), a), At(Append(Append(s, u), Leaf(n)), m))
                 /\ Moves(a, m, {k}, inverted)
    BY <2>3, PushLeads
  <2>5. IsSeq(u.shown)
    BY <2>1 DEF Honest
  <2>6. Leads(<<ParentOp(inverted)>>, At(Append(Append(s, u), Leaf(n)), m),
              At(Append(s, GrownBy(n, inverted, u.shown, <<>>, h, NullHash)), m))
    BY <1>3, <2>1, <2>5, ParentLeads
  <2>7. Leads(p \o <<PushOp(n, inverted)>>, At(s, l), At(Append(Append(s, u), Leaf(n)), m))
    BY <2>1, <2>4, LeadsOn
  <2>8. Leads(ops, At(s, l), At(Append(s, GrownBy(n, inverted, u.shown, <<>>, h, NullHash)), m))
    <3>1. ops = (p \o <<PushOp(n, inverted)>>) \o <<ParentOp(inverted)>>
      BY <1>3
    <3> QED BY <2>6, <2>7, <3>1, LeadsOn
  <2>9. Moves(l, m, F \cup {k}, inverted)
    <3>1. F \subseteq F \cup {k} /\ {k} \subseteq F \cup {k}
      OBVIOUS
    <3> QED BY <2>1, <2>4, <3>1, MovesOn
  <2> QED BY <2>1, <2>8, <2>9 DEF FirstDone
<1> QED BY <1>2, <1>3 DEF BuildsSide

LEMMA SecondHalf ==
  ASSUME NEW inverted \in BOOLEAN, NEW n, n.type # "Hash",
         NEW G, NEW h, NEW q, BuildsSide(q, h, G, inverted),
         NEW s, IsSeq(s), NEW l, Ready(l, G, inverted), NEW fs, IsSeq(fs), NEW fh,
         NEW ops, ops = q \o (IF G = {} THEN <<>> ELSE <<ChildOp(inverted)>>)
  PROVE  SecondDone(ops, s, l, n, inverted, fs, fh, h, G)
<1>1. PICK v : v = GrownBy(n, inverted, fs, <<>>, fh, NullHash)
  OBVIOUS
<1>2. CASE G = {} /\ q = <<>> /\ h = NullHash
  <2>1. ops = <<>>
    <3>1. ops = <<>> \o <<>>
      BY <1>2
    <3> QED BY <3>1, EmptySides, NoneIsSeq
  <2>2. Leads(ops, At(Append(s, v), l), At(Append(s, v), l))
    BY <2>1, LeadsNowhere
  <2>3. Moves(l, l, G, inverted)
    BY DEF Moves
  <2>4. v = GrownBy(n, inverted, fs, <<>>, fh, h)
    BY <1>1, <1>2
  <2> QED BY <1>1, <1>2, <2>2, <2>3, <2>4, NothingIsHonest DEF SecondDone
<1>3. CASE G # {} /\ h # NullHash /\ h # NoChild /\ Builds(q, h, G, inverted)
  <2>1. IsSeq(Append(s, v))
    BY SeqAppend
  <2>2. PICK u, m : /\ Leads(q, At(Append(s, v), l), At(Append(Append(s, v), u), m)) /\ Moves(l, m, G, inverted)
                    /\ TreeHash(u) = h /\ Honest(u.shown, G)
    BY <1>3, <2>1 DEF Builds
  <2>3. IsSeq(u.shown)
    BY <2>2 DEF Honest
  <2>4. Leads(<<ChildOp(inverted)>>, At(Append(Append(s, v), u), m),
              At(Append(s, GrownBy(n, inverted, fs, u.shown, fh, h)), m))
    BY <1>1, <1>3, <2>2, <2>3, ChildLeads
  <2>5. ops = q \o <<ChildOp(inverted)>>
    BY <1>3
  <2>6. Leads(ops, At(Append(s, v), l), At(Append(s, GrownBy(n, inverted, fs, u.shown, fh, h)), m))
    BY <2>2, <2>4, <2>5, LeadsOn
  <2> QED BY <1>1, <2>2, <2>6 DEF SecondDone
<1> QED BY <1>2, <1>3 DEF BuildsSide

\* A node with its two children built hashes and shows as the tree does.
LEMMA GrownIs ==
  ASSUME NEW S \in SUBSET Keys, NEW k \in S, NEW n \in NodesAt(k), NEW ls, NEW rs, NEW lh, NEW rh,
         lh # NoChild, rh # NoChild, Honest(ls, Before(S, k)), Honest(rs, After(S, k)),
         NEW u, u = Grown(n, ls, rs, lh, rh)
  PROVE  TreeHash(u) = NodeHash(KvHash(k, StoredHash(Entry[k])), lh, rh) /\ Honest(u.shown, S)
<1>1. k \in Keys
  OBVIOUS
<1>2. n.type # "Hash" /\ KvHashOf(n) = KvHash(k, StoredHash(Entry[k]))
  BY <1>1, NodeAtIs
<1>3. /\ u.node = n /\ u.shown = ls \o <<n>> \o rs
      /\ u.left = (IF lh = NullHash THEN NoChild ELSE lh) /\ u.right = (IF rh = NullHash THEN NoChild ELSE rh)
  BY DEF Grown
<1>4. NullHash # NoChild
  BY DEF NullHash, NoChild
<1>5. ChildHash(u.left) = lh /\ ChildHash(u.right) = rh
  BY <1>3, <1>4 DEF ChildHash
<1>6. TreeHash(u) = NodeHash(KvHashOf(n), lh, rh)
  BY <1>2, <1>3, <1>5 DEF TreeHash
<1>7. Honest(u.shown, S)
  BY <1>3, HonestJoin
<1> QED BY <1>2, <1>6, <1>7

LEMMA NodeBuilds ==
  ASSUME NEW inverted \in BOOLEAN, NEW S \in SUBSET Keys, NEW k \in S, NEW n \in NodesAt(k),
         NEW F, NEW G, NEW fh, NEW sh, NEW p, NEW q,
         F = (IF inverted THEN After(S, k) ELSE Before(S, k)),
         G = (IF inverted THEN Before(S, k) ELSE After(S, k)),
         BuildsSide(p, fh, F, inverted), BuildsSide(q, sh, G, inverted),
         NEW ops, ops = p \o <<PushOp(n, inverted)>> \o (IF F = {} THEN <<>> ELSE <<ParentOp(inverted)>>)
                          \o q \o (IF G = {} THEN <<>> ELSE <<ChildOp(inverted)>>)
  PROVE  Builds(ops, NodeHash(KvHash(k, StoredHash(Entry[k])), IF inverted THEN sh ELSE fh,
                              IF inverted THEN fh ELSE sh), S, inverted)
<1>1. S \subseteq Nat /\ k \in Keys
  BY SetsAreFinite
<1>2. n.type # "Hash" /\ (HasKey(n) => n.key = k)
  BY <1>1, NodeAtIs
<1>3. Apart(F, {k}, inverted) /\ Apart(F \cup {k}, G, inverted)
  BY <1>1 DEF Apart, Before, After
<1>4. F \cup {k} \subseteq S /\ G \subseteq S
  BY DEF Before, After
<1>5. fh # NoChild /\ sh # NoChild
  BY DEF BuildsSide, NullHash, NoChild
<1>6. PICK a : a = p \o <<PushOp(n, inverted)>> \o (IF F = {} THEN <<>> ELSE <<ParentOp(inverted)>>)
  OBVIOUS
<1>7. PICK b : b = q \o (IF G = {} THEN <<>> ELSE <<ChildOp(inverted)>>)
  OBVIOUS
<1>8. IsSeq(p) /\ IsSeq(q)
  <2>1. IsSeq(<<>>) /\ \A s, l : ~IsSeq(s) \/ Ready(l, {}, inverted)
    BY NoneIsSeq DEF Ready
  <2>2. ASSUME NEW x, NEW h, NEW T, T \subseteq S, BuildsSide(x, h, T, inverted) PROVE IsSeq(x)
    <3>1. CASE x = <<>>
      BY <3>1, NoneIsSeq
    <3>2. CASE Builds(x, h, T, inverted)
      <4>1. PICK l : Ready(l, T, inverted)
        <5>1. Ready(NoKey, T, inverted)
          BY DEF Ready, Follows
        <5> QED BY <5>1
      <4>2. \E c, d : Leads(x, c, d)
        BY <2>1, <3>2, <4>1 DEF Builds
      <4> QED BY <4>2 DEF Leads
    <3> QED BY <2>2, <3>1, <3>2 DEF BuildsSide
  <2> QED BY <1>4, <2>2
<1>9. ops = a \o b
  <2>1. PICK x : x = IF G = {} THEN <<>> ELSE <<ChildOp(inverted)>>
    OBVIOUS
  <2>2. IsSeq(x)
    BY <2>1, NoneIsSeq, OneIsSeq
  <2>3. PICK y : y = IF F = {} THEN <<>> ELSE <<ParentOp(inverted)>>
    OBVIOUS
  <2>4. IsSeq(y)
    BY <2>3, NoneIsSeq, OneIsSeq
  <2>5. PICK z : z = <<PushOp(n, inverted)>>
    OBVIOUS
  <2>6. IsSeq(z)
    BY <2>5, OneIsSeq
  <2>7. a = p \o z \o y /\ b = q \o x /\ ops = p \o z \o y \o q \o x
    BY <1>6, <1>7, <2>1, <2>3, <2>5
  <2>8. IsSeq(p \o z \o y)
    BY <1>8, <2>4, <2>6, SeqsJoin
  <2>9. ops = (a \o q) \o x /\ IsSeq(a)
    BY <2>7, <2>8
  <2>10. a \o (q \o x) = (a \o q) \o x
    BY <1>8, <2>2, <2>9, SeqsAssociate
  <2> QED BY <2>7, <2>9, <2>10
<1>10. ASSUME NEW s, NEW l, IsSeq(s), Ready(l, S, inverted)
       PROVE  \E u, m : /\ Leads(ops, At(s, l), At(Append(s, u), m)) /\ Moves(l, m, S, inverted)
                        /\ TreeHash(u) = NodeHash(KvHash(k, StoredHash(Entry[k])), IF inverted THEN sh ELSE fh,
                                                  IF inverted THEN fh ELSE sh)
                        /\ Honest(u.shown, S)
  <2>1. Ready(l, F \cup {k}, inverted) /\ Ready(l, G, inverted)
    BY <1>4, <1>10 DEF Ready
  <2>2. PICK fs, m1 : /\ Leads(a, At(s, l), At(Append(s, GrownBy(n, inverted, fs, <<>>, fh, NullHash)), m1))
                      /\ Moves(l, m1, F \cup {k}, inverted) /\ Honest(fs, F)
    <3>1. FirstDone(a, s, l, n, inverted, fh, F, k)
      BY <1>2, <1>3, <1>6, <1>10, <2>1, FirstHalf
    <3> QED BY <3>1 DEF FirstDone
  <2>3. Ready(m1, G, inverted) /\ IsSeq(fs)
    BY <1>3, <2>1, <2>2, ReadyAfter DEF Honest
  <2>4. PICK ss, m2 : /\ Leads(b, At(Append(s, GrownBy(n, inverted, fs, <<>>, fh, NullHash)), m1),
                               At(Append(s, GrownBy(n, inverted, fs, ss, fh, sh)), m2))
                      /\ Moves(m1, m2, G, inverted) /\ Honest(ss, G)
    <3>1. SecondDone(b, s, m1, n, inverted, fs, fh, sh, G)
      BY <1>2, <1>7, <1>10, <2>3, SecondHalf
    <3> QED BY <3>1 DEF SecondDone
  <2>5. PICK u : u = GrownBy(n, inverted, fs, ss, fh, sh)
    OBVIOUS
  <2>6. Leads(ops, At(s, l), At(Append(s, u), m2))
    BY <1>9, <2>2, <2>4, <2>5, LeadsOn
  <2>7. Moves(l, m2, S, inverted)
    BY <1>4, <2>2, <2>4, MovesOn
  <2>8. CASE inverted
    <3>1. u = Grown(n, ss, fs, sh, fh) /\ Honest(ss, Before(S, k)) /\ Honest(fs, After(S, k))
      BY <2>2, <2>4, <2>5, <2>8 DEF GrownBy
    <3>2. TreeHash(u) = NodeHash(KvHash(k, StoredHash(Entry[k])), sh, fh) /\ Honest(u.shown, S)
      BY <1>5, <3>1, GrownIs
    <3> QED BY <2>6, <2>7, <2>8, <3>2
  <2>9. CASE ~inverted
    <3>1. u = Grown(n, fs, ss, fh, sh) /\ Honest(fs, Before(S, k)) /\ Honest(ss, After(S, k))
      BY <2>2, <2>4, <2>5, <2>9 DEF GrownBy
    <3>2. TreeHash(u) = NodeHash(KvHash(k, StoredHash(Entry[k])), fh, sh) /\ Honest(u.shown, S)
      BY <1>5, <3>1, GrownIs
    <3> QED BY <2>6, <2>7, <2>9, <3>2
  <2> QED BY <2>8, <2>9
<1> QED BY <1>10 DEF Builds

LEMMA PrunedBuilds ==
  ASSUME NEW inverted \in BOOLEAN, NEW S, S # {}, NEW h, h # NullHash, h # NoChild
  PROVE  BuildsSide(<<PushOp(HashNode(h), inverted)>>, h, S, inverted)
<1>1. PICK n : n = HashNode(h)
  OBVIOUS
<1>2. n.type = "Hash" /\ n.hash = h /\ ~HasKey(n)
  BY <1>1 DEF HashNode, HasKey
<1>3. PICK u : u = Leaf(n)
  OBVIOUS
<1>4. TreeHash(u) = h /\ u.shown = <<n>>
  BY <1>2, <1>3 DEF Leaf, TreeHash
<1>5. Honest(u.shown, S)
  BY <1>2, <1>4, PrunedIsHonest
<1>6. ASSUME NEW s, NEW l
      PROVE  \E v, m : /\ Leads(<<PushOp(n, inverted)>>, At(s, l), At(Append(s, v), m))
                       /\ Moves(l, m, S, inverted) /\ TreeHash(v) = h /\ Honest(v.shown, S)
  <2>1. PICK m : /\ Leads(<<PushOp(n, inverted)>>, At(s, l), At(Append(s, Leaf(n)), m))
                 /\ Moves(l, m, S, inverted)
    BY <1>2, PushLeads
  <2> QED BY <1>3, <1>4, <1>5, <2>1
<1>7. Builds(<<PushOp(n, inverted)>>, h, S, inverted)
  BY <1>6 DEF Builds
<1> QED BY <1>1, <1>7 DEF BuildsSide

\* The proof p shows the node at k between proofs of its first child and its second.
Made(p, k, f, g, inverted) ==
  \E n \in NodesAt(k) : \E x \in f.proofs[inverted], y \in g.proofs[inverted] :
    p = x \o <<PushOp(n, inverted)>> \o (IF f.keys = {} THEN <<>> ELSE <<ParentOp(inverted)>>)
          \o y \o (IF g.keys = {} THEN <<>> ELSE <<ChildOp(inverted)>>)

LEMMA ProofsAre ==
  ASSUME NEW k, NEW l, NEW r, NEW inverted \in BOOLEAN, NEW p \in Join(k, l, r).proofs[inverted]
  PROVE  \/ Made(p, k, IF inverted THEN r ELSE l, IF inverted THEN l ELSE r, inverted)
         \/ p = <<PushOp(HashNode(Join(k, l, r).hash), inverted)>>
<1> DEFINE h == NodeHash(KvHash(k, StoredHash(Entry[k])), l.hash, r.hash)
<1>1. Join(k, l, r).hash = h /\ Join(k, l, r).proofs = ProofsOf(k, l, r, h)
  BY DEF Join
<1> HIDE DEF h
<1>2. p \in ProofsOf(k, l, r, h)[inverted]
  BY <1>1
<1> DEFINE f == IF inverted THEN r ELSE l
           g == IF inverted THEN l ELSE r
           q(n, x, y) == x \o <<PushOp(n, inverted)>> \o (IF f.keys = {} THEN <<>> ELSE <<ParentOp(inverted)>>)
                           \o y \o (IF g.keys = {} THEN <<>> ELSE <<ChildOp(inverted)>>)
<1>3. ProofsOf(k, l, r, h)[inverted] =
        {q(n, x, y) : x \in f.proofs[inverted], y \in g.proofs[inverted], n \in NodesAt(k)}
          \cup {<<PushOp(HashNode(h), inverted)>>}
  BY DEF ProofsOf
<1> HIDE DEF f, g
<1>4. Made(p, k, f, g, inverted) <=>
        \E n \in NodesAt(k) : \E x \in f.proofs[inverted], y \in g.proofs[inverted] : p = q(n, x, y)
  BY Zenon DEF Made
<1> HIDE DEF q
<1>5. Made(p, k, f, g, inverted) \/ p = <<PushOp(HashNode(h), inverted)>>
  BY <1>2, <1>3, <1>4
<1> QED BY <1>1, <1>5 DEF f, g

\* An honest proof of a tree builds it.
LEMMA TreeBuilds ==
  ASSUME NEW S \in SUBSET Keys, NEW t \in Trees[S], NEW inverted \in BOOLEAN, NEW p \in t.proofs[inverted]
  PROVE  BuildsSide(p, t.hash, S, inverted)
<1> DEFINE OK(u, T) == \A q \in u.proofs[inverted] : BuildsSide(q, u.hash, T, inverted)
           Bad == {n \in Nat : \E T \in SUBSET Keys : Cardinality(T) = n /\ \E u \in Trees[T] : ~OK(u, T)}
<1>1. CASE Bad = {}
  <2>1. OK(t, S)
    <3>1. Cardinality(S) \in Nat
      BY SetsAreFinite
    <3> HIDE DEF OK
    <3> QED BY <1>1, <3>1
  <2> QED BY <2>1
<1>2. CASE Bad # {}
  <2>1. PICK n \in Bad : \A m \in Bad : n <= m
    <3>1. Bad \subseteq Nat
      OBVIOUS
    <3> HIDE DEF Bad
    <3> QED BY <1>2, <3>1, LeastNat
  <2>0. n \in Nat
    OBVIOUS
  <2>2. PICK T \in SUBSET Keys : Cardinality(T) = n /\ \E u \in Trees[T] : ~OK(u, T)
    OBVIOUS
  <2>3. PICK u \in Trees[T] : ~OK(u, T)
    BY <2>2
  <2>4. \A X \in SUBSET Keys : Cardinality(X) < n => \A v \in Trees[X] : OK(v, X)
    <3> SUFFICES ASSUME NEW X \in SUBSET Keys, Cardinality(X) < n, NEW v \in Trees[X], ~OK(v, X)
                 PROVE  FALSE
      OBVIOUS
    <3>1. Cardinality(X) \in Nat
      BY SetsAreFinite
    <3>2. Cardinality(X) \in Bad
      BY <3>1
    <3> HIDE DEF Bad, OK
    <3> QED BY <2>0, <2>1, <3>1, <3>2
  <2> HIDE DEF Bad
  <2>5. CASE T = {}
    <3>1. u = NoTree
      BY <2>3, <2>5, NoKeysNoTree
    <3>2. u.hash = NullHash /\ u.proofs[inverted] = {<<>>}
      BY <3>1 DEF NoTree
    <3> QED BY <2>3, <2>5, <3>2 DEF BuildsSide
  <2>6. CASE T # {}
    <3>1. PICK k \in T : \E l \in Trees[Before(T, k)] : \E r \in Trees[After(T, k)] : u = Join(k, l, r)
      BY <2>3, <2>6, TreeIsJoin
    <3>2. PICK l \in Trees[Before(T, k)] : \E r \in Trees[After(T, k)] : u = Join(k, l, r)
      BY <3>1
    <3>3. PICK r \in Trees[After(T, k)] : u = Join(k, l, r)
      BY <3>2
    <3>4. OK(l, Before(T, k)) /\ OK(r, After(T, k))
      <4> HIDE DEF OK
      <4> QED BY <2>2, <2>4, SidesAreSmaller
    <3>5. u.hash = NodeHash(KvHash(k, StoredHash(Entry[k])), l.hash, r.hash)
      BY <3>3 DEF Join
    <3>6. l.keys = Before(T, k) /\ r.keys = After(T, k)
      BY SidesAreSmaller, TreeHasItsKeys
    <3>7. ASSUME NEW q \in u.proofs[inverted]
          PROVE  BuildsSide(q, u.hash, T, inverted)
      <4>1. u.hash # NullHash /\ u.hash # NoChild
        BY <3>5, HashesDiffer
      <4>2. CASE q = <<PushOp(HashNode(u.hash), inverted)>>
        BY <2>6, <4>1, <4>2, PrunedBuilds
      <4>3. CASE Made(q, k, IF inverted THEN r ELSE l, IF inverted THEN l ELSE r, inverted)
        <5>1. PICK f, g : /\ f = (IF inverted THEN r ELSE l) /\ g = (IF inverted THEN l ELSE r)
                          /\ Made(q, k, f, g, inverted)
          BY <4>3
        <5>2. PICK F, G : /\ F = (IF inverted THEN After(T, k) ELSE Before(T, k))
                          /\ G = (IF inverted THEN Before(T, k) ELSE After(T, k))
          OBVIOUS
        <5>3. OK(f, F) /\ OK(g, G)
          <6> HIDE DEF OK
          <6> QED BY <3>4, <5>1, <5>2
        <5>4. f.keys = F /\ g.keys = G
          BY <3>6, <5>1, <5>2
        <5>5. PICK n1 \in NodesAt(k) : \E x \in f.proofs[inverted], y \in g.proofs[inverted] :
                q = x \o <<PushOp(n1, inverted)>> \o (IF f.keys = {} THEN <<>> ELSE <<ParentOp(inverted)>>)
                      \o y \o (IF g.keys = {} THEN <<>> ELSE <<ChildOp(inverted)>>)
          BY <5>1, Zenon DEF Made
        <5>6. PICK x \in f.proofs[inverted], y \in g.proofs[inverted] :
                q = x \o <<PushOp(n1, inverted)>> \o (IF F = {} THEN <<>> ELSE <<ParentOp(inverted)>>)
                      \o y \o (IF G = {} THEN <<>> ELSE <<ChildOp(inverted)>>)
          BY <5>4, <5>5
        <5>7. BuildsSide(x, f.hash, F, inverted) /\ BuildsSide(y, g.hash, G, inverted)
          BY <5>3
        <5>8. Builds(q, NodeHash(KvHash(k, StoredHash(Entry[k])), IF inverted THEN g.hash ELSE f.hash,
                                 IF inverted THEN f.hash ELSE g.hash), T, inverted)
          BY <5>2, <5>6, <5>7, NodeBuilds
        <5>9. l.hash = (IF inverted THEN g.hash ELSE f.hash) /\ r.hash = (IF inverted THEN f.hash ELSE g.hash)
          BY <5>1
        <5>10. Builds(q, u.hash, T, inverted)
          BY <3>5, <5>8, <5>9
        <5> QED BY <2>6, <4>1, <5>10 DEF BuildsSide
      <4> QED BY <3>3, <4>2, <4>3, ProofsAre
    <3> QED BY <2>3, <3>7
  <2> QED BY <2>5, <2>6
<1> QED BY <1>1, <1>2

-----------------------------------------------------------------------------
(* An honest proof is taken to its end *)

\* A tree on the stack that has the chain's hash and shows its keys honestly.
Whole(u) == TreeHash(u) = tree.hash /\ Honest(u.shown, tree.keys)

\* What is left of the proof ends with one such tree.
Finishes == \E u, m : Leads(script, At(stack, last), At(<<u>>, m)) /\ Whole(u)

HonestInv ==
  script # AnyProof =>
    /\ verdict \in {"open", "accepted"}
    /\ verdict = "open" => Finishes
    /\ verdict = "accepted" => \E u : stack = <<u>> /\ Whole(u)

LEMMA OneAttached ==
  ASSUME NEW p, NEW c, NEW left, NEW t \in Attached(p, c, left), NEW v \in Attached(p, c, left)
  PROVE  t = v
<1> DEFINE a == [p EXCEPT !.left = TreeHash(c), !.shown = c.shown \o @]
           b == [p EXCEPT !.right = TreeHash(c), !.shown = @ \o c.shown]
<1>1. Attached(p, c, left) \in {{}, {a}, {b}}
  BY DEF Attached
<1> HIDE DEF a, b
<1> QED BY <1>1

LEMMA OneMerged ==
  ASSUME NEW s, NEW o, NEW t \in Merged(s, o), NEW v \in Merged(s, o)
  PROVE  t = v
<1>1. PICK p, c, left : Merged(s, o) = Attached(p, c, left)
  <2>1. CASE TreeOps[o].top
    <3>1. Merged(s, o) = Attached(s[Len(s)], s[Len(s) - 1], TreeOps[o].left)
      BY <2>1 DEF Merged
    <3> QED BY <3>1
  <2>2. CASE ~TreeOps[o].top
    <3>1. Merged(s, o) = Attached(s[Len(s) - 1], s[Len(s)], TreeOps[o].left)
      BY <2>2 DEF Merged
    <3> QED BY <3>1
  <2> QED BY <2>1, <2>2
<1> QED BY <1>1, OneAttached

LEMMA OpsDiffer ==
  /\ \A n, m : \A i, j \in BOOLEAN : PushOp(n, i) = PushOp(m, j) => n = m /\ i = j
  /\ \A o \in DOMAIN TreeOps : \A n : \A i \in BOOLEAN : Op(o) # PushOp(n, i)
  /\ \A o, p : Op(o) = Op(p) => o = p
<1>1. ASSUME NEW n, NEW m, NEW i \in BOOLEAN, NEW j \in BOOLEAN, PushOp(n, i) = PushOp(m, j)
      PROVE  n = m /\ i = j
  <2>1. PushOp(n, i).node = n /\ PushOp(m, j).node = m
    BY DEF PushOp
  <2>2. /\ PushOp(n, i).type = (IF i THEN "PushInverted" ELSE "Push")
        /\ PushOp(m, j).type = (IF j THEN "PushInverted" ELSE "Push")
    BY DEF PushOp
  <2>3. i <=> j
    BY <1>1, <2>2
  <2>4. i = j
    BY <2>3, Zenon
  <2> QED BY <1>1, <2>1, <2>4
<1>2. ASSUME NEW o \in DOMAIN TreeOps, NEW n, NEW i \in BOOLEAN
      PROVE  Op(o) # PushOp(n, i)
  <2>1. o \in {"Parent", "Child", "ParentInverted", "ChildInverted"}
    BY DEF TreeOps
  <2>2. Op(o).type = o /\ PushOp(n, i).type \in {"PushInverted", "Push"}
    BY DEF Op, PushOp
  <2> QED BY <2>1, <2>2
<1>3. ASSUME NEW o, NEW p, Op(o) = Op(p)
      PROVE  o = p
  <2>1. Op(o).type = o /\ Op(p).type = p
    BY DEF Op
  <2> QED BY <1>3, <2>1
<1> QED BY <1>1, <1>2, <1>3

LEMMA PushFinishes ==
  ASSUME NEW n, NEW inverted \in BOOLEAN, Push(n, inverted), script # AnyProof, Finishes
  PROVE  script' = Tail(script) /\ verdict' = "open" /\ Finishes'
<1>1. verdict = "open" /\ script # <<>> /\ Head(script) = PushOp(n, inverted) /\ script' = Tail(script)
  BY DEF Push, Takes
<1>2. PICK u, m : Leads(script, At(stack, last), At(<<u>>, m)) /\ Whole(u)
  BY DEF Finishes
<1>3. PICK c, d : c = At(stack, last) /\ d = At(<<u>>, m)
  OBVIOUS
<1>4. PICK e : Does(Head(script), c, e) /\ Leads(Tail(script), e, d)
  BY <1>1, <1>2, <1>3, LeadsFirst
<1>5. DoesPush(PushOp(n, inverted), c, e)
  BY <1>1, <1>4, OpsDiffer DEF Does, DoesAttach
<1>6. c.stack = stack /\ c.last = last
  BY <1>3 DEF At
<1>7. /\ HasKey(n) => Follows(last, n.key, inverted)
      /\ e = At(Append(stack, Leaf(n)), IF HasKey(n) THEN [key |-> n.key, inverted |-> inverted] ELSE last)
  <2>1. PICK n1 : \E i1 \in BOOLEAN :
          /\ PushOp(n, inverted) = PushOp(n1, i1)
          /\ HasKey(n1) => Follows(last, n1.key, i1)
          /\ e = At(Append(stack, Leaf(n1)), IF HasKey(n1) THEN [key |-> n1.key, inverted |-> i1] ELSE last)
    BY <1>5, <1>6 DEF DoesPush
  <2>2. PICK i1 \in BOOLEAN :
          /\ PushOp(n, inverted) = PushOp(n1, i1)
          /\ HasKey(n1) => Follows(last, n1.key, i1)
          /\ e = At(Append(stack, Leaf(n1)), IF HasKey(n1) THEN [key |-> n1.key, inverted |-> i1] ELSE last)
    BY <2>1
  <2>3. n = n1 /\ inverted = i1
    BY <2>2, OpsDiffer
  <2> QED BY <2>2, <2>3
<1>8. HasKey(n) => InOrder(n.key, inverted)
  BY <1>7 DEF Follows, InOrder
<1>9. /\ last' = IF HasKey(n) THEN [key |-> n.key, inverted |-> inverted] ELSE last
      /\ stack' = Append(stack, Leaf(n)) /\ UNCHANGED <<tree, verdict>>
  BY <1>8 DEF Push, Leaf
<1>10. e = At(stack', last')
  BY <1>7, <1>9
<1>11. Leads(script', At(stack', last'), At(<<u>>, m))
  BY <1>1, <1>3, <1>4, <1>10
<1>12. Whole(u)'
  BY <1>2, <1>9 DEF Whole
<1> QED BY <1>1, <1>9, <1>11, <1>12 DEF Finishes

LEMMA AttachFinishes ==
  ASSUME NEW op \in DOMAIN TreeOps, Attach(op), script # AnyProof, Finishes
  PROVE  script' = Tail(script) /\ verdict' = "open" /\ Finishes'
<1>1. verdict = "open" /\ script # <<>> /\ Head(script) = Op(op) /\ script' = Tail(script)
  BY DEF Attach, Takes
<1>2. PICK u, m : Leads(script, At(stack, last), At(<<u>>, m)) /\ Whole(u)
  BY DEF Finishes
<1>3. PICK c, d : c = At(stack, last) /\ d = At(<<u>>, m)
  OBVIOUS
<1>4. PICK e : Does(Head(script), c, e) /\ Leads(Tail(script), e, d)
  BY <1>1, <1>2, <1>3, LeadsFirst
<1>5. DoesAttach(Op(op), c, e)
  BY <1>1, <1>4, OpsDiffer DEF Does, DoesPush
<1>6. c.stack = stack /\ c.last = last
  BY <1>3 DEF At
<1>7. PICK t \in Merged(stack, op) : e = At(Append(SubSeq(stack, 1, Len(stack) - 2), t), last)
  BY <1>5, <1>6, OpsDiffer DEF DoesAttach
<1>8. Merged(stack, op) = Combined(op)
  BY DEF Merged, Combined
<1>9. PICK v \in Combined(op) :
        stack' = Append(SubSeq(stack, 1, Len(stack) - 2), v) /\ UNCHANGED <<tree, last, verdict>>
  BY <1>7, <1>8 DEF Attach
<1>10. v = t
  BY <1>8, OneMerged
<1>11. e = At(stack', last')
  BY <1>7, <1>9, <1>10
<1>12. Leads(script', At(stack', last'), At(<<u>>, m))
  BY <1>1, <1>3, <1>4, <1>11
<1>13. Whole(u)'
  BY <1>2, <1>9 DEF Whole
<1> QED BY <1>1, <1>9, <1>12, <1>13 DEF Finishes

\* An honest node with a key shows the element at it.
LEMMA ShowsItsKey ==
  ASSUME NEW K \in SUBSET Keys, NEW n, ShowsAs(n, K), HasKey(n)
  PROVE  /\ K = {n.key} /\ n.key \in Keys
         /\ HasValue(n) => /\ Binding(n) # "refused"
                           /\ (n.value \in Subtrees => Entry[n.key].reference)
                                => Binding(n) \in {"bound", "emptyTree"}
<1>1. n.type # "Hash"
  BY DEF HasKey
<1>2. PICK k \in K : K = {k} /\ n \in NodesAt(k)
  BY <1>1 DEF ShowsAs
<1>3. k \in Keys /\ n.key = k
  BY <1>2, NodeAtIs
<1>4. HasValue(n) => /\ Binding(n) # "refused"
                     /\ (n.value \in Subtrees => Entry[k].reference) => Binding(n) \in {"bound", "emptyTree"}
  BY <1>2, <1>3, NodeAtIs
<1> QED BY <1>2, <1>3, <1>4

LEMMA WholeIsValid ==
  ASSUME TreeInv, NEW u, stack = <<u>>, Whole(u)
  PROVE  Valid
<1>1. Len(stack) = 1 /\ Shown = u.shown
  BY OneIsSeq DEF Shown
<1>2. PICK f : HonestBy(Shown, tree.keys, f)
  BY <1>1 DEF Whole, Honest
<1>3. DOMAIN Shown = 1 .. Len(Shown)
  <2>1. PICK A : Shown \in Seq(A)
    BY <1>1 DEF Whole, Honest, IsSeq
  <2> QED BY <2>1, LenProperties
<1>4. tree.keys \in SUBSET Keys
  BY TreeHasItsKeys DEF TreeInv
<1>5. ASSUME NEW n \in ShownNodes, HasValue(n)
      PROVE  Binding(n) # "refused"
  <2>1. PICK i \in 1 .. Len(Shown) : n = Shown[i]
    BY <1>3 DEF ShownNodes
  <2>2. ShowsAs(n, f[i]) /\ f[i] \in SUBSET Keys
    BY <1>2, <1>4, <2>1 DEF HonestBy, Placed
  <2>3. HasKey(n)
    BY <1>5 DEF HasValue, HasKey
  <2> QED BY <1>5, <2>2, <2>3, ShowsItsKey
<1> QED BY <1>1, <1>5 DEF Valid

LEMMA NextHonestInv == MerkInv /\ HonestInv /\ [Next]_vars => HonestInv'
<1> SUFFICES ASSUME MerkInv, HonestInv, [Next]_vars, script' # AnyProof PROVE HonestInv'
  BY DEF HonestInv
<1>1. CASE UNCHANGED vars
  BY <1>1 DEF HonestInv, Finishes, Whole, vars
<1>2. ASSUME NEW n \in NodesOf(tree), NEW inverted \in BOOLEAN, Push(n, inverted)
      PROVE  HonestInv'
  <2>1. script # AnyProof /\ Finishes
    BY <1>2 DEF Push, Takes, HonestInv
  <2>2. verdict' = "open" /\ Finishes'
    BY <1>2, <2>1, PushFinishes
  <2> QED BY <2>2 DEF HonestInv
<1>3. ASSUME NEW op \in DOMAIN TreeOps, Attach(op)
      PROVE  HonestInv'
  <2>1. script # AnyProof /\ Finishes
    BY <1>3 DEF Attach, Takes, HonestInv
  <2>2. verdict' = "open" /\ Finishes'
    BY <1>3, <2>1, AttachFinishes
  <2> QED BY <2>2 DEF HonestInv
<1>4. CASE End
  <2>1. script = <<>> /\ script # AnyProof /\ Finishes
    BY <1>4 DEF End, HonestInv
  <2>2. PICK u, m : Leads(script, At(stack, last), At(<<u>>, m)) /\ Whole(u)
    BY <2>1 DEF Finishes
  <2>3. At(<<u>>, m) = At(stack, last)
    BY <2>1, <2>2, LeadsNowhere
  <2>4. stack = <<u>>
    <3>1. At(<<u>>, m).stack = <<u>> /\ At(stack, last).stack = stack
      BY DEF At
    <3> QED BY <2>3, <3>1
  <2>5. Valid
    BY <2>2, <2>4, WholeIsValid DEF MerkInv
  <2>6. verdict' = "accepted" /\ UNCHANGED <<tree, stack>>
    BY <1>4, <2>5 DEF End
  <2>7. stack' = <<u>> /\ Whole(u)'
    BY <2>2, <2>4, <2>6 DEF Whole
  <2> QED BY <2>6, <2>7 DEF HonestInv
<1> QED BY <1>1, <1>2, <1>3, <1>4 DEF Next

LEMMA InitHonestInv == Init => HonestInv
<1> SUFFICES ASSUME Init, script # AnyProof PROVE HonestInv
  BY DEF HonestInv
<1>1. PICK t \in UNION {Trees[S] : S \in (SUBSET Keys) \ {{}}} :
        /\ tree = [hash |-> t.hash, keys |-> t.keys, parts |-> t.parts]
        /\ script \in t.proofs[TRUE] \cup t.proofs[FALSE]
  BY DEF Init
<1>2. PICK S \in (SUBSET Keys) \ {{}} : t \in Trees[S]
  BY <1>1
<1>3. tree.hash = t.hash /\ tree.keys = S
  BY <1>1, <1>2, TreeHasItsKeys
<1>4. PICK inverted \in BOOLEAN : script \in t.proofs[inverted]
  BY <1>1, Zenon
<1>5. Builds(script, t.hash, S, inverted)
  <2>1. BuildsSide(script, t.hash, S, inverted)
    BY <1>2, <1>4, TreeBuilds
  <2> QED BY <2>1 DEF BuildsSide
<1>6. Ready(NoKey, S, inverted)
  BY DEF Ready, Follows
<1>7. stack = <<>> /\ last = NoKey /\ verdict = "open"
  BY DEF Init
<1>8. PICK u, m : /\ Leads(script, At(<<>>, NoKey), At(Append(<<>>, u), m))
                  /\ TreeHash(u) = t.hash /\ Honest(u.shown, S)
  BY <1>5, <1>6, NoneIsSeq DEF Builds
<1>9. Append(<<>>, u) = <<u>>
  OBVIOUS
<1>10. Whole(u)
  BY <1>3, <1>8 DEF Whole
<1>11. Finishes
  BY <1>7, <1>8, <1>9, <1>10 DEF Finishes
<1> QED BY <1>7, <1>11 DEF HonestInv

LEMMA HonestIsOrdered ==
  ASSUME NEW S \in SUBSET Keys, NEW seq, IsSeq(seq), NEW f, HonestBy(seq, S, f)
  PROVE  Ordered(seq)
<1>1. DOMAIN seq = 1 .. Len(seq)
  BY LenProperties DEF IsSeq
<1>2. ASSUME NEW i \in 1 .. Len(seq), NEW j \in 1 .. Len(seq), i < j, HasKey(seq[i]), HasKey(seq[j])
      PROVE  seq[i].key < seq[j].key
  <2>1. f[i] \in SUBSET Keys /\ f[j] \in SUBSET Keys /\ ShowsAs(seq[i], f[i]) /\ ShowsAs(seq[j], f[j])
    BY DEF HonestBy, Placed
  <2>2. f[i] = {seq[i].key} /\ f[j] = {seq[j].key}
    BY <1>2, <2>1, ShowsItsKey
  <2>3. \A a \in f[i], b \in f[j] : a < b
    BY <1>2 DEF HonestBy, Placed
  <2> QED BY <2>2, <2>3
<1> QED BY <1>1, <1>2 DEF Ordered

\* The greatest of some numbers below a number.
LEMMA GreatestBelow ==
  ASSUME NEW S, S \subseteq Nat, S # {}, NEW k \in Nat, \A a \in S : a < k
  PROVE  \E n \in S : \A m \in S : m <= n
<1> DEFINE B == {b \in Nat : \A a \in S : a <= b}
<1>1. k \in B
  OBVIOUS
<1>2. PICK b \in B : \A c \in B : b <= c
  <2>1. B \subseteq Nat /\ B # {}
    BY <1>1
  <2> HIDE DEF B
  <2> QED BY <2>1, LeastNat
<1>3. b \in Nat /\ \A a \in S : a <= b
  OBVIOUS
<1>4. b \in S
  <2> SUFFICES ASSUME b \notin S PROVE FALSE
    OBVIOUS
  <2>1. \A a \in S : a <= b - 1
    BY <1>3
  <2>2. b - 1 \in Nat
    <3>1. PICK a \in Nat : a <= b - 1
      BY <2>1
    <3> QED BY <1>3, <3>1
  <2>3. b - 1 \in B
    BY <2>1, <2>2
  <2>4. b <= b - 1
    BY <1>2, <2>3
  <2> QED BY <1>3, <2>4
<1> QED BY <1>3, <1>4

\* The row shows the key j.
Shows(seq, j) == \E i \in 1 .. Len(seq) : HasKey(seq[i]) /\ seq[i].key = j

\* A missing key is proved absent by a row that shows the keys next to it.
LEMMA NeighboursProveAbsence ==
  ASSUME NEW S \in SUBSET Keys, NEW seq, IsSeq(seq), NEW f, HonestBy(seq, S, f), NEW k \in Keys, k \notin S,
         \A j \in S : (\A i \in S : (j < i /\ i < k) \/ (k < i /\ i < j) => FALSE) => Shows(seq, j)
  PROVE  ProvesAbsent(seq, k)
<1>1. S \subseteq Nat /\ k \in Nat
  BY SetsAreFinite, MerkAssumption
<1>2. Len(seq) \in Nat
  BY LenProperties DEF IsSeq
<1>3. \A i \in 1 .. Len(seq) : f[i] \in SUBSET S /\ ShowsAs(seq[i], f[i]) /\ (HasKey(seq[i]) => f[i] = {seq[i].key})
  <2> TAKE i \in 1 .. Len(seq)
  <2>1. f[i] \in SUBSET S /\ f[i] \in SUBSET Keys /\ ShowsAs(seq[i], f[i])
    BY DEF HonestBy, Placed
  <2> QED BY <2>1, ShowsItsKey
<1>4. \A i, j \in 1 .. Len(seq) : i < j => \A a \in f[i], b \in f[j] : a < b
  BY DEF HonestBy, Placed
\* The place of the greatest key before k, and that of the least after it.
<1>5. PICK i \in 0 .. Len(seq) :
        /\ i > 0 => HasKey(seq[i]) /\ seq[i].key < k /\ seq[i].key \in S
                    /\ \A a \in S : a < k => a <= seq[i].key
        /\ i = 0 => \A a \in S : ~(a < k)
  <2> DEFINE L == {a \in S : a < k}
  <2>1. CASE L = {}
    <3>1. 0 \in 0 .. Len(seq) /\ ~(0 > 0) /\ \A a \in S : ~(a < k)
      BY <1>2, <2>1
    <3> QED BY <3>1
  <2>2. CASE L # {}
    <3>1. PICK j \in L : \A m \in L : m <= j
      <4>1. L \subseteq Nat /\ \A a \in L : a < k
        BY <1>1
      <4> HIDE DEF L
      <4> QED BY <1>1, <2>2, <4>1, GreatestBelow
    <3>2. j \in S /\ j < k /\ \A a \in S : a < k => a <= j
      BY <3>1
    <3>3. \A a \in S : (j < a /\ a < k) \/ (k < a /\ a < j) => FALSE
      BY <1>1, <3>2
    <3>4. PICK i \in 1 .. Len(seq) : HasKey(seq[i]) /\ seq[i].key = j
      BY <3>2, <3>3 DEF Shows
    <3>5. i \in 0 .. Len(seq) /\ i # 0
      BY <1>2
    <3> QED BY <3>2, <3>4, <3>5
  <2> QED BY <2>1, <2>2
<1>6. ASSUME i < Len(seq)
      PROVE  HasKey(seq[i + 1]) /\ seq[i + 1].key > k
  <2>1. i + 1 \in 1 .. Len(seq)
    BY <1>2, <1>6
  <2>2. PICK b \in f[i + 1] : b \in S
    BY <1>3, <2>1 DEF ShowsAs
  <2>3. b > k
    <3>1. CASE i = 0
      BY <1>1, <1>5, <2>2, <3>1
    <3>2. CASE i > 0
      <4>1. i \in 1 .. Len(seq) /\ i < i + 1
        BY <1>2, <3>2
      <4>2. seq[i].key \in f[i]
        BY <1>3, <1>5, <3>2, <4>1
      <4>3. seq[i].key < b
        BY <1>4, <2>1, <2>2, <4>1, <4>2
      <4>4. b < k => b <= seq[i].key
        BY <1>5, <2>2, <3>2
      <4>5. b \in Nat /\ b # k /\ seq[i].key \in Nat
        BY <1>1, <1>5, <2>2, <3>2
      <4> QED BY <1>1, <4>3, <4>4, <4>5
    <3>3. i = 0 \/ i > 0
      BY <1>2, <1>5
    <3> QED BY <3>1, <3>2, <3>3
  <2>4. PICK s \in S : s > k /\ \A a \in S : a > k => s <= a
    <3> DEFINE R == {a \in S : a > k}
    <3>1. R \subseteq Nat /\ R # {}
      BY <1>1, <2>2, <2>3
    <3>2. PICK s \in R : \A a \in R : s <= a
      <4> HIDE DEF R
      <4> QED BY <3>1, LeastNat
    <3> QED BY <3>2
  <2>5. PICK j \in 1 .. Len(seq) : HasKey(seq[j]) /\ seq[j].key = s
    <3>1. \A a \in S : (s < a /\ a < k) \/ (k < a /\ a < s) => FALSE
      BY <1>1, <2>4
    <3> QED BY <2>4, <3>1 DEF Shows
  <2>6. s \in f[j] /\ f[j] = {s}
    BY <1>3, <2>5
  <2>7. ~(j > i + 1)
    <3> SUFFICES ASSUME j > i + 1 PROVE FALSE
      OBVIOUS
    <3>1. b < s
      BY <1>2, <1>4, <2>1, <2>2, <2>5, <2>6
    <3> QED BY <1>1, <2>2, <2>3, <2>4, <3>1
  <2>8. ~(j < i + 1)
    <3> SUFFICES ASSUME j < i + 1 PROVE FALSE
      OBVIOUS
    <3>1. i > 0 /\ i \in 1 .. Len(seq)
      BY <1>2, <2>5
    <3>2. seq[i].key \in f[i] /\ f[i] = {seq[i].key} /\ seq[i].key < k /\ seq[i].key \in Nat
      BY <1>1, <1>3, <1>5, <3>1
    <3>3. j = i \/ j < i
      BY <1>2, <2>5
    <3>4. s <= seq[i].key
      <4>1. CASE j = i
        BY <1>1, <2>4, <2>6, <3>2, <4>1
      <4>2. CASE j < i
        <5>1. s < seq[i].key
          BY <1>4, <2>5, <2>6, <3>1, <3>2, <4>2
        <5> QED BY <1>1, <2>4, <3>2, <5>1
      <4> QED BY <3>3, <4>1, <4>2
    <3> QED BY <1>1, <2>4, <3>2, <3>4
  <2>9. j = i + 1
    BY <1>2, <2>5, <2>7, <2>8
  <2> QED BY <2>4, <2>5, <2>9
<1>7. Ordered(seq)
  BY HonestIsOrdered
<1> QED BY <1>5, <1>6, <1>7 DEF ProvesAbsent

LEMMA HonestInvPasses == MerkInv /\ HonestInv => HonestProofsPass
<1> SUFFICES ASSUME MerkInv, HonestInv, script # AnyProof, verdict = "accepted"
             PROVE  /\ Verified
                    /\ \A k \in Keys \ tree.keys :
                         (\A j \in Neighbours(k) : \E n \in ShownNodes : HasKey(n) /\ n.key = j)
                           => ProvesAbsent(Shown, k)
                    /\ (\A n \in ShownNodes : HasValue(n) /\ (n.value \in Subtrees => Entry[n.key].reference))
                         => RevealsWhole(Shown)
  BY DEF HonestProofsPass, HonestInv
<1>1. PICK u : stack = <<u>> /\ Whole(u)
  BY DEF HonestInv
<1>2. stack[1] = u /\ Shown = u.shown
  BY <1>1, OneIsSeq DEF Shown
<1>3. Verified
  BY <1>1, <1>2 DEF Verified, Whole
<1>4. IsSeq(Shown) /\ tree.keys \in SUBSET Keys
  BY <1>1, <1>2, TreeHasItsKeys DEF Whole, Honest, MerkInv, TreeInv
<1>5. PICK f : HonestBy(Shown, tree.keys, f)
  BY <1>1, <1>2 DEF Whole, Honest
<1>6. DOMAIN Shown = 1 .. Len(Shown)
  BY <1>4, LenProperties DEF IsSeq
<1>7. ASSUME NEW k \in Keys \ tree.keys,
             \A j \in Neighbours(k) : \E n \in ShownNodes : HasKey(n) /\ n.key = j
      PROVE  ProvesAbsent(Shown, k)
  <2>1. \A j \in tree.keys :
          (\A i \in tree.keys : (j < i /\ i < k) \/ (k < i /\ i < j) => FALSE) => j \in Neighbours(k)
    BY DEF Neighbours
  <2>2. \A j \in Neighbours(k) : Shows(Shown, j)
    BY <1>6, <1>7 DEF Shows, ShownNodes
  <2> QED BY <1>4, <1>5, <2>1, <2>2, NeighboursProveAbsence
<1>8. ASSUME \A n \in ShownNodes : HasValue(n) /\ (n.value \in Subtrees => Entry[n.key].reference)
      PROVE  RevealsWhole(Shown)
  <2>1. ASSUME NEW i \in DOMAIN Shown
        PROVE  HasValue(Shown[i]) /\ Binding(Shown[i]) \in {"bound", "emptyTree"}
    <3>1. HasValue(Shown[i]) /\ (Shown[i].value \in Subtrees => Entry[Shown[i].key].reference)
      BY <1>8 DEF ShownNodes
    <3>2. ShowsAs(Shown[i], f[i]) /\ f[i] \in SUBSET Keys
      BY <1>4, <1>5, <1>6 DEF HonestBy, Placed
    <3>3. HasKey(Shown[i])
      BY <3>1 DEF HasValue, HasKey
    <3> QED BY <3>1, <3>2, <3>3, ShowsItsKey
  <2>2. Ordered(Shown)
    BY <1>4, <1>5, HonestIsOrdered
  <2> QED BY <2>1, <2>2 DEF RevealsWhole
<1> QED BY <1>3, <1>7, <1>8

\* An honest prover's proof of the chain's tree is never refused, it is verified at
\* its end, and it proves a missing key absent or reveals the whole layer whenever
\* it shows what that takes: for any keys and entries, any tree of them, any part of
\* it pruned or hidden, and either direction.
THEOREM HonestProofsAreAccepted == Spec => []HonestProofsPass
<1>1. Init => MerkInv /\ HonestInv
  BY InitMerkInv, InitHonestInv
<1>2. MerkInv /\ HonestInv /\ [Next]_vars => MerkInv' /\ HonestInv'
  BY NextMerkInv, NextHonestInv
<1> QED BY <1>1, <1>2, HonestInvPasses, PTL DEF Spec
=============================================================================
