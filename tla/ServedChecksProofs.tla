-------------------------- MODULE ServedChecksProofs --------------------------
(***************************************************************************)
(* Proofs about ServedChecks: what the client takes for the block's logs,  *)
(* Ethereum's state, a transformed root, the state's layers or the same    *)
(* number is that, for logs, keys, paths and digits of any length, tries   *)
(* of any size and any number of transformations.                          *)
(***************************************************************************)
EXTENDS ServedChecks, SequenceTheorems, WellFoundedInduction, TLAPS

-----------------------------------------------------------------------------
(* Numbers and sequences *)

LEMMA LeastNat ==
  ASSUME NEW S, S \subseteq Nat, S # {}
  PROVE  \E n \in S : \A m \in S : n <= m
<1> DEFINE R == {ss \in Nat \X Nat : ss[1] < ss[2]}
<1>1. IsWellFoundedOn(R, Nat)
  BY NatLessThanWellFounded DEF OpToRel
<1>2. PICK n \in S : \A m \in S : ~(<<m, n>> \in R)
  <2> HIDE DEF R
  <2> QED BY <1>1, WFMin
<1>3. ASSUME NEW m \in S PROVE n <= m
  <2>1. <<m, n>> \in Nat \X Nat /\ ~(<<m, n>> \in R)
    BY <1>2
  <2>2. ~(m < n)
    BY <2>1
  <2> QED BY <2>2
<1> QED BY <1>3

LEMMA NatsByInduction ==
  ASSUME NEW S, 0 \in S, \A n \in Nat : n \in S => n + 1 \in S
  PROVE  Nat \subseteq S
<1> SUFFICES ASSUME Nat \ S # {} PROVE FALSE
  OBVIOUS
<1>1. PICK n \in Nat \ S : \A m \in Nat \ S : n <= m
  BY LeastNat
<1>2. n # 0 /\ n - 1 \in Nat /\ ~(n <= n - 1)
  BY <1>1
<1>3. n - 1 \in S
  BY <1>1, <1>2
<1>4. (n - 1) + 1 \in S
  BY <1>2, <1>3
<1> QED BY <1>1, <1>4

\* Two sequences whose first parts are of one length are equal part by part.
LEMMA Splits ==
  ASSUME NEW T, NEW a \in Seq(T), NEW b \in Seq(T), NEW r \in Seq(T), NEW s \in Seq(T),
         Len(a) = Len(b), a \o r = b \o s
  PROVE  a = b /\ r = s
<1>1. Len(r) = Len(s)
  <2>1. Len(a \o r) = Len(a) + Len(r) /\ Len(b \o s) = Len(b) + Len(s)
    BY ConcatProperties
  <2> QED BY <2>1, LenProperties
<1>2. ASSUME NEW i \in 1 .. Len(a) PROVE a[i] = b[i]
  <2>1. (a \o r)[i] = a[i] /\ (b \o s)[i] = b[i]
    BY <1>2, ConcatProperties
  <2> QED BY <2>1
<1>3. ASSUME NEW i \in 1 .. Len(r) PROVE r[i] = s[i]
  <2> DEFINE j == Len(a) + i
  <2>1. /\ j \in 1 .. Len(a) + Len(r) /\ j \in 1 .. Len(b) + Len(s)
        /\ ~(j <= Len(a)) /\ ~(j <= Len(b)) /\ j - Len(a) = i /\ j - Len(b) = i
    BY <1>1, LenProperties
  <2> HIDE DEF j
  <2>2. (a \o r)[j] = r[i] /\ (b \o s)[j] = s[i]
    BY <2>1, ConcatProperties, SMTT(30)
  <2> QED BY <2>2
<1> QED BY <1>1, <1>2, <1>3, SeqEqual

\* What is used of the sequences that are put together.
HasUnit(Q) == <<>> \in Q /\ \A a \in Q : a \o <<>> = a /\ <<>> \o a = a
IsClosed(Q) == \A a, b \in Q : a \o b \in Q
IsAssociative(Q) == \A a, b, c \in Q : (a \o b) \o c = a \o (b \o c)
HasCancel(Q) == \A a, b, c \in Q : a \o b = a \o c => b = c

Concatenates(Q) == HasUnit(Q) /\ IsClosed(Q) /\ IsAssociative(Q) /\ HasCancel(Q)

LEMMA Associates == \A T : Concatenates(Seq(T))
<1> TAKE T
<1>1. <<>> \in Seq(T) /\ \A a \in Seq(T) : a \o <<>> = a /\ <<>> \o a = a
  BY EmptySeq, ConcatEmptySeq
<1>2. \A a, b \in Seq(T) : a \o b \in Seq(T)
  BY ConcatProperties
<1>3. \A a, b, c \in Seq(T) : (a \o b) \o c = a \o (b \o c)
  BY ConcatAssociative
<1>4. \A a, b, c \in Seq(T) : a \o b = a \o c => b = c
  BY Splits
<1> QED BY <1>1, <1>2, <1>3, <1>4 DEF Concatenates, HasUnit, IsClosed, IsAssociative, HasCancel

\* What flattening a sequence of sequences comes to, from the front on.
Flattens(g, s) ==
  /\ g[0] = <<>>
  /\ \A i \in 1 .. Len(s) : g[i] = g[i - 1] \o s[i]

LEMMA FlattenIs ==
  ASSUME NEW Q, Concatenates(Q), NEW s \in Seq(Q), NEW g \in [0 .. Len(s) -> Q], Flattens(g, s)
  PROVE  FlattenSeq(s) = g[Len(s)]
<1> DEFINE n == Len(s)
           f == CHOOSE h : h = [i \in 1 .. n |-> IF i = 1 THEN s[i] ELSE h[i - 1] \o s[i]]
           k == [i \in 1 .. n |-> g[i]]
<1>1. n \in Nat /\ \A i \in 1 .. n : s[i] \in Q
  BY LenProperties, ElementOfSeq
<1>2. CASE n = 0
  BY <1>2, EmptySeq DEF FlattenSeq, Flattens
<1>3. CASE n # 0
  <2>1. FlattenSeq(s) = f[n]
    BY <1>3 DEF FlattenSeq
  <2>2. \A i \in 1 .. n : k[i] = IF i = 1 THEN s[i] ELSE k[i - 1] \o s[i]
    <3> TAKE i \in 1 .. n
    <3>1. CASE i = 1
      <4>1. i - 1 = 0 /\ k[i] = g[i] /\ g[i] = g[i - 1] \o s[i] /\ g[0] = <<>>
        <5>1. 1 \in 1 .. n /\ 1 - 1 = 0
          BY <1>1, <1>3
        <5>2. g[1] = g[1 - 1] \o s[1] /\ g[0] = <<>>
          BY <5>1 DEF Flattens
        <5>3. k[1] = g[1]
          BY <5>1
        <5> QED BY <5>1, <5>2, <5>3, <3>1
      <4>2. <<>> \o s[i] = s[i]
        BY <1>1 DEF Concatenates, HasUnit
      <4> QED BY <4>1, <4>2, <3>1
    <3>2. CASE i # 1
      <4>1. i - 1 \in 1 .. n
        BY <1>1, <3>2
      <4>2. k[i] = g[i] /\ k[i - 1] = g[i - 1] /\ g[i] = g[i - 1] \o s[i]
        BY <4>1 DEF Flattens
      <4> HIDE DEF k
      <4> QED BY <4>2, <3>2
    <3> QED BY <3>1, <3>2
  <2>3. k = [i \in 1 .. n |-> IF i = 1 THEN s[i] ELSE k[i - 1] \o s[i]]
    <3>1. DOMAIN k = 1 .. n /\ k = [i \in 1 .. n |-> k[i]]
      OBVIOUS
    <3> HIDE DEF k
    <3> QED BY <2>2, <3>1
  <2>4. f = [i \in 1 .. n |-> IF i = 1 THEN s[i] ELSE f[i - 1] \o s[i]]
    <3> HIDE DEF k
    <3> QED BY <2>3
  <2>5. ASSUME NEW i \in 1 .. n, f[i] # k[i]
        PROVE  FALSE
    <3> HIDE DEF f, k
    <3> DEFINE D == {j \in 1 .. n : f[j] # k[j]}
    <3>1. PICK j \in D : \A m \in D : j <= m
      <4>1. i \in D /\ D \subseteq Nat
        BY <2>5
      <4> HIDE DEF D
      <4> QED BY <4>1, LeastNat
    <3>2. j \in 1 .. n /\ f[j] # k[j]
      OBVIOUS
    <3>3. CASE j = 1
      BY <2>2, <2>4, <3>2, <3>3
    <3>4. CASE j # 1
      <4>1. j - 1 \in 1 .. n /\ ~(j <= j - 1)
        BY <3>2, <3>4
      <4>2. f[j - 1] = k[j - 1]
        BY <3>1, <4>1
      <4>3. f[j] = f[j - 1] \o s[j] /\ k[j] = k[j - 1] \o s[j]
        BY <2>2, <2>4, <3>2, <3>4
      <4> QED BY <4>2, <4>3, <3>2
    <3> QED BY <3>3, <3>4
  <2>6. n \in 1 .. n /\ k[n] = g[n]
    BY <1>1, <1>3
  <2> QED BY <2>1, <2>5, <2>6
<1> QED BY <1>2, <1>3

LEMMA FlattenExists ==
  ASSUME NEW Q, Concatenates(Q), NEW s \in Seq(Q)
  PROVE  \E g \in [0 .. Len(s) -> Q] : Flattens(g, s)
<1> DEFINE Has(m) == \E g \in [0 .. m -> Q] :
                        g[0] = <<>> /\ \A i \in 1 .. m : g[i] = g[i - 1] \o s[i]
           Bad == {m \in 0 .. Len(s) : ~Has(m)}
<1>1. Len(s) \in Nat /\ \A i \in 1 .. Len(s) : s[i] \in Q
  BY LenProperties, ElementOfSeq
<1>2. CASE Bad = {}
  <2>1. Len(s) \in 0 .. Len(s)
    BY <1>1
  <2>2. Has(Len(s))
    <3> HIDE DEF Has
    <3> QED BY <2>1, <1>2
  <2> QED BY <2>2 DEF Flattens
<1>3. CASE Bad # {}
  <2>1. PICK m \in Bad : \A i \in Bad : m <= i
    <3>1. Bad \subseteq Nat
      <4> HIDE DEF Has
      <4> QED BY <1>1
    <3> HIDE DEF Bad
    <3> QED BY <1>3, <3>1, LeastNat
  <2>2. m \in 0 .. Len(s) /\ ~Has(m)
    OBVIOUS
  <2>3. CASE m = 0
    <3> DEFINE g == [i \in 0 .. 0 |-> <<>>]
    <3>1. <<>> \in Q
      BY DEF Concatenates, HasUnit
    <3>2. g \in [0 .. 0 -> Q] /\ g[0] = <<>>
      BY <3>1
    <3> HIDE DEF g
    <3> QED BY <3>2, <2>2, <2>3
  <2>4. CASE m # 0
    <3>1. m - 1 \in 0 .. Len(s) /\ m \in 1 .. Len(s) /\ ~(m <= m - 1)
      BY <1>1, <2>2, <2>4
    <3>2. Has(m - 1)
      BY <2>1, <3>1
    <3>3. PICK g \in [0 .. m - 1 -> Q] : g[0] = <<>> /\ \A i \in 1 .. m - 1 : g[i] = g[i - 1] \o s[i]
      BY <3>2
    <3> DEFINE h == [i \in 0 .. m |-> IF i = m THEN g[m - 1] \o s[m] ELSE g[i]]
    <3>4. g[m - 1] \o s[m] \in Q
      <4>1. g[m - 1] \in Q /\ s[m] \in Q
        BY <1>1, <3>1
      <4> QED BY <4>1 DEF Concatenates, IsClosed
    <3>5. h \in [0 .. m -> Q]
      BY <3>1, <3>4
    <3>6. h[0] = <<>>
      BY <3>1, <3>3
    <3>7. ASSUME NEW i \in 1 .. m PROVE h[i] = h[i - 1] \o s[i]
      <4>1. CASE i = m
        <5>1. m \in 0 .. m /\ m - 1 \in 0 .. m /\ m - 1 # m
          BY <3>1
        <5>2. h[m] = g[m - 1] \o s[m] /\ h[m - 1] = g[m - 1]
          BY <5>1
        <5> HIDE DEF h
        <5> QED BY <5>2, <4>1
      <4>2. CASE i # m
        <5>1. i \in 1 .. m - 1 /\ i - 1 # m /\ i \in 0 .. m /\ i - 1 \in 0 .. m
          BY <3>1, <4>2
        <5>2. h[i] = g[i] /\ h[i - 1] = g[i - 1]
          BY <5>1, <4>2
        <5>3. g[i] = g[i - 1] \o s[i]
          BY <3>3, <5>1
        <5> QED BY <5>2, <5>3
      <4> QED BY <4>1, <4>2
    <3> HIDE DEF h
    <3> QED BY <3>5, <3>6, <3>7, <2>2
  <2> QED BY <2>3, <2>4
<1> QED BY <1>2, <1>3

\* Every part of what is put together is followed by something.
LEMMA Followed ==
  ASSUME NEW Q, Concatenates(Q), NEW s \in Seq(Q), NEW g \in [0 .. Len(s) -> Q], Flattens(g, s),
         NEW i \in 0 .. Len(s)
  PROVE  \E r \in Q : g[Len(s)] = g[i] \o r
<1> DEFINE n == Len(s)
           Has(j) == \E r \in Q : g[n] = g[n - j] \o r
           Bad == {j \in 0 .. n : ~Has(j)}
<1>1. n \in Nat /\ \A j \in 1 .. n : s[j] \in Q
  BY LenProperties, ElementOfSeq
<1>2. CASE Bad = {}
  <2>1. n - i \in 0 .. n /\ n - (n - i) = i
    BY <1>1
  <2>2. Has(n - i)
    <3> HIDE DEF Has
    <3> QED BY <2>1, <1>2
  <2> QED BY <2>1, <2>2
<1>3. CASE Bad # {}
  <2>1. PICK m \in Bad : \A j \in Bad : m <= j
    <3>1. Bad \subseteq Nat
      BY <1>1
    <3> HIDE DEF Bad
    <3> QED BY <1>3, <3>1, LeastNat
  <2>2. m \in 0 .. n /\ ~Has(m)
    OBVIOUS
  <2>3. CASE m = 0
    <3>1. n - m = n /\ g[n] \in Q
      BY <1>1, <2>3
    <3>2. <<>> \in Q /\ g[n] = g[n] \o <<>>
      BY <3>1 DEF Concatenates, HasUnit
    <3> QED BY <3>1, <3>2, <2>2
  <2>4. CASE m # 0
    <3> DEFINE k == n - m + 1
    <3>1. /\ m - 1 \in 0 .. n /\ ~(m <= m - 1) /\ n - (m - 1) = k
          /\ k \in 1 .. n /\ k - 1 = n - m /\ k - 1 \in 0 .. n
      BY <1>1, <2>2, <2>4
    <3> HIDE DEF k
    <3>2. Has(m - 1)
      BY <2>1, <3>1
    <3>3. PICK r \in Q : g[n] = g[k] \o r
      BY <3>1, <3>2
    <3>4. g[k] = g[k - 1] \o s[k]
      BY <3>1 DEF Flattens
    <3>5. g[k - 1] \in Q /\ s[k] \in Q
      BY <1>1, <3>1
    <3> DEFINE p == g[k - 1]
               w == s[k]
    <3>6. p \in Q /\ w \in Q /\ g[n] = (p \o w) \o r
      BY <3>3, <3>4, <3>5
    <3> HIDE DEF p, w
    <3>7. (p \o w) \o r = p \o (w \o r)
      BY <3>6 DEF Concatenates, IsAssociative
    <3>8. w \o r \in Q
      BY <3>6 DEF Concatenates, IsClosed
    <3>9. g[n] = g[n - m] \o (w \o r)
      BY <3>1, <3>6, <3>7 DEF p
    <3> QED BY <3>8, <3>9, <2>2
  <2> QED BY <2>3, <2>4
<1> QED BY <1>2, <1>3

LEMMA FlattenType ==
  ASSUME NEW Q, Concatenates(Q), NEW s \in Seq(Q)
  PROVE  FlattenSeq(s) \in Q
<1>1. PICK g \in [0 .. Len(s) -> Q] : Flattens(g, s)
  BY FlattenExists
<1>2. FlattenSeq(s) = g[Len(s)]
  BY <1>1, FlattenIs
<1>3. Len(s) \in 0 .. Len(s)
  BY LenProperties
<1> QED BY <1>2, <1>3

\* What is put together, and more after it, from one of the parts on.
GoesOn(g, s, q, Q) ==
  \A m \in 1 .. Len(s) : \E x \in Q : g[Len(s)] \o q = g[m - 1] \o (s[m] \o x)

LEMMA FromPart ==
  ASSUME NEW Q, Concatenates(Q), NEW s \in Seq(Q), NEW g \in [0 .. Len(s) -> Q], Flattens(g, s),
         NEW q \in Q
  PROVE  GoesOn(g, s, q, Q)
<1> SUFFICES ASSUME NEW m \in 1 .. Len(s)
             PROVE  \E x \in Q : g[Len(s)] \o q = g[m - 1] \o (s[m] \o x)
  BY DEF GoesOn
<1>1. Len(s) \in Nat /\ s[m] \in Q
  BY LenProperties, ElementOfSeq
<1>2. m \in 0 .. Len(s) /\ m - 1 \in 0 .. Len(s)
  BY <1>1
<1>3. PICK a \in Q : g[Len(s)] = g[m] \o a
  BY <1>2, Followed, ZenonT(60)
<1>4. g[m] = g[m - 1] \o s[m]
  BY DEF Flattens
<1> DEFINE p == g[m - 1]
           w == s[m]
<1>5. p \in Q /\ w \in Q /\ g[Len(s)] = (p \o w) \o a
  BY <1>1, <1>2, <1>3, <1>4
<1> HIDE DEF p, w
<1> DEFINE x == p \o w
           y == a \o q
<1>6. x \in Q /\ y \in Q
  BY <1>5 DEF Concatenates, IsClosed
<1> HIDE DEF x, y
<1>7. (x \o a) \o q = x \o (a \o q)
  BY <1>6, ZenonT(60) DEF Concatenates, IsAssociative
<1>8. (p \o w) \o y = p \o (w \o y)
  BY <1>5, <1>6, ZenonT(60) DEF Concatenates, IsAssociative
<1>9. g[Len(s)] \o q = p \o (w \o y)
  BY <1>5, <1>7, <1>8 DEF x, y
<1> QED BY <1>6, <1>9 DEF p, w

\* Parts that end where they say.
Told(s, t, Q) ==
  Len(s) = Len(t) => \A i \in 1 .. Len(s) : \A a, b \in Q : s[i] \o a = t[i] \o b => s[i] = t[i]

\* Such parts, put together, can be told apart.
LEMMA PartsAreTold ==
  ASSUME NEW Q, Concatenates(Q), NEW s \in Seq(Q), NEW t \in Seq(Q), Len(s) = Len(t),
         NEW q \in Q, NEW r \in Q,
         Told(s, t, Q),
         FlattenSeq(s) \o q = FlattenSeq(t) \o r
  PROVE  s = t /\ q = r
<1> DEFINE n == Len(s)
<1>1. /\ n \in Nat
      /\ \A i \in 1 .. n : s[i] \in Q /\ t[i] \in Q
  BY LenProperties, ElementOfSeq
<1>2. PICK g \in [0 .. n -> Q] : Flattens(g, s)
  BY FlattenExists
<1>3. PICK h \in [0 .. n -> Q] : Flattens(h, t)
  BY FlattenExists
<1>4. FlattenSeq(s) = g[n] /\ FlattenSeq(t) = h[n]
  BY <1>2, <1>3, FlattenIs
<1>5. GoesOn(g, s, q, Q) /\ GoesOn(h, t, r, Q)
  <2>1. GoesOn(g, s, q, Q)
    BY <1>2, FromPart
  <2>2. h \in [0 .. Len(t) -> Q]
    OBVIOUS
  <2>3. GoesOn(h, t, r, Q)
    BY <1>3, <2>2, FromPart
  <2> QED BY <2>1, <2>3
<1>6. ASSUME NEW i \in 1 .. n, s[i] # t[i]
      PROVE  FALSE
  <2> DEFINE D == {j \in 1 .. n : s[j] # t[j]}
  <2>1. PICK m \in D : \A j \in D : m <= j
    <3>1. i \in D /\ D \subseteq Nat
      BY <1>6
    <3> HIDE DEF D
    <3> QED BY <3>1, LeastNat
  <2>2. m \in 1 .. n /\ s[m] # t[m] /\ \A j \in 1 .. n : j < m => s[j] = t[j]
    <3>1. m \in 1 .. n /\ s[m] # t[m]
      OBVIOUS
    <3>2. ASSUME NEW j \in 1 .. n, j < m PROVE s[j] = t[j]
      BY <2>1, <3>1, <3>2
    <3> QED BY <3>1, <3>2
  <2> DEFINE E == {j \in 0 .. m - 1 : g[j] # h[j]}
  <2>3. E = {}
    <3>1. SUFFICES ASSUME E # {} PROVE FALSE
      OBVIOUS
    <3>2. PICK e \in E : \A j \in E : e <= j
      <4>1. E \subseteq Nat
        BY <2>2
      <4> HIDE DEF E
      <4> QED BY <3>1, <4>1, LeastNat
    <3>3. e \in 0 .. m - 1 /\ g[e] # h[e]
      OBVIOUS
    <3>4. CASE e = 0
      BY <1>2, <1>3, <3>3, <3>4 DEF Flattens
    <3>5. CASE e # 0
      <4>1. e - 1 \in 0 .. m - 1 /\ e \in 1 .. n /\ e < m /\ ~(e <= e - 1)
        BY <1>1, <2>2, <3>3, <3>5
      <4>2. g[e - 1] = h[e - 1]
        BY <3>2, <4>1
      <4>3. g[e] = g[e - 1] \o s[e] /\ h[e] = h[e - 1] \o t[e]
        BY <1>2, <1>3, <4>1 DEF Flattens
      <4>4. s[e] = t[e]
        BY <2>2, <4>1
      <4> QED BY <4>2, <4>3, <4>4, <3>3
    <3> QED BY <3>4, <3>5
  <2>4. m - 1 \in 0 .. m - 1 /\ m - 1 \in 0 .. n
    <3>1. m \in 1 .. n
      BY <2>2
    <3> HIDE DEF D, E
    <3> QED BY <1>1, <3>1
  <2>5. g[m - 1] = h[m - 1]
    BY <2>3, <2>4
  <2>6. PICK x \in Q : g[n] \o q = g[m - 1] \o (s[m] \o x)
    BY <1>5, <2>2 DEF GoesOn
  <2>7. PICK y \in Q : h[n] \o r = h[m - 1] \o (t[m] \o y)
    BY <1>5, <2>2 DEF GoesOn
  <2> DEFINE p == g[m - 1]
             u == s[m]
             v == t[m]
  <2>8. p \in Q /\ u \in Q /\ v \in Q /\ p \o (u \o x) = p \o (v \o y)
    BY <1>1, <1>4, <2>2, <2>4, <2>5, <2>6, <2>7
  <2>9. u \o x = v \o y
    <3> DEFINE i0 == u \o x
               j0 == v \o y
    <3> HIDE DEF p, u, v
    <3>1. i0 \in Q /\ j0 \in Q
      BY <2>8 DEF Concatenates, IsClosed
    <3>2. p \o i0 = p \o j0 /\ p \in Q
      BY <2>8
    <3> HIDE DEF i0, j0
    <3>3. i0 = j0
      BY <3>1, <3>2 DEF Concatenates, HasCancel
    <3> QED BY <3>3 DEF i0, j0
  <2>10. s[m] = t[m]
    BY <2>2, <2>9 DEF Told
  <2> QED BY <2>2, <2>10
<1>7. s = t
  BY <1>6, SeqEqual
<1>8. FlattenSeq(s) \in Q
  BY FlattenType
<1>9. q = r
  <2> DEFINE x == FlattenSeq(s)
  <2>1. x \in Q /\ x \o q = x \o r
    BY <1>7, <1>8
  <2> HIDE DEF x
  <2> QED BY <2>1 DEF Concatenates, HasCancel
<1> QED BY <1>7, <1>9

-----------------------------------------------------------------------------
(* A block's logs *)

Bytes == Seq(Nat)

\* Bytes put together with others, with a first part of the same length.
Apart(a, b, r, s) == Len(a) = Len(b) /\ a \o r = b \o s => a = b /\ r = s

LEMMA BytesComeApart ==
  ASSUME NEW a \in Bytes, NEW b \in Bytes, NEW r \in Bytes, NEW s \in Bytes
  PROVE  Apart(a, b, r, s)
BY Splits DEF Apart, Bytes

LEMMA BytesConcatenate == Concatenates(Bytes)
BY Associates DEF Bytes

LEMMA ByteLists ==
  /\ \A n \in Nat : <<n>> \in Bytes /\ Len(<<n>>) = 1 /\ <<n>>[1] = n
  /\ \A a \in Bytes : Len(a) \in Nat
  /\ \A a, b \in Bytes : a \o b \in Bytes /\ Len(a \o b) = Len(a) + Len(b)
<1>1. \A n \in Nat : <<n>> \in Bytes /\ Len(<<n>>) = 1 /\ <<n>>[1] = n
  BY DEF Bytes
<1>2. \A a \in Bytes : Len(a) \in Nat
  BY DEF Bytes
<1>3. \A a, b \in Bytes : a \o b \in Bytes /\ Len(a \o b) = Len(a) + Len(b)
  BY ConcatProperties DEF Bytes
<1> QED BY <1>1, <1>2, <1>3

Groups(i, j, k) == (i \o j) \o k = i \o (j \o k)

LEMMA BytesGroup ==
  ASSUME NEW i \in Bytes, NEW j \in Bytes, NEW k \in Bytes
  PROVE  Groups(i, j, k)
BY BytesConcatenate DEF Concatenates, IsAssociative, Groups

\* Five parts and a rest, from the front.
FromTheFront(p, w, c, d, e, a) ==
  ((((p \o w) \o c) \o d) \o e) \o a = p \o (w \o (c \o (d \o (e \o a))))

LEMMA PartsRegroup ==
  ASSUME NEW p \in Bytes, NEW w \in Bytes, NEW c \in Bytes, NEW d \in Bytes, NEW e \in Bytes,
         NEW a \in Bytes
  PROVE  FromTheFront(p, w, c, d, e, a)
<1> DEFINE x2 == p \o w
           x3 == x2 \o c
           x4 == x3 \o d
           y4 == e \o a
           y3 == d \o y4
           y2 == c \o y3
<1>0. IsClosed(Bytes)
  BY BytesConcatenate DEF Concatenates
<1>1. x2 \in Bytes /\ y4 \in Bytes
  BY <1>0 DEF IsClosed
<1>2. x3 \in Bytes /\ y3 \in Bytes
  <2> HIDE DEF x2, y4
  <2> QED BY <1>0, <1>1 DEF IsClosed
<1>3. x4 \in Bytes /\ y2 \in Bytes
  <2> HIDE DEF x3, y3
  <2> QED BY <1>0, <1>2 DEF IsClosed
<1>4. Groups(x2, c, y3) /\ Groups(x3, d, y4) /\ Groups(x4, e, a) /\ Groups(p, w, y2)
  <2> HIDE DEF x2, x3, x4, y2, y3, y4
  <2> QED BY <1>1, <1>2, <1>3, BytesGroup
<1>5. ((((p \o w) \o c) \o d) \o e) \o a = (x4 \o e) \o a
  OBVIOUS
<1>6. p \o (w \o y2) = p \o (w \o (c \o (d \o (e \o a))))
  OBVIOUS
<1>7. /\ x2 = p \o w /\ x3 = x2 \o c /\ x4 = x3 \o d
      /\ y4 = e \o a /\ y3 = d \o y4 /\ y2 = c \o y3
  OBVIOUS
<1> HIDE DEF x2, x3, x4, y2, y3, y4
<1>8. (x4 \o e) \o a = p \o (w \o y2)
  BY <1>4, <1>7 DEF Groups
<1> QED BY <1>5, <1>6, <1>8 DEF FromTheFront

\* The bytes of a log say where they end and which log they are of.
LEMMA LogIsTold ==
  ASSUME NEW m \in Log, NEW n \in Log, WellFormed(m), WellFormed(n),
         NEW a \in Bytes, NEW b \in Bytes, LogBytes(m) \o a = LogBytes(n) \o b
  PROVE  m = n
<1> DEFINE m1 == m.address
           m2 == <<Len(m.topics)>>
           m3 == FlattenSeq(m.topics)
           m4 == <<Len(m.data)>>
           m5 == m.data
           n1 == n.address
           n2 == <<Len(n.topics)>>
           n3 == FlattenSeq(n.topics)
           n4 == <<Len(n.data)>>
           n5 == n.data
<1>1. /\ m.address \in Bytes /\ m.topics \in Seq(Bytes) /\ m.data \in Bytes
      /\ n.address \in Bytes /\ n.topics \in Seq(Bytes) /\ n.data \in Bytes
  BY DEF Log, Bytes
<1>2. Len(m.topics) \in Nat /\ Len(n.topics) \in Nat /\ Len(m.data) \in Nat /\ Len(n.data) \in Nat
  BY <1>1, LenProperties, ByteLists
<1>3. /\ m1 \in Bytes /\ m2 \in Bytes /\ m3 \in Bytes /\ m4 \in Bytes /\ m5 \in Bytes
      /\ n1 \in Bytes /\ n2 \in Bytes /\ n3 \in Bytes /\ n4 \in Bytes /\ n5 \in Bytes
  BY <1>1, <1>2, ByteLists, FlattenType, BytesConcatenate
<1>4. Len(m1) = Len(n1) /\ Len(m2) = Len(n2) /\ Len(m4) = Len(n4)
  BY <1>2, ByteLists DEF WellFormed
<1>5. LogBytes(m) = (((m1 \o m2) \o m3) \o m4) \o m5 /\ LogBytes(n) = (((n1 \o n2) \o n3) \o n4) \o n5
  BY DEF LogBytes
<1>6. (m2 = n2 => Len(m.topics) = Len(n.topics)) /\ (m4 = n4 => Len(m.data) = Len(n.data))
  BY <1>2, ByteLists
<1>7. Told(m.topics, n.topics, Bytes)
  <2>1. SUFFICES ASSUME Len(m.topics) = Len(n.topics),
                        NEW i \in 1 .. Len(m.topics), NEW c \in Bytes, NEW d \in Bytes,
                        m.topics[i] \o c = n.topics[i] \o d
                 PROVE  m.topics[i] = n.topics[i]
    BY DEF Told
  <2>2. m.topics[i] \in Bytes /\ n.topics[i] \in Bytes
    BY <1>1, <2>1, ElementOfSeq
  <2>3. Len(m.topics[i]) = Len(n.topics[i])
    <3>1. i \in DOMAIN m.topics /\ i \in DOMAIN n.topics
      BY <1>1, <2>1, LenProperties
    <3> QED BY <3>1 DEF WellFormed
  <2>4. Apart(m.topics[i], n.topics[i], c, d)
    BY <2>2, BytesComeApart
  <2> QED BY <2>1, <2>3, <2>4 DEF Apart
<1> DEFINE s5 == m5 \o a
           s4 == m4 \o s5
           s3 == m3 \o s4
           s2 == m2 \o s3
           t5 == n5 \o b
           t4 == n4 \o t5
           t3 == n3 \o t4
           t2 == n2 \o t3
<1>8. LogBytes(m) \o a = m1 \o s2
  <2>1. FromTheFront(m1, m2, m3, m4, m5, a)
    BY <1>3, PartsRegroup
  <2> QED BY <1>5, <2>1 DEF FromTheFront
<1>9. LogBytes(n) \o b = n1 \o t2
  <2>1. FromTheFront(n1, n2, n3, n4, n5, b)
    BY <1>3, PartsRegroup
  <2> QED BY <1>5, <2>1 DEF FromTheFront
<1>10. m1 \o s2 = n1 \o t2
  <2> HIDE DEF m1, s2, n1, t2
  <2> QED BY <1>8, <1>9
<1> DEFINE ms == m.topics
           ns == n.topics
<1>11. ms \in Seq(Bytes) /\ ns \in Seq(Bytes) /\ m3 = FlattenSeq(ms) /\ n3 = FlattenSeq(ns)
  BY <1>1
<1>12. (m2 = n2 => Len(ms) = Len(ns)) /\ Told(ms, ns, Bytes)
  BY <1>6, <1>7
<1> HIDE DEF m1, m2, m3, m4, m5, n1, n2, n3, n4, n5, ms, ns
<1>13. s5 \in Bytes /\ t5 \in Bytes
  BY <1>3, BytesConcatenate DEF Concatenates, IsClosed
<1>14. s4 \in Bytes /\ t4 \in Bytes
  <2> HIDE DEF s5, t5
  <2> QED BY <1>3, <1>13, BytesConcatenate DEF Concatenates, IsClosed
<1>15. s3 \in Bytes /\ t3 \in Bytes
  <2> HIDE DEF s4, t4
  <2> QED BY <1>3, <1>14, BytesConcatenate DEF Concatenates, IsClosed
<1>16. s2 \in Bytes /\ t2 \in Bytes
  <2> HIDE DEF s3, t3
  <2> QED BY <1>3, <1>15, BytesConcatenate DEF Concatenates, IsClosed
<1>17. m1 = n1 /\ s2 = t2
  <2> HIDE DEF s2, t2
  <2>1. Apart(m1, n1, s2, t2)
    BY <1>3, <1>16, BytesComeApart
  <2> QED BY <1>4, <1>10, <2>1 DEF Apart
<1>18. m2 = n2 /\ s3 = t3
  <2>0. m2 \o s3 = n2 \o t3
    BY <1>17
  <2> HIDE DEF s3, t3
  <2>1. Apart(m2, n2, s3, t3)
    BY <1>3, <1>15, BytesComeApart
  <2> QED BY <1>4, <2>0, <2>1 DEF Apart
<1>19. ms = ns /\ s4 = t4
  <2>0. FlattenSeq(ms) \o s4 = FlattenSeq(ns) \o t4
    BY <1>11, <1>18
  <2> HIDE DEF s4, t4
  <2>1. Len(ms) = Len(ns)
    BY <1>12, <1>18
  <2> QED BY <1>11, <1>12, <1>14, <2>0, <2>1, BytesConcatenate, PartsAreTold
<1>20. m4 = n4 /\ s5 = t5
  <2>0. m4 \o s5 = n4 \o t5
    BY <1>19
  <2> HIDE DEF s5, t5
  <2>1. Apart(m4, n4, s5, t5)
    BY <1>3, <1>13, BytesComeApart
  <2> QED BY <1>4, <2>0, <2>1 DEF Apart
<1>21. m5 = n5
  <2>1. Len(m5) = Len(n5)
    BY <1>6, <1>20 DEF m5, n5
  <2>2. Apart(m5, n5, a, b)
    BY <1>3, BytesComeApart
  <2> QED BY <1>20, <2>1, <2>2 DEF Apart
<1>22. m.address = n.address /\ m.topics = n.topics /\ m.data = n.data
  BY <1>17, <1>19, <1>21 DEF m1, n1, ms, ns, m5, n5
<1>23. m = [address |-> m.address, topics |-> m.topics, data |-> m.data]
  BY DEF Log
<1>24. n = [address |-> n.address, topics |-> n.topics, data |-> n.data]
  BY DEF Log
<1> QED BY <1>22, <1>23, <1>24

\* The bytes hashed for a block say which logs it has.
LEMMA HashIsOfTheLogs ==
  ASSUME NEW block \in Nat, NEW l1 \in Seq(Log), NEW l2 \in Seq(Log),
         \A i \in DOMAIN l1 : WellFormed(l1[i]), \A i \in DOMAIN l2 : WellFormed(l2[i]),
         EventSetHash(block, l1) = EventSetHash(block, l2)
  PROVE  l1 = l2
<1> DEFINE s == [i \in DOMAIN l1 |-> LogBytes(l1[i])]
           t == [i \in DOMAIN l2 |-> LogBytes(l2[i])]
           p == DomainTag \o <<block>>
           x == p \o <<Len(l1)>>
           y == p \o <<Len(l2)>>
<1>1. /\ Len(l1) \in Nat /\ DOMAIN l1 = 1 .. Len(l1)
      /\ Len(l2) \in Nat /\ DOMAIN l2 = 1 .. Len(l2)
  BY LenProperties
<1>2. ASSUME NEW l \in Log PROVE LogBytes(l) \in Bytes
  <2>1. l.address \in Bytes /\ l.topics \in Seq(Bytes) /\ l.data \in Bytes
    BY DEF Log, Bytes
  <2>2. <<Len(l.topics)>> \in Bytes /\ <<Len(l.data)>> \in Bytes /\ FlattenSeq(l.topics) \in Bytes
    BY <2>1, LenProperties, ByteLists, FlattenType, BytesConcatenate
  <2> DEFINE a == l.address
             b == <<Len(l.topics)>>
             c == FlattenSeq(l.topics)
             d == <<Len(l.data)>>
             e == l.data
  <2>3. a \in Bytes /\ b \in Bytes /\ c \in Bytes /\ d \in Bytes /\ e \in Bytes
    BY <2>1, <2>2
  <2>4. LogBytes(l) = (((a \o b) \o c) \o d) \o e
    BY DEF LogBytes
  <2> HIDE DEF a, b, c, d, e
  <2> QED BY <2>3, <2>4, ByteLists
<1>3. \A i \in DOMAIN l1 : l1[i] \in Log
  BY <1>1, ElementOfSeq
<1>4. \A i \in DOMAIN l2 : l2[i] \in Log
  BY <1>1, ElementOfSeq
<1>5. s \in Seq(Bytes) /\ Len(s) = Len(l1)
  <2>1. s \in [1 .. Len(l1) -> Bytes]
    BY <1>1, <1>2, <1>3
  <2> HIDE DEF s
  <2> QED BY <1>1, <2>1
<1>6. t \in Seq(Bytes) /\ Len(t) = Len(l2)
  <2>1. t \in [1 .. Len(l2) -> Bytes]
    BY <1>1, <1>2, <1>4
  <2> HIDE DEF t
  <2> QED BY <1>1, <2>1
<1>7. EventSetHash(block, l1) = x \o FlattenSeq(s) /\ EventSetHash(block, l2) = y \o FlattenSeq(t)
  BY DEF EventSetHash
<1>8. FlattenSeq(s) \in Bytes /\ FlattenSeq(t) \in Bytes
  <2> HIDE DEF s, t
  <2> QED BY <1>5, <1>6, FlattenType, BytesConcatenate
<1>9. p \in Bytes
  BY ServedAssumption, ByteLists DEF Bytes
<1>10. x \in Bytes /\ y \in Bytes /\ Len(x) = Len(y)
  <2> HIDE DEF p
  <2> QED BY <1>1, <1>9, ByteLists
<1>11. x = y /\ FlattenSeq(s) = FlattenSeq(t)
  <2> DEFINE u == FlattenSeq(s)
             v == FlattenSeq(t)
  <2>1. x \in Bytes /\ y \in Bytes /\ u \in Bytes /\ v \in Bytes /\ x \o u = y \o v
    BY <1>7, <1>8, <1>10
  <2> HIDE DEF x, y, u, v
  <2>2. Apart(x, y, u, v)
    BY <2>1, BytesComeApart
  <2>3. x = y /\ u = v
    BY <1>10, <2>1, <2>2 DEF Apart
  <2> QED BY <2>3 DEF u, v
<1>12. Len(l1) = Len(l2)
  <2> DEFINE u == <<Len(l1)>>
             v == <<Len(l2)>>
  <2>1. u \in Bytes /\ v \in Bytes /\ u[1] = Len(l1) /\ v[1] = Len(l2) /\ p \o u = p \o v
    BY <1>1, <1>11, ByteLists
  <2> HIDE DEF u, v, p
  <2>2. u = v
    BY <1>9, <2>1, BytesConcatenate DEF Concatenates, HasCancel
  <2> QED BY <2>1, <2>2
<1>13. Told(s, t, Bytes)
  <2>1. SUFFICES ASSUME NEW i \in 1 .. Len(s), NEW a \in Bytes, NEW b \in Bytes, s[i] \o a = t[i] \o b
                 PROVE  s[i] = t[i]
    BY DEF Told
  <2>2. i \in DOMAIN l1 /\ i \in DOMAIN l2
    BY <1>1, <1>5, <1>12
  <2>3. s[i] = LogBytes(l1[i]) /\ t[i] = LogBytes(l2[i])
    BY <2>2
  <2>4. l1[i] = l2[i]
    BY <1>3, <1>4, <2>1, <2>2, <2>3, LogIsTold
  <2> QED BY <2>3, <2>4
<1>14. s = t
  <2>1. FlattenSeq(s) \o <<>> = FlattenSeq(t) \o <<>> /\ <<>> \in Bytes
    BY <1>11, BytesConcatenate DEF Concatenates, HasUnit
  <2> HIDE DEF s, t
  <2> QED BY <1>5, <1>6, <1>12, <1>13, <2>1, BytesConcatenate, PartsAreTold
<1>15. ASSUME NEW i \in 1 .. Len(l1) PROVE l1[i] = l2[i]
  <2>1. i \in DOMAIN l1 /\ i \in DOMAIN l2
    BY <1>1, <1>12
  <2>2. LogBytes(l1[i]) = s[i] /\ LogBytes(l2[i]) = t[i]
    BY <2>1
  <2>3. LogBytes(l1[i]) \o <<>> = LogBytes(l2[i]) \o <<>> /\ <<>> \in Bytes
    BY <1>14, <2>2, BytesConcatenate DEF Concatenates, HasUnit
  <2> QED BY <1>3, <1>4, <2>1, <2>3, LogIsTold
<1> QED BY <1>12, <1>15, SeqEqual

-----------------------------------------------------------------------------
(* The checks *)

\* What is checked stays what it was.
LEMMA CommittedStays == Committed /\ [CheckServed]_vars => Committed'
<1> SUFFICES ASSUME Committed, [CheckServed]_vars PROVE Committed'
  OBVIOUS
<1>1. input' = input
  BY DEF CheckServed, CheckEvents, CheckTrie, CheckState, CheckRpc, CheckLayers, CheckNumbers, Checks, vars
<1> QED BY <1>1 DEF Committed, CommittedLogs, CommittedEntries, CommittedState, AttachedChunks, DecodedLayers,
                    ReadNumbers

\* A check gives a verdict of its own.
LEMMA Verdicts ==
  /\ CheckTrie => verdict'.of = "trie"
  /\ CheckState => verdict'.of = "state"
  /\ CheckRpc => verdict'.of = "rpc"
  /\ CheckEvents => verdict'.of = "events"
  /\ CheckLayers => verdict'.of = "layers"
  /\ CheckNumbers => verdict'.of = "numbers"
  /\ NotChecked.of = "nothing"
BY DEF CheckTrie, CheckState, CheckRpc, CheckEvents, CheckLayers, CheckNumbers, NotChecked

LEMMA EventsAreChecked == Committed /\ CheckEvents => CompleteIsAll'
<1> SUFFICES ASSUME Committed, CheckEvents PROVE CompleteIsAll'
  OBVIOUS
<1> DEFINE v == input.validator
           x == input.indexer
<1>1. input.kind = "events" /\ input' = input
  BY DEF CheckEvents, Checks
<1>2. verdict'.result \in BlockCompleteness(input.block, v, x)
  BY DEF CheckEvents
<1>3. CASE FetchedAnchor(v) = "fetched" /\ FetchedLogs(x) = "fetched"
  <2>1. v.is = "commitment" /\ x.is = "logs"
    BY <1>3 DEF FetchedAnchor, FetchedLogs
  <2>2. /\ input.block \in Nat /\ input.matched \in Seq(Log) /\ x.logs \in Seq(Log)
        /\ \A i \in DOMAIN input.matched : WellFormed(input.matched[i])
        /\ v.hash = EventSetHash(input.block, input.matched)
    BY <1>1, <2>1 DEF Committed, CommittedLogs
  <2>3. ASSUME \A i \in DOMAIN x.logs : WellFormed(x.logs[i])
        PROVE  verdict'.result = "complete" <=> x.logs = input.matched
    <3>1. verdict'.result = IF v.hash = EventSetHash(input.block, x.logs) THEN "complete" ELSE "incomplete"
      BY <1>2, <1>3, <2>3 DEF BlockCompleteness
    <3>2. v.hash = EventSetHash(input.block, x.logs) <=> x.logs = input.matched
      BY <2>2, <2>3, HashIsOfTheLogs
    <3> QED BY <3>1, <3>2
  <2> QED BY <1>1, <2>1, <2>3 DEF CompleteIsAll
<1>4. CASE ~(FetchedAnchor(v) = "fetched" /\ FetchedLogs(x) = "fetched")
  <2>1. verdict'.result \in {FetchedAnchor(v), FetchedLogs(x)} \ {"fetched"}
    BY <1>2, <1>4 DEF BlockCompleteness
  <2>2. verdict'.result \in {"unavailable", "error"}
    BY <2>1 DEF FetchedAnchor, FetchedLogs
  <2>3. ~(v.is = "commitment" /\ x.is = "logs")
    BY <1>4 DEF FetchedAnchor, FetchedLogs
  <2> QED BY <1>1, <2>2, <2>3 DEF CompleteIsAll
<1> QED BY <1>3, <1>4

-----------------------------------------------------------------------------
(* Transformed roots *)

\* What Reached defines by recursion.
ReachedSteps(root, n, f) ==
  f = [m \in 0 .. n |-> IF m = 0 THEN {root} ELSE {a.output : a \in {b \in Applied : b.start \in f[m - 1]}}]

Outputs(R) == {a.output : a \in {b \in Applied : b.start \in R}}

LEMMA ReachedExists ==
  ASSUME NEW root, NEW n \in Nat
  PROVE  \E f : ReachedSteps(root, n, f)
<1> DEFINE Has(i) == \E f : ReachedSteps(root, i, f)
           Bad == {i \in Nat : ~Has(i)}
<1>1. CASE Bad = {}
  BY <1>1
<1>2. CASE Bad # {}
  <2>1. PICK i \in Bad : \A j \in Bad : i <= j
    <3>1. Bad \subseteq Nat
      OBVIOUS
    <3> HIDE DEF Bad
    <3> QED BY <1>2, <3>1, LeastNat
  <2>2. i \in Nat /\ ~Has(i)
    OBVIOUS
  <2>3. CASE i = 0
    <3> DEFINE f == [m \in 0 .. 0 |-> {root}]
    <3>1. f = [m \in 0 .. 0 |-> IF m = 0 THEN {root} ELSE Outputs(f[m - 1])]
      <4>1. \A m \in 0 .. 0 : m = 0
        OBVIOUS
      <4> QED BY <4>1
    <3> HIDE DEF f
    <3> QED BY <3>1, <2>2, <2>3 DEF ReachedSteps, Outputs
  <2>4. CASE i # 0
    <3>1. i - 1 \in Nat /\ ~(i <= i - 1)
      BY <2>2, <2>4
    <3>2. Has(i - 1)
      BY <2>1, <3>1
    <3>3. PICK f : ReachedSteps(root, i - 1, f)
      BY <3>2
    <3>4. f = [m \in 0 .. i - 1 |-> IF m = 0 THEN {root} ELSE Outputs(f[m - 1])]
      BY <3>3 DEF ReachedSteps, Outputs
    <3> DEFINE g == [m \in 0 .. i |-> IF m = 0 THEN {root} ELSE Outputs(f[m - 1])]
    <3>5. \A m \in 0 .. i : m # 0 => m - 1 \in 0 .. i - 1 /\ m - 1 \in 0 .. i
      BY <2>2
    <3>6. ASSUME NEW m \in 0 .. i - 1 PROVE g[m] = f[m]
      <4>1. m \in 0 .. i
        BY <2>2
      <4>2. f[m] = IF m = 0 THEN {root} ELSE Outputs(f[m - 1])
        BY <3>4
      <4> QED BY <4>1, <4>2
    <3>7. g = [m \in 0 .. i |-> IF m = 0 THEN {root} ELSE Outputs(g[m - 1])]
      <4>1. \A m \in 0 .. i : m # 0 => f[m - 1] = g[m - 1]
        BY <3>5, <3>6
      <4> QED BY <4>1
    <3> HIDE DEF g
    <3> QED BY <3>7, <2>2 DEF ReachedSteps, Outputs
  <2> QED BY <2>3, <2>4
<1> QED BY <1>1, <1>2

LEMMA ReachedIs ==
  ASSUME NEW root, NEW n \in Nat
  PROVE  \E f : ReachedSteps(root, n, f) /\ Reached(root, n) = f[n]
<1> DEFINE f == CHOOSE h : ReachedSteps(root, n, h)
<1>1. ReachedSteps(root, n, f)
  BY ReachedExists
<1>2. Reached(root, n) = f[n]
  BY DEF Reached, ReachedSteps
<1> QED BY <1>1, <1>2

\* Chunks that all pass lead from the first's start to each one's output.
LEMMA ChunksLead ==
  ASSUME NEW chunks, IsList(chunks), chunks # <<>>, NEW artifacts,
         \A i \in DOMAIN chunks : CheckChunk(chunks, i, artifacts) = "ok"
  PROVE  chunks[Len(chunks)].output \in Reached(chunks[1].start, Len(chunks))
<1> DEFINE n == Len(chunks)
           root == chunks[1].start
           Passes(i) == CheckChunk(chunks, i, artifacts) = "ok"
<1>1. n \in Nat /\ n # 0 /\ DOMAIN chunks = 1 .. n
  BY EmptySeq, LenProperties DEF IsList
<1>2. ASSUME NEW i \in 1 .. n
      PROVE  /\ i > 1 => chunks[i].start = chunks[i - 1].output
             /\ \E t \in Applied : t.start = chunks[i].start /\ t.output = chunks[i].output
  <2>1. CheckChunk(chunks, i, artifacts) = "ok"
    BY <1>1
  <2>2. Chains(chunks, i)
    BY <2>1 DEF CheckChunk
  <2>3. GkrVerifies(artifacts[chunks[i].hash].circuit, artifacts[chunks[i].hash].vk, chunks[i])
    BY <2>1 DEF CheckChunk
  <2> DEFINE t == [start |-> chunks[i].start, output |-> chunks[i].output,
                blocks |-> chunks[i].blocks, config |-> chunks[i].config]
  <2>4. t \in Applied /\ t.start = chunks[i].start /\ t.output = chunks[i].output
    BY <2>3 DEF GkrVerifies
  <2> QED BY <2>2, <2>4 DEF Chains
<1>3. PICK f : ReachedSteps(root, n, f) /\ Reached(root, n) = f[n]
  BY <1>1, ReachedIs
<1>4. f[0] = {root} /\ \A m \in 1 .. n : f[m] = Outputs(f[m - 1])
  <2>1. f = [m \in 0 .. n |-> IF m = 0 THEN {root} ELSE Outputs(f[m - 1])]
    BY <1>3 DEF ReachedSteps, Outputs
  <2>2. 0 \in 0 .. n /\ \A m \in 1 .. n : m \in 0 .. n /\ m # 0
    BY <1>1
  <2> HIDE DEF root
  <2>3. f[0] = {root}
    BY <2>1, <2>2
  <2>4. ASSUME NEW m \in 1 .. n PROVE f[m] = Outputs(f[m - 1])
    BY <2>1, <2>2
  <2> QED BY <2>3, <2>4
<1> DEFINE Bad == {i \in 1 .. n : chunks[i].output \notin f[i]}
<1>5. CASE Bad = {}
  <2>1. n \in 1 .. n
    BY <1>1
  <2> QED BY <2>1, <1>3, <1>5
<1>6. CASE Bad # {}
  <2>1. PICK i \in Bad : \A j \in Bad : i <= j
    <3>1. Bad \subseteq Nat
      BY <1>1
    <3> HIDE DEF Bad
    <3> QED BY <1>6, <3>1, LeastNat
  <2>2. i \in 1 .. n /\ chunks[i].output \notin f[i]
    OBVIOUS
  <2>3. chunks[i].start \in f[i - 1]
    <3>1. CASE i = 1
      <4>1. i - 1 = 0
        BY <3>1
      <4> QED BY <4>1, <3>1, <1>4
    <3>2. CASE i # 1
      <4>1. i - 1 \in 1 .. n /\ i > 1 /\ ~(i <= i - 1)
        BY <1>1, <2>2, <3>2
      <4>2. chunks[i - 1].output \in f[i - 1]
        BY <2>1, <4>1
      <4> QED BY <1>2, <2>2, <4>1, <4>2
    <3> QED BY <3>1, <3>2
  <2>4. chunks[i].output \in Outputs(f[i - 1])
    BY <1>2, <2>2, <2>3 DEF Outputs
  <2> QED BY <1>4, <2>2, <2>4
<1> QED BY <1>5, <1>6

LEMMA TransformationsAreChecked == Committed /\ CheckRpc => TransformedIsReached'
<1> SUFFICES ASSUME Committed, CheckRpc,
                    verdict'.result.code = "ok", verdict'.result.transformation = "true"
             PROVE  /\ input.answer.chunks # <<>>
                    /\ verdict'.result.root \in Reached(input.answer.chunks[1].start, Len(input.answer.chunks))
  BY DEF TransformedIsReached, CheckRpc, Checks
<1> DEFINE chunks == input.answer.chunks
           root == input.answer.root
           result == VerifyTransformationProofs(chunks, root, input.artifacts)
<1>1. IsList(chunks)
  BY DEF Committed, AttachedChunks, CheckRpc, Checks
<1>2. verdict'.result = Verify(input.answer, input.artifacts, input.options)
  BY DEF CheckRpc
<1>3. /\ chunks # <<>> /\ input.options.strict
      /\ ~(input.options.strict /\ chunks # <<>> /\ result # "ok")
      /\ verdict'.result.root = root
  <2> HIDE DEF result
  <2> QED BY <1>2 DEF Verify, Failed, result
<1>4. result = "ok"
  BY <1>3
<1> DEFINE failing == {i \in DOMAIN chunks : CheckChunk(chunks, i, input.artifacts) # "ok"}
           first == CHOOSE i \in failing : \A j \in failing : i <= j
<1>5. failing = {}
  <2>1. SUFFICES ASSUME failing # {} PROVE FALSE
    OBVIOUS
  <2>2. result = CheckChunk(chunks, first, input.artifacts)
    BY <2>1 DEF VerifyTransformationProofs
  <2>3. failing \subseteq Nat
    BY <1>1, LenProperties DEF IsList
  <2>4. first \in failing
    <3> HIDE DEF failing
    <3> QED BY <2>1, <2>3, LeastNat
  <2>5. CheckChunk(chunks, first, input.artifacts) # "ok"
    <3> HIDE DEF first
    <3> QED BY <2>4
  <2> QED BY <1>4, <2>2, <2>5
<1>6. chunks[Len(chunks)].output = root
  <2>1. IF chunks # <<>> /\ chunks[Len(chunks)].output # root THEN result = "ROOT_MISMATCH" ELSE result = "ok"
    BY <1>5 DEF VerifyTransformationProofs
  <2> HIDE DEF result
  <2> QED BY <1>3, <1>4, <2>1
<1>7. \A i \in DOMAIN chunks : CheckChunk(chunks, i, input.artifacts) = "ok"
  BY <1>5
<1>8. chunks[Len(chunks)].output \in Reached(chunks[1].start, Len(chunks))
  <2> HIDE DEF chunks
  <2> QED BY <1>1, <1>3, <1>7, ChunksLead
<1> QED BY <1>3, <1>6, <1>8

-----------------------------------------------------------------------------
(* Keys and their prefixes *)

Key == Seq(Nibbles)

LEMMA FromIs ==
  ASSUME NEW k \in Key, NEW m \in 0 .. Len(k)
  PROVE  /\ From(k, m) \in Key /\ Len(From(k, m)) = Len(k) - m
         /\ \A i \in 1 .. Len(k) - m : From(k, m)[i] = k[m + i]
<1>1. Len(k) \in Nat /\ \A i \in 1 .. Len(k) : k[i] \in Nibbles
  BY DEF Key
<1>2. \A i \in m + 1 .. Len(k) : k[i] \in Nibbles
  BY <1>1
<1>3. SubSeq(k, m + 1, Len(k)) \in Seq(Nibbles)
  BY <1>1, <1>2, SubSeqProperties DEF Key
<1>4. Len(SubSeq(k, m + 1, Len(k))) = Len(k) - m
  BY <1>1, SubSeqProperties DEF Key
<1>5. ASSUME NEW i \in 1 .. Len(k) - m PROVE SubSeq(k, m + 1, Len(k))[i] = k[m + i]
  BY <1>1, SubSeqProperties DEF Key
<1> QED BY <1>3, <1>4, <1>5 DEF From, Key

LEMMA PrefixIs ==
  ASSUME NEW p \in Key, NEW k \in Key
  PROVE  IsPrefix(p, k) <=> Len(p) <= Len(k) /\ \A i \in 1 .. Len(p) : p[i] = k[i]
<1>1. Len(k) \in Nat /\ Len(p) \in Nat
  BY DEF Key
<1>2. ASSUME Len(p) <= Len(k)
      PROVE  SubSeq(p, 1, Len(p)) = SubSeq(k, 1, Len(p)) <=> \A i \in 1 .. Len(p) : p[i] = k[i]
  <2> DEFINE u == SubSeq(p, 1, Len(p))
             v == SubSeq(k, 1, Len(p))
  <2>1. u \in Seq(Nibbles) /\ Len(u) = Len(p) /\ \A i \in 1 .. Len(p) : u[i] = p[i]
    BY <1>1, SubSeqProperties DEF Key
  <2>2. v \in Seq(Nibbles) /\ Len(v) = Len(p) /\ \A i \in 1 .. Len(p) : v[i] = k[i]
    BY <1>1, <1>2, SubSeqProperties DEF Key
  <2> HIDE DEF u, v
  <2>3. u = v <=> \A i \in 1 .. Len(p) : p[i] = k[i]
    BY <2>1, <2>2, SeqEqual
  <2> QED BY <2>3 DEF u, v
<1> QED BY <1>1, <1>2 DEF IsPrefix

LEMMA PrefixesAre ==
  ASSUME NEW k \in Key
  PROVE  \A p : p \in Prefixes(k) <=> p \in Key /\ IsPrefix(p, k)
<1>1. Len(k) \in Nat
  BY DEF Key
<1>2. ASSUME NEW l \in 0 .. Len(k)
      PROVE  /\ SubSeq(k, 1, l) \in Key /\ Len(SubSeq(k, 1, l)) = l
             /\ \A i \in 1 .. l : SubSeq(k, 1, l)[i] = k[i]
  BY <1>1, SubSeqProperties DEF Key
<1>3. ASSUME NEW p \in Prefixes(k) PROVE p \in Key /\ IsPrefix(p, k)
  <2>1. PICK l \in 0 .. Len(k) : p = SubSeq(k, 1, l)
    BY DEF Prefixes
  <2>2. p \in Key /\ Len(p) = l /\ \A i \in 1 .. l : p[i] = k[i]
    BY <1>2, <2>1
  <2> QED BY <1>1, <2>2, PrefixIs
<1>4. ASSUME NEW p \in Key, IsPrefix(p, k) PROVE p \in Prefixes(k)
  <2> DEFINE l == Len(p)
             u == SubSeq(k, 1, l)
  <2>1. l \in 0 .. Len(k) /\ \A i \in 1 .. l : p[i] = k[i]
    BY <1>1, <1>4, PrefixIs DEF Key
  <2>2. u \in Seq(Nibbles) /\ Len(u) = l /\ \A i \in 1 .. l : u[i] = k[i]
    BY <1>2, <2>1 DEF Key
  <2>3. p \in Seq(Nibbles)
    BY DEF Key
  <2>4. p = u
    <3> HIDE DEF u
    <3> QED BY <2>1, <2>2, <2>3, SeqEqual
  <2> QED BY <2>1, <2>4 DEF Prefixes
<1> QED BY <1>3, <1>4

\* Prefixes of keys: of one another, of one key, and all of it.
LEMMA PrefixOrder ==
  /\ \A p, q, k \in Key : IsPrefix(p, q) /\ IsPrefix(q, k) => IsPrefix(p, k)
  /\ \A p, q, k \in Key : IsPrefix(p, k) /\ IsPrefix(q, k) /\ Len(p) <= Len(q) => IsPrefix(p, q)
  /\ \A p, k \in Key : IsPrefix(p, k) /\ Len(p) = Len(k) => p = k
  /\ \A k \in Key : IsPrefix(k, k) /\ IsPrefix(<<>>, k) /\ <<>> \in Key /\ Len(k) \in Nat
<1>0. \A k \in Key : Len(k) \in Nat
  BY DEF Key
<1>1. ASSUME NEW p \in Key, NEW q \in Key, NEW k \in Key, IsPrefix(p, q), IsPrefix(q, k)
      PROVE  IsPrefix(p, k)
  <2>1. Len(p) <= Len(q) /\ Len(q) <= Len(k) /\ \A i \in 1 .. Len(p) : p[i] = q[i]
    BY <1>1, PrefixIs
  <2>2. \A i \in 1 .. Len(q) : q[i] = k[i]
    BY <1>1, PrefixIs
  <2>3. Len(p) <= Len(k) /\ \A i \in 1 .. Len(p) : p[i] = k[i]
    BY <1>0, <2>1, <2>2
  <2> QED BY <2>3, PrefixIs
<1>2. ASSUME NEW p \in Key, NEW q \in Key, NEW k \in Key, IsPrefix(p, k), IsPrefix(q, k), Len(p) <= Len(q)
      PROVE  IsPrefix(p, q)
  <2>1. \A i \in 1 .. Len(p) : p[i] = k[i]
    BY <1>2, PrefixIs
  <2>2. \A i \in 1 .. Len(q) : q[i] = k[i]
    BY <1>2, PrefixIs
  <2>3. \A i \in 1 .. Len(p) : p[i] = q[i]
    BY <1>0, <1>2, <2>1, <2>2
  <2> QED BY <1>2, <2>3, PrefixIs
<1>3. ASSUME NEW p \in Key, NEW k \in Key, IsPrefix(p, k), Len(p) = Len(k) PROVE p = k
  <2>1. \A i \in 1 .. Len(p) : p[i] = k[i]
    BY <1>3, PrefixIs
  <2> QED BY <1>3, <2>1, SeqEqual DEF Key
<1>4. ASSUME NEW k \in Key PROVE IsPrefix(k, k) /\ IsPrefix(<<>>, k) /\ <<>> \in Key
  <2>1. <<>> \in Key /\ Len(<<>>) = 0
    BY EmptySeq DEF Key
  <2>2. IsPrefix(k, k)
    BY <1>0, PrefixIs
  <2>3. IsPrefix(<<>>, k)
    <3>1. Len(<<>>) <= Len(k) /\ \A i \in 1 .. Len(<<>>) : <<>>[i] = k[i]
      BY <1>0, <2>1
    <3> QED BY <2>1, <3>1, PrefixIs
  <2> QED BY <2>1, <2>2, <2>3
<1> QED BY <1>0, <1>1, <1>2, <1>3, <1>4

\* A key is a prefix of it and what is left after that.
LEMMA RestOfKey ==
  ASSUME NEW p \in Key, NEW k \in Key, IsPrefix(p, k)
  PROVE  /\ p \o From(k, Len(p)) = k
         /\ From(k, Len(p)) \in Key /\ Len(From(k, Len(p))) = Len(k) - Len(p)
<1>1. Len(p) \in Nat /\ Len(k) \in Nat /\ Len(p) <= Len(k) /\ \A i \in 1 .. Len(p) : p[i] = k[i]
  BY PrefixIs DEF Key
<1> DEFINE r == From(k, Len(p))
<1>2. r \in Key /\ Len(r) = Len(k) - Len(p) /\ \A i \in 1 .. Len(k) - Len(p) : r[i] = k[Len(p) + i]
  BY <1>1, FromIs
<1> HIDE DEF r
<1>3. p \o r \in Seq(Nibbles) /\ Len(p \o r) = Len(k)
  BY <1>1, <1>2, ConcatProperties DEF Key
<1>4. ASSUME NEW i \in 1 .. Len(k) PROVE (p \o r)[i] = k[i]
  <2>1. (p \o r)[i] = IF i <= Len(p) THEN p[i] ELSE r[i - Len(p)]
    BY <1>1, <1>2, ConcatProperties DEF Key
  <2>2. CASE i <= Len(p)
    BY <1>1, <2>1, <2>2
  <2>3. CASE ~(i <= Len(p))
    <3>1. i - Len(p) \in 1 .. Len(k) - Len(p) /\ Len(p) + (i - Len(p)) = i
      BY <1>1, <2>3
    <3> QED BY <1>2, <2>1, <2>3, <3>1
  <2> QED BY <2>2, <2>3
<1>5. p \o r = k
  BY <1>3, <1>4, SeqEqual DEF Key
<1> QED BY <1>2, <1>5 DEF r

\* What is left after two prefixes in turn.
LEMMA RestOfRest ==
  ASSUME NEW k \in Key, NEW m \in 0 .. Len(k), NEW j \in 0 .. Len(k) - m
  PROVE  From(From(k, m), j) = From(k, m + j)
<1>1. Len(k) \in Nat
  BY DEF Key
<1> DEFINE r == From(k, m)
<1>2. r \in Key /\ Len(r) = Len(k) - m /\ \A i \in 1 .. Len(k) - m : r[i] = k[m + i]
  BY FromIs
<1> HIDE DEF r
<1> DEFINE u == From(r, j)
           v == From(k, m + j)
<1>3. u \in Key /\ Len(u) = Len(k) - m - j /\ \A i \in 1 .. Len(k) - m - j : u[i] = r[j + i]
  BY <1>1, <1>2, FromIs
<1>4. m + j \in 0 .. Len(k)
  BY <1>1
<1>5. v \in Key /\ Len(v) = Len(k) - (m + j) /\ \A i \in 1 .. Len(k) - (m + j) : v[i] = k[(m + j) + i]
  BY <1>4, FromIs
<1> HIDE DEF u, v
<1>6. Len(u) = Len(v)
  BY <1>1, <1>3, <1>5
<1>7. ASSUME NEW i \in 1 .. Len(u) PROVE u[i] = v[i]
  <2>1. u[i] = r[j + i] /\ j + i \in 1 .. Len(k) - m
    BY <1>1, <1>3
  <2>2. v[i] = k[(m + j) + i] /\ (m + j) + i = m + (j + i)
    BY <1>1, <1>3, <1>5
  <2> QED BY <1>2, <2>1, <2>2
<1>8. u = v
  BY <1>3, <1>5, <1>6, <1>7, SeqEqual DEF Key
<1> QED BY <1>8 DEF u, v, r

\* A path on the rest of a key makes a longer prefix of it.
LEMMA PathOnKey ==
  ASSUME NEW p \in Key, NEW q \in Key, NEW k \in Key, IsPrefix(p, k), IsPrefix(p, q)
  PROVE  IsPrefix(From(q, Len(p)), From(k, Len(p))) <=> IsPrefix(q, k)
<1>1. Len(p) \in Nat /\ Len(k) \in Nat /\ Len(q) \in Nat
  BY DEF Key
<1>2. Len(p) <= Len(k) /\ \A i \in 1 .. Len(p) : p[i] = k[i]
  BY PrefixIs
<1>3. Len(p) <= Len(q) /\ \A i \in 1 .. Len(p) : p[i] = q[i]
  BY PrefixIs
<1> DEFINE u == From(q, Len(p))
           v == From(k, Len(p))
<1>4. u \in Key /\ Len(u) = Len(q) - Len(p) /\ \A i \in 1 .. Len(q) - Len(p) : u[i] = q[Len(p) + i]
  BY <1>1, <1>3, FromIs
<1>5. v \in Key /\ Len(v) = Len(k) - Len(p) /\ \A i \in 1 .. Len(k) - Len(p) : v[i] = k[Len(p) + i]
  BY <1>1, <1>2, FromIs
<1> HIDE DEF u, v
<1>6. IsPrefix(u, v) <=> Len(u) <= Len(v) /\ \A i \in 1 .. Len(u) : u[i] = v[i]
  BY <1>4, <1>5, PrefixIs
<1>7. IsPrefix(q, k) <=> Len(q) <= Len(k) /\ \A i \in 1 .. Len(q) : q[i] = k[i]
  BY PrefixIs
<1>8. ASSUME Len(q) <= Len(k), \A i \in 1 .. Len(q) : q[i] = k[i]
      PROVE  Len(u) <= Len(v) /\ \A i \in 1 .. Len(u) : u[i] = v[i]
  <2>1. Len(u) <= Len(v)
    BY <1>1, <1>4, <1>5, <1>8
  <2>2. ASSUME NEW i \in 1 .. Len(u) PROVE u[i] = v[i]
    <3>1. Len(p) + i \in 1 .. Len(q) /\ i \in 1 .. Len(q) - Len(p) /\ i \in 1 .. Len(k) - Len(p)
      BY <1>1, <1>4, <1>8
    <3> QED BY <1>4, <1>5, <1>8, <3>1
  <2> QED BY <2>1, <2>2
<1>9. ASSUME Len(u) <= Len(v), \A i \in 1 .. Len(u) : u[i] = v[i]
      PROVE  Len(q) <= Len(k) /\ \A i \in 1 .. Len(q) : q[i] = k[i]
  <2>1. Len(q) <= Len(k)
    BY <1>1, <1>4, <1>5, <1>9
  <2>2. ASSUME NEW i \in 1 .. Len(q) PROVE q[i] = k[i]
    <3>1. CASE i <= Len(p)
      <4>1. i \in 1 .. Len(p)
        BY <1>1, <3>1
      <4> QED BY <1>2, <1>3, <4>1
    <3>2. CASE ~(i <= Len(p))
      <4> DEFINE j == i - Len(p)
      <4>1. j \in 1 .. Len(u) /\ j \in 1 .. Len(q) - Len(p) /\ j \in 1 .. Len(k) - Len(p) /\ Len(p) + j = i
        BY <1>1, <1>4, <2>1, <3>2
      <4> HIDE DEF j
      <4>2. u[j] = q[i] /\ v[j] = k[i] /\ u[j] = v[j]
        BY <1>4, <1>5, <1>9, <4>1
      <4> QED BY <4>2
    <3> QED BY <3>1, <3>2
  <2> QED BY <2>1, <2>2
<1>10. IsPrefix(u, v) <=> IsPrefix(q, k)
  BY <1>6, <1>7, <1>8, <1>9
<1> QED BY <1>10 DEF u, v

-----------------------------------------------------------------------------
(* The trie *)

LEMMA LongestIs ==
  ASSUME NEW K, K \subseteq Key, K # {}
  PROVE  /\ LongestCommonPrefix(K) \in Key
         /\ \A k \in K : IsPrefix(LongestCommonPrefix(K), k)
         /\ \A q \in Key : (\A k \in K : IsPrefix(q, k)) => Len(q) <= Len(LongestCommonPrefix(K))
<1> DEFINE C == CommonPrefixes(K)
<1>1. \A q : q \in C <=> q \in Key /\ \A k \in K : IsPrefix(q, k)
  <2>1. \A q : q \in UNION {Prefixes(k) : k \in K} <=> \E k \in K : q \in Prefixes(k)
    OBVIOUS
  <2>2. \A k \in K : \A q : q \in Prefixes(k) <=> q \in Key /\ IsPrefix(q, k)
    BY PrefixesAre
  <2> QED BY <2>1, <2>2 DEF CommonPrefixes
<1> HIDE DEF C
<1>2. PICK k \in K : TRUE
  OBVIOUS
<1>3. \A q \in C : Len(q) \in Nat /\ Len(q) <= Len(k)
  <2>1. \A q \in C : q \in Key /\ IsPrefix(q, k)
    BY <1>1
  <2> QED BY <2>1, PrefixIs, PrefixOrder
<1> DEFINE S == {Len(k) - Len(q) : q \in C}
<1>4. S \subseteq Nat
  BY <1>2, <1>3, PrefixOrder
<1>5. S # {}
  <2>1. <<>> \in C
    BY <1>1, PrefixOrder
  <2> QED BY <2>1
<1>6. PICK n \in S : \A m \in S : n <= m
  <2> HIDE DEF S
  <2> QED BY <1>4, <1>5, LeastNat
<1>7. PICK longest \in C : n = Len(k) - Len(longest)
  OBVIOUS
<1>8. \A q \in C : Len(q) <= Len(longest)
  <2>1. \A q \in C : Len(k) - Len(longest) <= Len(k) - Len(q)
    BY <1>6, <1>7
  <2> QED BY <1>2, <1>3, <2>1, PrefixOrder
<1>9. /\ LongestCommonPrefix(K) \in C
      /\ \A q \in C : Len(q) <= Len(LongestCommonPrefix(K))
  BY <1>8 DEF LongestCommonPrefix, C
<1> QED BY <1>1, <1>9

\* A place is a prefix of some of the keys.
LEMMA KeysAtPlace ==
  ASSUME NEW keys, AreKeys(keys), NEW p \in Places(keys)
  PROVE  /\ p \in Key /\ KeysUnder(keys, p) # {}
         /\ KeysUnder(keys, p) \subseteq keys /\ keys \subseteq Key
         /\ \A k \in keys : IsPrefix(p, k) => k \in KeysUnder(keys, p)
<1>1. keys \subseteq Key
  BY DEF AreKeys, Key
<1>2. PICK k \in keys : p \in Prefixes(k)
  BY DEF Places
<1>3. p \in Key /\ IsPrefix(p, k)
  BY <1>1, <1>2, PrefixesAre
<1> QED BY <1>1, <1>3 DEF KeysUnder

LEMMA AreInPlace ==
  ASSUME NEW keys, keys \subseteq Key, NEW k \in keys, NEW p \in Key, IsPrefix(p, k)
  PROVE  p \in Places(keys)
BY PrefixesAre DEF Places

\* A node's path leads from its place to what the keys below it share.
LEMMA PlaceIs ==
  ASSUME NEW keys, AreKeys(keys), NEW p \in Places(keys)
  PROVE  LET path == Shared(keys, p)
             q == p \o path
         IN  /\ path \in Key /\ q \in Places(keys) /\ q \in Key
             /\ IsPrefix(p, q) /\ path = From(q, Len(p)) /\ Len(q) = Len(p) + Len(path)
             /\ \A k \in keys : IsPrefix(p, k) => IsPrefix(q, k)
             /\ \A k \in keys : KeysUnder(keys, p) = {k} => q = k
<1> DEFINE K == KeysUnder(keys, p)
           L == LongestCommonPrefix(K)
<1>1. /\ p \in Key /\ K # {} /\ K \subseteq keys /\ keys \subseteq Key
      /\ \A k \in keys : IsPrefix(p, k) => k \in K
  BY KeysAtPlace
<1>2. \A k \in K : IsPrefix(p, k)
  BY DEF KeysUnder
<1> HIDE DEF K
<1>3. /\ L \in Key /\ \A k \in K : IsPrefix(L, k)
      /\ \A q \in Key : (\A k \in K : IsPrefix(q, k)) => Len(q) <= Len(L)
  <2>1. K \subseteq Key
    BY <1>1
  <2> QED BY <1>1, <2>1, LongestIs
<1> HIDE DEF L
<1>4. PICK k \in K : TRUE
  BY <1>1
<1>5. k \in Key /\ k \in keys /\ IsPrefix(p, k) /\ IsPrefix(L, k) /\ Len(p) <= Len(L)
  BY <1>1, <1>2, <1>3, <1>4
<1>6. IsPrefix(p, L)
  BY <1>1, <1>3, <1>5, PrefixOrder
<1>7. p \o From(L, Len(p)) = L /\ From(L, Len(p)) \in Key /\ Len(From(L, Len(p))) = Len(L) - Len(p)
  BY <1>1, <1>3, <1>6, RestOfKey
<1>8. Shared(keys, p) = From(L, Len(p))
  BY DEF Shared, K, L
<1>9. L \in Places(keys)
  BY <1>1, <1>3, <1>5, AreInPlace
<1>10. Len(L) = Len(p) + (Len(L) - Len(p))
  BY <1>1, <1>3, PrefixOrder
<1>11. ASSUME NEW j \in keys, K = {j} PROVE L = j
  <2>1. j \in Key /\ IsPrefix(j, j)
    BY <1>1, PrefixOrder
  <2>2. Len(j) <= Len(L) /\ IsPrefix(L, j)
    BY <1>3, <1>11, <2>1
  <2>3. Len(L) <= Len(j)
    BY <1>3, <2>1, <2>2, PrefixIs
  <2>4. Len(L) = Len(j)
    BY <1>3, <2>1, <2>2, <2>3, PrefixOrder
  <2> QED BY <1>3, <2>1, <2>2, <2>4, PrefixOrder
<1>12. \A j \in keys : IsPrefix(p, j) => IsPrefix(L, j)
  BY <1>1, <1>3
<1> QED BY <1>3, <1>6, <1>7, <1>8, <1>9, <1>10, <1>11, <1>12 DEF K

\* The node that Tries puts at a place, given the nodes further down.
NodeAt(entries, p, f) ==
  LET keys == DOMAIN entries
      path == Shared(keys, p)
  IN  IF \E k \in keys : KeysUnder(keys, p) = {k} THEN LeafNode(path, entries[p \o path])
      ELSE IF path # <<>> THEN Extension(path, RefTo(f[p \o path]))
      ELSE Branch([n \in Nibbles |-> IF Append(p, n) \in Places(keys) THEN RefTo(f[Append(p, n)]) ELSE NoRef],
                  EmptyBytes)

Further(keys, p) == {q \in Places(keys) : Len(q) > Len(p)}

\* A place's node depends on those of longer places only.
LEMMA NodeFromBelow ==
  ASSUME NEW entries, AreKeys(DOMAIN entries), NEW p \in Places(DOMAIN entries), NEW f, NEW g,
         \A q \in Further(DOMAIN entries, p) : f[q] = g[q]
  PROVE  NodeAt(entries, p, f) = NodeAt(entries, p, g)
<1> DEFINE keys == DOMAIN entries
           path == Shared(keys, p)
<1>1. /\ path \in Key /\ p \o path \in Places(keys) /\ Len(p \o path) = Len(p) + Len(path)
      /\ p \in Key
  BY PlaceIs, KeysAtPlace
<1>2. path # <<>> => p \o path \in Further(keys, p)
  <2> HIDE DEF path
  <2>1. path # <<>> => Len(path) > 0
    BY <1>1, EmptySeq, LenProperties DEF Key
  <2>2. Len(p) \in Nat /\ Len(path) \in Nat
    BY <1>1, LenProperties DEF Key
  <2> QED BY <1>1, <2>1, <2>2 DEF Further
<1>3. \A n \in Nibbles : Append(p, n) \in Places(keys) => Append(p, n) \in Further(keys, p)
  <2>1. \A n \in Nibbles : Len(Append(p, n)) = Len(p) + 1 /\ Len(p) \in Nat
    BY <1>1, AppendProperties DEF Key
  <2> QED BY <2>1 DEF Further
<1>4. path # <<>> => f[p \o path] = g[p \o path]
  BY <1>2
<1>5. [n \in Nibbles |-> IF Append(p, n) \in Places(keys) THEN RefTo(f[Append(p, n)]) ELSE NoRef]
      = [n \in Nibbles |-> IF Append(p, n) \in Places(keys) THEN RefTo(g[Append(p, n)]) ELSE NoRef]
  <2>1. \A n \in Nibbles : Append(p, n) \in Places(keys) => f[Append(p, n)] = g[Append(p, n)]
    BY <1>3
  <2> HIDE DEF keys
  <2> QED BY <2>1
<1>6. CASE \E k \in keys : KeysUnder(keys, p) = {k}
  BY <1>6 DEF NodeAt
<1>7. CASE ~ \E k \in keys : KeysUnder(keys, p) = {k}
  <2>1. CASE path # <<>>
    BY <1>4, <1>7, <2>1 DEF NodeAt
  <2>2. CASE path = <<>>
    BY <1>5, <1>7, <2>2 DEF NodeAt
  <2> QED BY <2>1, <2>2
<1> QED BY <1>6, <1>7

AreNodes(entries, places, f) == f = [p \in places |-> NodeAt(entries, p, f)]

\* The nodes of the places m nibbles and less from the ends of the keys.
Lowest(keys, n, m) == {p \in Places(keys) : Len(p) + m > n}

LEMMA LowestExist ==
  ASSUME NEW entries, AreKeys(DOMAIN entries), NEW n \in Nat, NEW m \in Nat,
         \A p \in Places(DOMAIN entries) : Len(p) <= n
  PROVE  \E f : AreNodes(entries, Lowest(DOMAIN entries, n, m), f)
<1> DEFINE keys == DOMAIN entries
           Has(i) == \E f : AreNodes(entries, Lowest(keys, n, i), f)
           Bad == {i \in Nat : ~Has(i)}
<1>1. \A p \in Places(keys) : p \in Key /\ Len(p) \in Nat
  BY KeysAtPlace, PrefixOrder
<1>2. CASE Bad = {}
  BY <1>2
<1>3. CASE Bad # {}
  <2>1. PICK i \in Bad : \A j \in Bad : i <= j
    <3>1. Bad \subseteq Nat
      OBVIOUS
    <3> HIDE DEF Bad
    <3> QED BY <1>3, <3>1, LeastNat
  <2>2. i \in Nat /\ ~Has(i)
    OBVIOUS
  <2>3. CASE i = 0
    <3>1. Lowest(keys, n, 0) = {}
      BY <1>1 DEF Lowest
    <3> DEFINE f == [p \in {} |-> p]
    <3>2. f = [p \in {} |-> NodeAt(entries, p, f)]
      OBVIOUS
    <3> HIDE DEF f
    <3> QED BY <2>2, <2>3, <3>1, <3>2 DEF AreNodes
  <2>4. CASE i # 0
    <3>1. i - 1 \in Nat /\ ~(i <= i - 1)
      BY <2>2, <2>4
    <3>2. Has(i - 1)
      BY <2>1, <3>1
    <3>3. PICK f : AreNodes(entries, Lowest(keys, n, i - 1), f)
      BY <3>2
    <3> DEFINE g == [p \in Lowest(keys, n, i) |-> NodeAt(entries, p, f)]
    <3>4. Lowest(keys, n, i - 1) \subseteq Lowest(keys, n, i)
      BY <1>1, <2>2 DEF Lowest
    <3>5. \A p \in Lowest(keys, n, i - 1) : f[p] = NodeAt(entries, p, f)
      BY <3>3 DEF AreNodes
    <3>6. \A p \in Lowest(keys, n, i - 1) : f[p] = g[p]
      BY <3>4, <3>5
    <3> HIDE DEF g
    <3>7. ASSUME NEW p \in Lowest(keys, n, i) PROVE NodeAt(entries, p, f) = NodeAt(entries, p, g)
      <4>1. p \in Places(keys) /\ Len(p) + i > n
        BY DEF Lowest
      <4>2. Further(keys, p) \subseteq Lowest(keys, n, i - 1)
        BY <1>1, <2>2, <4>1 DEF Lowest, Further
      <4>3. \A q \in Further(keys, p) : f[q] = g[q]
        BY <3>6, <4>2
      <4> HIDE DEF keys
      <4> QED BY <4>1, <4>3, NodeFromBelow DEF keys
    <3>8. g = [p \in Lowest(keys, n, i) |-> NodeAt(entries, p, g)]
      BY <3>7 DEF g
    <3> QED BY <2>2, <3>8 DEF AreNodes
  <2> QED BY <2>3, <2>4
<1> QED BY <1>2, <1>3

LEMMA TriesAre ==
  ASSUME NEW entries, AreKeys(DOMAIN entries)
  PROVE  AreNodes(entries, Places(DOMAIN entries), Tries(entries))
<1> DEFINE keys == DOMAIN entries
<1>1. \E f : AreNodes(entries, Places(keys), f)
  <2>1. CASE keys = {}
    <3>1. Places(keys) = {}
      BY <2>1 DEF Places
    <3> DEFINE f == [p \in {} |-> p]
    <3>2. f = [p \in {} |-> NodeAt(entries, p, f)]
      OBVIOUS
    <3> HIDE DEF f
    <3> QED BY <3>1, <3>2 DEF AreNodes
  <2>2. CASE keys # {}
    <3>1. PICK k \in keys : k \in Key /\ Len(k) \in Nat
      BY <2>2, PrefixOrder DEF AreKeys, Key
    <3>2. \A p \in Places(keys) : Len(p) \in Nat /\ Len(p) <= Len(k)
      <4>1. SUFFICES ASSUME NEW p \in Places(keys) PROVE Len(p) \in Nat /\ Len(p) <= Len(k)
        OBVIOUS
      <4>2. PICK j \in keys : IsPrefix(p, j) /\ j \in Key /\ p \in Key
        BY KeysAtPlace DEF KeysUnder
      <4>3. Len(j) = Len(k)
        BY DEF AreKeys
      <4> QED BY <4>2, <4>3, PrefixIs, PrefixOrder
    <3>3. Lowest(keys, Len(k), Len(k) + 1) = Places(keys)
      BY <3>1, <3>2 DEF Lowest
    <3>4. Len(k) + 1 \in Nat
      BY <3>1
    <3>5. \E f : AreNodes(entries, Lowest(keys, Len(k), Len(k) + 1), f)
      BY <3>1, <3>2, <3>4, LowestExist
    <3> QED BY <3>3, <3>5
  <2> QED BY <2>1, <2>2
<1>2. Tries(entries) = CHOOSE f : AreNodes(entries, Places(keys), f)
  BY DEF Tries, AreNodes, NodeAt
<1> QED BY <1>1, <1>2

\* Where the loop is when it is to read the node of a place.
AtNode(entries, p, key) == Expects(HashRef(Tries(entries)[p]), From(key, Len(p)))

\* The node of a place is the leaf of the one key there, an extension to what
\* the keys there share, or a branch to the next places.
LeafAt(entries, p, path) ==
  /\ p \o path \in DOMAIN entries
  /\ Tries(entries)[p] = LeafNode(path, entries[p \o path])

ExtensionAt(entries, p, path) ==
  /\ path # <<>> /\ p \o path \in Places(DOMAIN entries)
  /\ Tries(entries)[p] = Extension(path, RefTo(Tries(entries)[p \o path]))

BranchAt(entries, p) ==
  /\ p \notin DOMAIN entries
  /\ Tries(entries)[p].type = "branch" /\ Tries(entries)[p].value = EmptyBytes
  /\ \A n \in Nibbles : Tries(entries)[p].refs[n] =
       IF Append(p, n) \in Places(DOMAIN entries) THEN RefTo(Tries(entries)[Append(p, n)]) ELSE NoRef

LEMMA NodeIs ==
  ASSUME NEW entries, AreKeys(DOMAIN entries), NEW p \in Places(DOMAIN entries)
  PROVE  LET path == Shared(DOMAIN entries, p)
         IN  LeafAt(entries, p, path) \/ ExtensionAt(entries, p, path) \/ BranchAt(entries, p)
<1> DEFINE keys == DOMAIN entries
           T == Tries(entries)
           path == Shared(keys, p)
<1>1. T[p] = NodeAt(entries, p, T)
  BY TriesAre DEF AreNodes
<1>2. p \o path \in Places(keys) /\ \A k \in keys : KeysUnder(keys, p) = {k} => p \o path = k
  BY PlaceIs
<1> HIDE DEF T, path
<1>3. CASE \E k \in keys : KeysUnder(keys, p) = {k}
  <2>1. T[p] = LeafNode(path, entries[p \o path])
    BY <1>1, <1>3 DEF NodeAt, path
  <2> QED BY <1>2, <1>3, <2>1 DEF LeafAt, T, path
<1>4. CASE ~(\E k \in keys : KeysUnder(keys, p) = {k}) /\ path # <<>>
  <2>1. T[p] = Extension(path, RefTo(T[p \o path]))
    BY <1>1, <1>4 DEF NodeAt, path
  <2> QED BY <1>2, <1>4, <2>1 DEF ExtensionAt, T, path
<1>5. CASE ~(\E k \in keys : KeysUnder(keys, p) = {k}) /\ path = <<>>
  <2>1. T[p] = Branch([n \in Nibbles |-> IF Append(p, n) \in Places(keys) THEN RefTo(T[Append(p, n)]) ELSE NoRef],
                      EmptyBytes)
    BY <1>1, <1>5 DEF NodeAt, path
  <2>2. p \notin keys
    <3>1. SUFFICES ASSUME p \in keys PROVE KeysUnder(keys, p) = {p}
      BY <1>5
    <3>2. \A k \in keys : k \in Key /\ Len(k) = Len(p)
      BY <3>1 DEF AreKeys, Key
    <3>3. p \in Key
      BY <3>1, <3>2
    <3>4. \A k \in keys : IsPrefix(p, k) <=> k = p
      BY <3>2, <3>3, PrefixOrder
    <3> QED BY <3>1, <3>4 DEF KeysUnder
  <2>3. /\ T[p].type = "branch" /\ T[p].value = EmptyBytes
        /\ \A n \in Nibbles : T[p].refs[n] =
             IF Append(p, n) \in Places(keys) THEN RefTo(T[Append(p, n)]) ELSE NoRef
    BY <2>1 DEF Branch
  <2> QED BY <2>2, <2>3 DEF BranchAt, T
<1> QED BY <1>3, <1>4, <1>5 DEF path

\* One nibble of a key, and a path on it, lead to a longer prefix.
LEMMA OneMore ==
  ASSUME NEW p \in Key, NEW key \in Key, IsPrefix(p, key), From(key, Len(p)) # <<>>
  PROVE  LET n == From(key, Len(p))[1]
             q == Append(p, n)
         IN  /\ n \in Nibbles /\ q \in Key /\ IsPrefix(q, key) /\ Len(q) = Len(p) + 1
             /\ From(From(key, Len(p)), 1) = From(key, Len(q))
<1> DEFINE rest == From(key, Len(p))
<1>1. Len(p) \in Nat /\ Len(key) \in Nat /\ Len(p) <= Len(key) /\ \A i \in 1 .. Len(p) : p[i] = key[i]
  BY PrefixIs, PrefixOrder
<1>2. rest \in Key /\ Len(rest) = Len(key) - Len(p) /\ \A i \in 1 .. Len(key) - Len(p) : rest[i] = key[Len(p) + i]
  BY <1>1, FromIs
<1>3. Len(rest) # 0
  <2> HIDE DEF rest
  <2> QED BY <1>2, EmptySeq DEF Key, rest
<1>4. 1 \in 1 .. Len(key) - Len(p) /\ Len(p) + 1 \in 1 .. Len(key)
  BY <1>1, <1>2, <1>3
<1> DEFINE n == rest[1]
           q == Append(p, n)
<1>5. n = key[Len(p) + 1] /\ n \in Nibbles
  BY <1>2, <1>4 DEF Key
<1> HIDE DEF n
<1>6. q \in Key /\ Len(q) = Len(p) + 1 /\ \A i \in 1 .. Len(p) + 1 : q[i] = IF i <= Len(p) THEN p[i] ELSE n
  BY <1>1, <1>5, AppendProperties DEF Key
<1> HIDE DEF q
<1>7. IsPrefix(q, key)
  <2>1. ASSUME NEW i \in 1 .. Len(q) PROVE q[i] = key[i]
    <3>1. CASE i <= Len(p)
      BY <1>1, <1>6, <3>1
    <3>2. CASE ~(i <= Len(p))
      <4>1. i = Len(p) + 1
        BY <1>1, <1>6, <3>2
      <4> QED BY <1>1, <1>5, <1>6, <3>2, <4>1
    <3> QED BY <3>1, <3>2
  <2>2. Len(q) <= Len(key)
    BY <1>4, <1>6
  <2> QED BY <1>6, <2>1, <2>2, PrefixIs
<1>8. From(rest, 1) = From(key, Len(p) + 1)
  <2>1. Len(p) \in 0 .. Len(key) /\ 1 \in 0 .. Len(key) - Len(p)
    BY <1>1, <1>4
  <2> QED BY <2>1, RestOfRest
<1> QED BY <1>5, <1>6, <1>7, <1>8 DEF n, q

LEMMA PathOn ==
  ASSUME NEW keys, AreKeys(keys), NEW p \in Places(keys), NEW key \in Key, IsPrefix(p, key)
  PROVE  LET path == Shared(keys, p)
             rest == From(key, Len(p))
             q == p \o path
         IN  /\ IsPrefix(path, rest) <=> IsPrefix(q, key)
             /\ IsPrefix(q, key) => From(rest, Len(path)) = From(key, Len(q))
             /\ IsPrefix(q, key) /\ Len(path) = Len(rest) => q = key
<1> DEFINE path == Shared(keys, p)
           rest == From(key, Len(p))
           q == p \o path
<1>1. /\ path \in Key /\ q \in Key /\ IsPrefix(p, q) /\ path = From(q, Len(p)) /\ Len(q) = Len(p) + Len(path)
      /\ p \in Key
  BY PlaceIs, KeysAtPlace
<1> HIDE DEF q, path
<1>2. IsPrefix(path, rest) <=> IsPrefix(q, key)
  BY <1>1, PathOnKey
<1>3. Len(rest) = Len(key) - Len(p) /\ Len(p) \in Nat /\ Len(key) \in Nat /\ Len(path) \in Nat /\ Len(p) <= Len(key)
  BY <1>1, RestOfKey, PrefixIs, PrefixOrder
<1>4. ASSUME IsPrefix(q, key) PROVE From(rest, Len(path)) = From(key, Len(q))
  <2>1. Len(q) <= Len(key)
    BY <1>1, <1>4, PrefixIs
  <2>2. Len(p) \in 0 .. Len(key) /\ Len(path) \in 0 .. Len(key) - Len(p)
    BY <1>1, <1>3, <2>1
  <2> QED BY <1>1, <2>2, RestOfRest
<1>5. ASSUME IsPrefix(q, key), Len(path) = Len(rest) PROVE q = key
  <2>1. Len(q) = Len(key)
    BY <1>1, <1>3, <1>5
  <2> QED BY <1>1, <1>5, <2>1, PrefixOrder
<1> QED BY <1>2, <1>4, <1>5 DEF q, path

-----------------------------------------------------------------------------
(* The walk: sound *)

Holds(entries, key, value) == key \in DOMAIN entries /\ entries[key] = value

\* A turn of the loop at a place refuses, accepts what the trie holds (or that
\* it holds nothing), or goes on to a longer place of the key.
Sound(entries, key, value, at) ==
  \/ at.goes = "refused"
  \/ at.goes = "accepted" /\ (value = EmptyBytes \/ Holds(entries, key, value))
  \/ \E q \in Places(DOMAIN entries) : IsPrefix(q, key) /\ at = AtNode(entries, q, key)

LEMMA Answers ==
  ASSUME NEW entries, NEW key, NEW value, NEW actual,
         actual = EmptyBytes \/ Holds(entries, key, actual)
  PROVE  Sound(entries, key, value, CheckValue(actual, value))
BY DEF Sound, CheckValue, Returns, Holds

LEMMA References ==
  /\ \A node : RefTo(node) # NoRef /\ RefTo(node).node = node
  /\ \A node : AsHash(RefTo(node)) # NoRef <=> RefTo(node).is = "hash"
  /\ \A node : RefTo(node).is = "hash" => RefTo(node) = HashRef(node)
  /\ AsHash(NoRef) = NoRef
  /\ \A a, b : HashRef(a) = HashRef(b) => a = b
<1>1. \A node : RefTo(node) = Inline(node) \/ RefTo(node) = HashRef(node)
  BY DEF RefTo
<1>2. \A node : Inline(node).is = "inline" /\ Inline(node).node = node
  BY DEF Inline
<1>3. \A node : HashRef(node).is = "hash" /\ HashRef(node).node = node
  BY DEF HashRef
<1>4. NoRef.is = "none"
  BY DEF NoRef
<1> QED BY <1>1, <1>2, <1>3, <1>4 DEF AsHash

LEMMA SoundTurn ==
  ASSUME NEW entries, AreKeys(DOMAIN entries), NEW key \in Key, NEW value, NEW node,
         NEW p \in Places(DOMAIN entries), IsPrefix(p, key)
  PROVE  Sound(entries, key, value, ReadNode(AtNode(entries, p, key), node, value))
<1> DEFINE keys == DOMAIN entries
           T == Tries(entries)
           at == AtNode(entries, p, key)
           rest == From(key, Len(p))
           path == Shared(keys, p)
           turn == ReadNode(at, node, value)
<1>1. at.expected = HashRef(T[p]) /\ at.rest = rest
  BY DEF AtNode, Expects
<1>2. CASE at.expected # HashRef(node) \/ node.type = "empty"
  <2>1. turn = Returns(FALSE)
    BY <1>2 DEF ReadNode
  <2> QED BY <2>1 DEF Sound, Returns
<1>3. CASE at.expected = HashRef(node) /\ node.type # "empty"
  <2>1. node = T[p]
    BY <1>1, <1>3, References
  <2>2. p \in Key /\ rest \in Key
    BY KeysAtPlace, RestOfKey
  <2>3. CASE BranchAt(entries, p)
    <3>1. /\ node.type = "branch" /\ node.value = EmptyBytes
          /\ \A n \in Nibbles : node.refs[n] = IF Append(p, n) \in Places(keys) THEN RefTo(T[Append(p, n)]) ELSE NoRef
      BY <2>1, <2>3 DEF BranchAt
    <3>2. CASE rest = <<>>
      <4>1. turn = CheckValue(EmptyBytes, value)
        BY <1>1, <1>3, <3>1, <3>2 DEF ReadNode
      <4> QED BY <4>1, Answers
    <3>3. CASE rest # <<>>
      <4> DEFINE n == rest[1]
                 q == Append(p, n)
      <4>1. n \in Nibbles /\ IsPrefix(q, key) /\ From(rest, 1) = From(key, Len(q))
        BY <2>2, <3>3, OneMore
      <4>2. turn = FollowBranch(node.refs[n], rest, value)
        BY <1>1, <1>3, <3>1, <3>3 DEF ReadNode
      <4>3. CASE AsHash(node.refs[n]) = NoRef
        <5>1. turn = CheckValue(EmptyBytes, value)
          BY <4>2, <4>3 DEF FollowBranch
        <5> QED BY <5>1, Answers
      <4>4. CASE AsHash(node.refs[n]) # NoRef
        <5>1. q \in Places(keys) /\ node.refs[n] = HashRef(T[q])
          BY <3>1, <4>1, <4>4, References
        <5>2. turn = Expects(HashRef(T[q]), From(key, Len(q)))
          BY <4>1, <4>2, <4>4, <5>1 DEF FollowBranch
        <5> QED BY <4>1, <5>1, <5>2 DEF Sound, AtNode
      <4> QED BY <4>3, <4>4
    <3> QED BY <3>2, <3>3
  <2> DEFINE q == p \o path
  <2>4. /\ IsPrefix(path, rest) <=> IsPrefix(q, key)
        /\ IsPrefix(q, key) => From(rest, Len(path)) = From(key, Len(q))
        /\ IsPrefix(q, key) /\ Len(path) = Len(rest) => q = key
    BY PathOn
  <2>5. CASE ExtensionAt(entries, p, path)
    <3>1. node.type = "extension" /\ node.path = path /\ node.ref = RefTo(T[q]) /\ q \in Places(keys)
      BY <2>1, <2>5 DEF ExtensionAt, Extension
    <3>2. CASE ~IsPrefix(path, rest)
      <4>1. turn = CheckValue(EmptyBytes, value)
        BY <1>1, <1>3, <3>1, <3>2 DEF ReadNode, OnPath
      <4> QED BY <4>1, Answers
    <3>3. CASE IsPrefix(path, rest)
      <4>1. turn = FollowExtension(node, rest)
        BY <1>1, <1>3, <3>1, <3>3 DEF ReadNode, OnPath
      <4>2. CASE AsHash(node.ref) = NoRef
        <5>1. turn = Returns(FALSE)
          BY <4>1, <4>2 DEF FollowExtension
        <5> QED BY <5>1 DEF Sound, Returns
      <4>3. CASE AsHash(node.ref) # NoRef
        <5>1. node.ref = HashRef(T[q])
          BY <3>1, <4>3, References
        <5>2. turn = Expects(HashRef(T[q]), From(key, Len(q)))
          BY <2>4, <3>1, <3>3, <4>1, <4>3, <5>1 DEF FollowExtension
        <5> QED BY <2>4, <3>1, <3>3, <5>2 DEF Sound, AtNode
      <4> QED BY <4>2, <4>3
    <3> QED BY <3>2, <3>3
  <2>6. CASE LeafAt(entries, p, path)
    <3>1. node.type = "leaf" /\ node.path = path /\ node.value = entries[q] /\ q \in keys
      BY <2>1, <2>6 DEF LeafAt, LeafNode
    <3>2. CASE ~IsPrefix(path, rest)
      <4>1. turn = CheckValue(EmptyBytes, value)
        BY <1>1, <1>3, <3>1, <3>2 DEF ReadNode, OnPath
      <4> QED BY <4>1, Answers
    <3>3. CASE IsPrefix(path, rest)
      <4>1. turn = CheckValue(IF Len(path) = Len(rest) THEN node.value ELSE EmptyBytes, value)
        BY <1>1, <1>3, <3>1, <3>3 DEF ReadNode, OnPath
      <4>2. CASE Len(path) = Len(rest)
        <5>1. q = key
          BY <2>4, <3>3, <4>2
        <5>2. Holds(entries, key, node.value)
          BY <3>1, <5>1 DEF Holds
        <5> QED BY <4>1, <4>2, <5>2, Answers
      <4>3. CASE Len(path) # Len(rest)
        BY <4>1, <4>3, Answers
      <4> QED BY <4>2, <4>3
    <3> QED BY <3>2, <3>3
  <2> QED BY <2>3, <2>5, <2>6, NodeIs
<1> QED BY <1>2, <1>3

\* The loop of VerifyMptProof over the first n nodes.
Turn(before, node, value) == IF before.goes # "on" THEN before ELSE ReadNode(before, node, value)

LoopSteps(root, key, value, nodes, n, f) ==
  f = [i \in 0 .. n |-> IF i = 0 THEN Expects(HashRef(root), key) ELSE Turn(f[i - 1], nodes[i], value)]

LEMMA LoopExists ==
  ASSUME NEW root, NEW key, NEW value, NEW nodes, NEW n \in Nat
  PROVE  \E f : LoopSteps(root, key, value, nodes, n, f)
<1> DEFINE Has(i) == \E f : LoopSteps(root, key, value, nodes, i, f)
           Bad == {i \in Nat : ~Has(i)}
           first == Expects(HashRef(root), key)
<1>1. CASE Bad = {}
  BY <1>1
<1>2. CASE Bad # {}
  <2>1. PICK i \in Bad : \A j \in Bad : i <= j
    <3>1. Bad \subseteq Nat
      OBVIOUS
    <3> HIDE DEF Bad
    <3> QED BY <1>2, <3>1, LeastNat
  <2>2. i \in Nat /\ ~Has(i)
    OBVIOUS
  <2>3. CASE i = 0
    <3> DEFINE f == [m \in 0 .. 0 |-> first]
    <3>1. f = [m \in 0 .. 0 |-> IF m = 0 THEN first ELSE Turn(f[m - 1], nodes[m], value)]
      <4>1. \A m \in 0 .. 0 : m = 0
        OBVIOUS
      <4> QED BY <4>1
    <3> HIDE DEF f
    <3> QED BY <3>1, <2>2, <2>3 DEF LoopSteps
  <2>4. CASE i # 0
    <3>1. i - 1 \in Nat /\ ~(i <= i - 1)
      BY <2>2, <2>4
    <3>2. Has(i - 1)
      BY <2>1, <3>1
    <3>3. PICK f : LoopSteps(root, key, value, nodes, i - 1, f)
      BY <3>2
    <3> HIDE DEF first
    <3>4. f = [m \in 0 .. i - 1 |-> IF m = 0 THEN first ELSE Turn(f[m - 1], nodes[m], value)]
      BY <3>3 DEF LoopSteps, first
    <3> DEFINE g == [m \in 0 .. i |-> IF m = 0 THEN first ELSE Turn(f[m - 1], nodes[m], value)]
    <3>5. \A m \in 0 .. i : m # 0 => m - 1 \in 0 .. i - 1 /\ m - 1 \in 0 .. i
      BY <2>2
    <3>6. ASSUME NEW m \in 0 .. i - 1 PROVE g[m] = f[m]
      <4>1. m \in 0 .. i
        BY <2>2
      <4>2. f[m] = IF m = 0 THEN first ELSE Turn(f[m - 1], nodes[m], value)
        BY <3>4
      <4> QED BY <4>1, <4>2
    <3>7. g = [m \in 0 .. i |-> IF m = 0 THEN first ELSE Turn(g[m - 1], nodes[m], value)]
      <4>1. \A m \in 0 .. i : m # 0 => f[m - 1] = g[m - 1]
        BY <3>5, <3>6
      <4> QED BY <4>1
    <3> HIDE DEF g
    <3> QED BY <3>7, <2>2 DEF LoopSteps, first
  <2> QED BY <2>3, <2>4
<1> QED BY <1>1, <1>2

LEMMA LoopIs ==
  ASSUME NEW root, NEW key, NEW value, NEW nodes, IsList(nodes)
  PROVE  /\ Len(nodes) \in Nat
         /\ \E f : /\ f[0] = Expects(HashRef(root), key)
                   /\ \A i \in 1 .. Len(nodes) : f[i] = Turn(f[i - 1], nodes[i], value)
                   /\ VerifyMptProof(root, key, value, nodes) <=> f[Len(nodes)].goes = "accepted"
<1> DEFINE n == Len(nodes)
           f == CHOOSE h : LoopSteps(root, key, value, nodes, n, h)
<1>1. n \in Nat
  BY LenProperties DEF IsList
<1>2. LoopSteps(root, key, value, nodes, n, f)
  BY <1>1, LoopExists
<1>3. VerifyMptProof(root, key, value, nodes) <=> f[n].goes = "accepted"
  BY DEF VerifyMptProof, LoopSteps, Turn
<1> HIDE DEF f
<1>4. f[0] = Expects(HashRef(root), key) /\ \A i \in 1 .. n : f[i] = Turn(f[i - 1], nodes[i], value)
  <2>1. f = [i \in 0 .. n |-> IF i = 0 THEN Expects(HashRef(root), key) ELSE Turn(f[i - 1], nodes[i], value)]
    BY <1>2 DEF LoopSteps
  <2>2. 0 \in 0 .. n /\ \A i \in 1 .. n : i \in 0 .. n /\ i # 0
    BY <1>1
  <2> HIDE DEF n
  <2>3. f[0] = Expects(HashRef(root), key)
    BY <2>1, <2>2
  <2>4. ASSUME NEW i \in 1 .. n PROVE f[i] = Turn(f[i - 1], nodes[i], value)
    BY <2>1, <2>2
  <2> QED BY <2>3, <2>4
<1> QED BY <1>1, <1>3, <1>4

LEMMA RootIsAPlace ==
  ASSUME NEW entries, AreKeys(DOMAIN entries), DOMAIN entries # {}, NEW key \in Key
  PROVE  /\ <<>> \in Places(DOMAIN entries) /\ IsPrefix(<<>>, key)
         /\ Expects(HashRef(Trie(entries)), key) = AtNode(entries, <<>>, key)
<1>1. PICK k \in DOMAIN entries : k \in Key
  BY DEF AreKeys, Key
<1>2. <<>> \in Key /\ IsPrefix(<<>>, k) /\ IsPrefix(<<>>, key)
  BY <1>1, PrefixOrder
<1>3. <<>> \in Places(DOMAIN entries)
  BY <1>1, <1>2, AreInPlace DEF AreKeys, Key
<1>4. From(key, Len(<<>>)) = key
  <2>1. <<>> \o From(key, Len(<<>>)) = key /\ From(key, Len(<<>>)) \in Key
    BY <1>2, RestOfKey
  <2> QED BY <2>1, ConcatEmptySeq DEF Key
<1> QED BY <1>2, <1>3, <1>4 DEF Trie, AtNode

\* A proof that is accepted shows what the trie holds at the key.
LEMMA AcceptedIsHeld ==
  ASSUME NEW entries, AreKeys(DOMAIN entries), NEW key \in Key, NEW value, value # EmptyBytes,
         NEW nodes, IsList(nodes), VerifyMptProof(Trie(entries), key, value, nodes)
  PROVE  Holds(entries, key, value)
<1> DEFINE n == Len(nodes)
<1>1. PICK f : /\ f[0] = Expects(HashRef(Trie(entries)), key)
               /\ \A i \in 1 .. n : f[i] = Turn(f[i - 1], nodes[i], value)
               /\ f[n].goes = "accepted"
  BY LoopIs
<1>2. n \in Nat
  BY LoopIs
<1>3. CASE DOMAIN entries # {}
  <2> DEFINE Good(i) == Sound(entries, key, value, f[i])
             Bad == {i \in 0 .. n : ~Good(i)}
  <2>1. CASE Bad = {}
    <3>1. n \in 0 .. n
      BY <1>2
    <3>2. Sound(entries, key, value, f[n])
      BY <2>1, <3>1
    <3>3. \A q : AtNode(entries, q, key).goes = "on"
      BY DEF AtNode, Expects
    <3> HIDE DEF n
    <3> QED BY <1>1, <3>2, <3>3 DEF Sound
  <2>2. CASE Bad # {}
    <3>1. PICK i \in Bad : \A j \in Bad : i <= j
      <4>1. Bad \subseteq Nat
        BY <1>2
      <4> HIDE DEF Bad
      <4> QED BY <2>2, <4>1, LeastNat
    <3>2. i \in 0 .. n /\ ~Good(i)
      OBVIOUS
    <3>3. i # 0
      <4>1. f[0] = AtNode(entries, <<>>, key) /\ <<>> \in Places(DOMAIN entries) /\ IsPrefix(<<>>, key)
        BY <1>1, <1>3, RootIsAPlace
      <4>2. Good(0)
        BY <4>1 DEF Sound
      <4> QED BY <3>2, <4>2
    <3>4. i - 1 \in 0 .. n /\ ~(i <= i - 1) /\ i \in 1 .. n
      BY <1>2, <3>2, <3>3
    <3>5. Good(i - 1)
      BY <3>1, <3>4
    <3>6. f[i] = Turn(f[i - 1], nodes[i], value)
      BY <1>1, <3>4
    <3>7. CASE f[i - 1].goes # "on"
      <4>1. f[i] = f[i - 1]
        BY <3>6, <3>7 DEF Turn
      <4> QED BY <3>2, <3>5, <4>1
    <3>8. CASE f[i - 1].goes = "on"
      <4>1. PICK q \in Places(DOMAIN entries) : IsPrefix(q, key) /\ f[i - 1] = AtNode(entries, q, key)
        BY <3>5, <3>8 DEF Sound
      <4>2. f[i] = ReadNode(AtNode(entries, q, key), nodes[i], value)
        BY <3>6, <3>8, <4>1 DEF Turn
      <4>3. Good(i)
        BY <4>1, <4>2, SoundTurn
      <4> QED BY <3>2, <4>3
    <3> QED BY <3>7, <3>8
  <2> QED BY <2>1, <2>2
<1>4. CASE DOMAIN entries = {}
  <2>1. f[0] = Expects(HashRef(EmptyNode), key)
    BY <1>1, <1>4 DEF Trie
  <2>2. n # 0
    BY <1>1, <2>1 DEF Expects
  <2>3. f[1] = Returns(FALSE)
    <3>1. f[1] = ReadNode(f[0], nodes[1], value)
      <4>1. 1 \in 1 .. n /\ 1 - 1 = 0
        BY <1>2, <2>2
      <4>2. f[1] = Turn(f[1 - 1], nodes[1], value)
        BY <1>1, <4>1
      <4> QED BY <2>1, <4>1, <4>2 DEF Turn, Expects
    <3>2. f[0].expected = HashRef(nodes[1]) => nodes[1].type = "empty"
      BY <2>1, References DEF Expects, EmptyNode
    <3> QED BY <3>1, <3>2 DEF ReadNode
  <2> DEFINE refused == Returns(FALSE)
  <2>4. f[1] = refused /\ refused.goes = "refused"
    BY <2>3 DEF Returns
  <2> HIDE DEF refused
  <2> DEFINE Bad == {i \in 1 .. n : f[i] # refused}
  <2>5. CASE Bad = {}
    <3>1. n \in 1 .. n
      BY <1>2, <2>2
    <3> QED BY <1>1, <2>5, <2>4, <3>1
  <2>6. CASE Bad # {}
    <3>1. PICK i \in Bad : \A j \in Bad : i <= j
      <4>1. Bad \subseteq 1 .. n /\ 1 .. n \subseteq Nat
        OBVIOUS
      <4>2. Bad \subseteq Nat
        BY <4>1
      <4> HIDE DEF Bad
      <4> QED BY <2>6, <4>2, LeastNat
    <3>2. i \in 1 .. n /\ f[i] # refused
      OBVIOUS
    <3>3. i # 1
      BY <2>4, <3>2
    <3>4. i \in 1 .. n
      OBVIOUS
    <3>5. i - 1 \in 1 .. n /\ ~(i <= i - 1)
      BY <1>2, <3>3, <3>4
    <3>6. f[i - 1] = refused
      BY <3>1, <3>5
    <3>7. f[i] = f[i - 1]
      BY <1>1, <2>4, <3>4, <3>6 DEF Turn
    <3> QED BY <3>2, <3>6, <3>7
  <2> QED BY <2>5, <2>6
<1> QED BY <1>3, <1>4

-----------------------------------------------------------------------------
(* The walk: honest proofs pass *)

\* A turn at a place of a key of the trie reads the key's value, or goes on to
\* where the way to the key goes on.
Goes(entries, key, p, q, next, turn) ==
  /\ IsPrefix(q, key) /\ Len(q) > Len(p)
  /\ next.ref = RefTo(Tries(entries)[q])
  /\ From(From(key, Len(p)), next.nibbles) = From(key, Len(q))
  /\ RefTo(Tries(entries)[q]).is = "hash" => turn = AtNode(entries, q, key)

LEMMA TurnOnTheWay ==
  ASSUME NEW entries, AreKeys(DOMAIN entries), NEW key \in DOMAIN entries, NEW value,
         NEW p \in Places(DOMAIN entries), IsPrefix(p, key)
  PROVE  LET node == Tries(entries)[p]
             next == Towards(node, From(key, Len(p)))
             turn == ReadNode(AtNode(entries, p, key), node, value)
         IN  \/ next.ref = NoRef /\ turn = CheckValue(entries[key], value)
             \/ \E q \in Places(DOMAIN entries) : Goes(entries, key, p, q, next, turn)
<1> DEFINE keys == DOMAIN entries
           T == Tries(entries)
           node == T[p]
           at == AtNode(entries, p, key)
           rest == From(key, Len(p))
           path == Shared(keys, p)
           next == Towards(node, rest)
           turn == ReadNode(at, node, value)
<1>1. at.expected = HashRef(node) /\ at.rest = rest
  BY DEF AtNode, Expects
<1>2. key \in Key /\ p \in Key /\ rest \in Key /\ keys \subseteq Key
  <2>1. key \in Key /\ p \in Key /\ keys \subseteq Key
    BY KeysAtPlace
  <2> QED BY <2>1, RestOfKey
<1>3. CASE BranchAt(entries, p)
  <2>1. /\ node.type = "branch" /\ p # key
        /\ \A n \in Nibbles : node.refs[n] = IF Append(p, n) \in Places(keys) THEN RefTo(T[Append(p, n)]) ELSE NoRef
    BY <1>3 DEF BranchAt
  <2>2. rest # <<>>
    <3>1. SUFFICES ASSUME rest = <<>> PROVE p = key
      BY <2>1
    <3>2. Len(p) = Len(key)
      <4>1. Len(rest) = Len(key) - Len(p) /\ Len(rest) = 0
        BY <1>2, <3>1, RestOfKey, EmptySeq
      <4> QED BY <1>2, <4>1, PrefixOrder
    <3> QED BY <1>2, <3>2, PrefixOrder
  <2> DEFINE n == rest[1]
             q == Append(p, n)
  <2>3. /\ n \in Nibbles /\ q \in Key /\ IsPrefix(q, key) /\ Len(q) = Len(p) + 1
        /\ From(rest, 1) = From(key, Len(q))
    BY <1>2, <2>2, OneMore
  <2>4. q \in Places(keys)
    BY <1>2, <2>3, AreInPlace
  <2>5. next = [ref |-> node.refs[n], nibbles |-> 1]
    BY <2>1, <2>2 DEF Towards
  <2>6. node.refs[n] = RefTo(T[q])
    BY <2>1, <2>3, <2>4
  <2>7. Len(q) > Len(p)
    BY <1>2, <2>3, PrefixOrder
  <2>8. turn = FollowBranch(node.refs[n], rest, value)
    BY <1>1, <2>1, <2>2 DEF ReadNode
  <2>9. ASSUME RefTo(T[q]).is = "hash" PROVE turn = AtNode(entries, q, key)
    BY <2>3, <2>6, <2>8, <2>9, References DEF FollowBranch, AtNode
  <2>10. next.ref = RefTo(T[q]) /\ From(rest, next.nibbles) = From(key, Len(q))
    BY <2>3, <2>5, <2>6
  <2>11. Goes(entries, key, p, q, next, turn)
    BY <2>3, <2>7, <2>9, <2>10 DEF Goes
  <2> QED BY <2>4, <2>11
<1> DEFINE r == p \o path
<1>4. /\ IsPrefix(path, rest) <=> IsPrefix(r, key)
      /\ IsPrefix(r, key) => From(rest, Len(path)) = From(key, Len(r))
      /\ IsPrefix(r, key)
      /\ path \in Key /\ r \in Key /\ Len(r) = Len(p) + Len(path)
  BY <1>2, PathOn, PlaceIs
<1>5. CASE ExtensionAt(entries, p, path)
  <2>1. node.type = "extension" /\ node.path = path /\ node.ref = RefTo(T[r]) /\ r \in Places(keys) /\ path # <<>>
    BY <1>5 DEF ExtensionAt, Extension
  <2>2. next = [ref |-> node.ref, nibbles |-> Len(path)]
    BY <1>4, <2>1 DEF Towards
  <2>3. Len(r) > Len(p)
    <3> HIDE DEF path, r
    <3>1. Len(path) # 0
      BY <1>4, <2>1, EmptySeq DEF Key
    <3> QED BY <1>2, <1>4, <3>1, PrefixOrder
  <2>4. turn = FollowExtension(node, rest)
    BY <1>1, <1>4, <2>1 DEF ReadNode, OnPath
  <2>5. ASSUME RefTo(T[r]).is = "hash" PROVE turn = AtNode(entries, r, key)
    BY <1>4, <2>1, <2>4, <2>5, References DEF FollowExtension, AtNode
  <2>6. next.ref = RefTo(T[r]) /\ From(rest, next.nibbles) = From(key, Len(r))
    BY <1>4, <2>1, <2>2
  <2>7. Goes(entries, key, p, r, next, turn)
    BY <1>4, <2>3, <2>5, <2>6 DEF Goes
  <2> QED BY <2>1, <2>7
<1>6. CASE LeafAt(entries, p, path)
  <2>1. node.type = "leaf" /\ node.path = path /\ node.value = entries[r] /\ r \in keys
    BY <1>6 DEF LeafAt, LeafNode
  <2>2. next.ref = NoRef
    BY <2>1 DEF Towards
  <2>3. r = key
    <3>1. Len(r) = Len(key)
      BY <2>1 DEF AreKeys
    <3> QED BY <1>2, <1>4, <3>1, PrefixOrder
  <2>4. Len(path) = Len(rest)
    <3>1. Len(rest) = Len(key) - Len(p)
      BY <1>2, RestOfKey
    <3>2. Len(key) = Len(p) + Len(path)
      BY <1>4, <2>3
    <3> HIDE DEF path, rest
    <3> QED BY <1>2, <1>4, <3>1, <3>2, PrefixOrder
  <2>5. turn = CheckValue(node.value, value)
    BY <1>1, <1>4, <2>1, <2>4 DEF ReadNode, OnPath
  <2> QED BY <2>1, <2>2, <2>3, <2>5
<1> QED BY <1>3, <1>5, <1>6, NodeIs

\* One step of WayTo.
OneOn(way) ==
  LET next == Towards(Last(way.nodes), way.rest)
  IN  IF next.ref = NoRef THEN way
      ELSE [nodes |-> Append(way.nodes, next.ref.node), rest |-> From(way.rest, next.nibbles)]

WaySteps(root, key, n, f) ==
  f = [i \in 0 .. n |-> IF i = 0 THEN [nodes |-> <<root>>, rest |-> key] ELSE OneOn(f[i - 1])]

LEMMA WayExists ==
  ASSUME NEW root, NEW key, NEW n \in Nat
  PROVE  \E f : WaySteps(root, key, n, f)
<1> DEFINE Has(i) == \E f : WaySteps(root, key, i, f)
           Bad == {i \in Nat : ~Has(i)}
           first == [nodes |-> <<root>>, rest |-> key]
<1>1. CASE Bad = {}
  BY <1>1
<1>2. CASE Bad # {}
  <2>1. PICK i \in Bad : \A j \in Bad : i <= j
    <3>1. Bad \subseteq Nat
      OBVIOUS
    <3> HIDE DEF Bad
    <3> QED BY <1>2, <3>1, LeastNat
  <2>2. i \in Nat /\ ~Has(i)
    OBVIOUS
  <2>3. CASE i = 0
    <3> DEFINE f == [m \in 0 .. 0 |-> first]
    <3>1. f = [m \in 0 .. 0 |-> IF m = 0 THEN first ELSE OneOn(f[m - 1])]
      <4>1. \A m \in 0 .. 0 : m = 0
        OBVIOUS
      <4> QED BY <4>1
    <3> HIDE DEF f
    <3> QED BY <3>1, <2>2, <2>3 DEF WaySteps
  <2>4. CASE i # 0
    <3>1. i - 1 \in Nat /\ ~(i <= i - 1)
      BY <2>2, <2>4
    <3>2. Has(i - 1)
      BY <2>1, <3>1
    <3>3. PICK f : WaySteps(root, key, i - 1, f)
      BY <3>2
    <3> HIDE DEF first
    <3>4. f = [m \in 0 .. i - 1 |-> IF m = 0 THEN first ELSE OneOn(f[m - 1])]
      BY <3>3 DEF WaySteps, first
    <3> DEFINE g == [m \in 0 .. i |-> IF m = 0 THEN first ELSE OneOn(f[m - 1])]
    <3>5. \A m \in 0 .. i : m # 0 => m - 1 \in 0 .. i - 1 /\ m - 1 \in 0 .. i
      BY <2>2
    <3>6. ASSUME NEW m \in 0 .. i - 1 PROVE g[m] = f[m]
      <4>1. m \in 0 .. i
        BY <2>2
      <4>2. f[m] = IF m = 0 THEN first ELSE OneOn(f[m - 1])
        BY <3>4
      <4> QED BY <4>1, <4>2
    <3>7. g = [m \in 0 .. i |-> IF m = 0 THEN first ELSE OneOn(g[m - 1])]
      <4>1. \A m \in 0 .. i : m # 0 => f[m - 1] = g[m - 1]
        BY <3>5, <3>6
      <4> QED BY <4>1
    <3> HIDE DEF g
    <3> QED BY <3>7, <2>2 DEF WaySteps, first
  <2> QED BY <2>3, <2>4
<1> QED BY <1>1, <1>2

LEMMA WayIs ==
  ASSUME NEW root, NEW key \in Key
  PROVE  /\ Len(key) \in Nat
         /\ \E f : /\ f[0] = [nodes |-> <<root>>, rest |-> key]
                   /\ \A i \in 1 .. Len(key) : f[i] = OneOn(f[i - 1])
                   /\ WayTo(root, key) = f[Len(key)].nodes
<1> DEFINE n == Len(key)
           f == CHOOSE h : WaySteps(root, key, n, h)
<1>1. n \in Nat
  BY PrefixOrder
<1>2. WaySteps(root, key, n, f)
  BY <1>1, WayExists
<1>3. WayTo(root, key) = f[n].nodes
  BY DEF WayTo, WaySteps, OneOn
<1> HIDE DEF f
<1>4. f[0] = [nodes |-> <<root>>, rest |-> key] /\ \A i \in 1 .. n : f[i] = OneOn(f[i - 1])
  <2>1. f = [i \in 0 .. n |-> IF i = 0 THEN [nodes |-> <<root>>, rest |-> key] ELSE OneOn(f[i - 1])]
    BY <1>2 DEF WaySteps
  <2>2. 0 \in 0 .. n /\ \A i \in 1 .. n : i \in 0 .. n /\ i # 0
    BY <1>1
  <2> HIDE DEF n
  <2>3. f[0] = [nodes |-> <<root>>, rest |-> key]
    BY <2>1, <2>2
  <2>4. ASSUME NEW i \in 1 .. n PROVE f[i] = OneOn(f[i - 1])
    BY <2>1, <2>2
  <2> QED BY <2>3, <2>4
<1> QED BY <1>1, <1>3, <1>4

TrieNodes(entries) == {Tries(entries)[p] : p \in Places(DOMAIN entries)}

\* Where the way to a key of the trie is after i steps: at its leaf, or i
\* nibbles on.
WayAt(entries, key, way, p, i) ==
  /\ p \in Places(DOMAIN entries) /\ IsPrefix(p, key)
  /\ Last(way.nodes) = Tries(entries)[p] /\ way.rest = From(key, Len(p))
  /\ Towards(Tries(entries)[p], From(key, Len(p))).ref = NoRef \/ Len(p) >= i

OnWay(entries, key, way, i) ==
  /\ way.nodes \in Seq(TrieNodes(entries)) /\ Len(way.nodes) > 0
  /\ \E p : WayAt(entries, key, way, p, i)

\* A step of the way stays where it is, or goes on to a longer place.
Continues(way, next) == next = way \/ \E node : next.nodes = Append(way.nodes, node)

LEMMA WayStep ==
  ASSUME NEW entries, AreKeys(DOMAIN entries), NEW key \in DOMAIN entries, NEW i \in Nat, NEW way,
         OnWay(entries, key, way, i)
  PROVE  /\ OnWay(entries, key, OneOn(way), i + 1)
         /\ Continues(way, OneOn(way))
<1> DEFINE T == Tries(entries)
           N == TrieNodes(entries)
<1>1. PICK p : WayAt(entries, key, way, p, i)
  BY DEF OnWay
<1> DEFINE rest == From(key, Len(p))
           next == Towards(T[p], rest)
<1>2. /\ p \in Places(DOMAIN entries) /\ IsPrefix(p, key) /\ Last(way.nodes) = T[p] /\ way.rest = rest
      /\ next.ref = NoRef \/ Len(p) >= i
  BY <1>1 DEF WayAt
<1>3. /\ next.ref = NoRef
      \/ \E q \in Places(DOMAIN entries) :
           Goes(entries, key, p, q, next, ReadNode(AtNode(entries, p, key), T[p], EmptyBytes))
  BY <1>2, TurnOnTheWay
<1>4. OneOn(way) = IF next.ref = NoRef THEN way
                   ELSE [nodes |-> Append(way.nodes, next.ref.node), rest |-> From(rest, next.nibbles)]
  BY <1>2 DEF OneOn
<1>5. CASE next.ref = NoRef
  <2>1. OneOn(way) = way
    BY <1>4, <1>5
  <2>2. WayAt(entries, key, way, p, i + 1)
    BY <1>2, <1>5 DEF WayAt
  <2> QED BY <2>1, <2>2 DEF OnWay, Continues
<1>6. CASE next.ref # NoRef
  <2>1. PICK q \in Places(DOMAIN entries) :
             Goes(entries, key, p, q, next, ReadNode(AtNode(entries, p, key), T[p], EmptyBytes))
    BY <1>3, <1>6
  <2>2. /\ IsPrefix(q, key) /\ Len(q) > Len(p) /\ next.ref.node = T[q]
        /\ From(rest, next.nibbles) = From(key, Len(q))
    BY <2>1, References DEF Goes
  <2>3. OneOn(way).nodes = Append(way.nodes, T[q]) /\ OneOn(way).rest = From(key, Len(q))
    BY <1>4, <1>6, <2>2
  <2>4. way.nodes \in Seq(N) /\ T[q] \in N
    BY DEF OnWay, TrieNodes
  <2>5. /\ OneOn(way).nodes \in Seq(N) /\ Len(OneOn(way).nodes) = Len(way.nodes) + 1
        /\ OneOn(way).nodes[Len(way.nodes) + 1] = T[q] /\ Len(way.nodes) \in Nat
    <3> DEFINE s == way.nodes
               t == T[q]
    <3>1. s \in Seq(N) /\ t \in N
      BY <2>4
    <3> HIDE DEF s, t, N
    <3>2. Append(s, t) \in Seq(N) /\ Len(Append(s, t)) = Len(s) + 1 /\ Append(s, t)[Len(s) + 1] = t /\ Len(s) \in Nat
      BY <3>1, AppendProperties, LenProperties
    <3> QED BY <2>3, <3>2 DEF s, t
  <2>6. Last(OneOn(way).nodes) = T[q]
    BY <2>5 DEF Last
  <2>7. CASE Len(p) >= i
    <3>1. Len(q) >= i + 1
      BY <2>2, <2>7, <1>2, KeysAtPlace, PrefixOrder
    <3>2. WayAt(entries, key, OneOn(way), q, i + 1)
      BY <2>2, <2>3, <2>6, <3>1 DEF WayAt
    <3>3. Len(OneOn(way).nodes) > 0
      BY <2>5
    <3> QED BY <2>3, <2>5, <3>2, <3>3 DEF OnWay, Continues
  <2> QED BY <1>2, <1>6, <2>7
<1> QED BY <1>5, <1>6

\* The nodes of a way are the first of the way further on.
Begins(s, t) == Len(s) <= Len(t) /\ \A j \in 1 .. Len(s) : s[j] = t[j]

LEMMA BeginsInTurn ==
  ASSUME NEW a, NEW b, NEW c, Len(a) \in Nat, Len(b) \in Nat, Len(c) \in Nat, Begins(a, b), Begins(b, c)
  PROVE  Begins(a, c)
BY DEF Begins

LEMMA WayLeads ==
  ASSUME NEW entries, AreKeys(DOMAIN entries), NEW key \in DOMAIN entries, NEW n \in Nat, NEW f,
         f[0] = [nodes |-> <<Trie(entries)>>, rest |-> key],
         \A i \in 1 .. n : f[i] = OneOn(f[i - 1])
  PROVE  /\ \A i \in 0 .. n : OnWay(entries, key, f[i], i)
         /\ \A i \in 0 .. n : Begins(f[i].nodes, f[n].nodes)
<1> DEFINE N == TrieNodes(entries)
<1>1. OnWay(entries, key, f[0], 0)
  <2> DEFINE root == Trie(entries)
             T == Tries(entries)
  <2>1. key \in Key
    BY DEF AreKeys, Key
  <2>2. /\ <<>> \in Places(DOMAIN entries) /\ IsPrefix(<<>>, key)
        /\ Expects(HashRef(root), key) = AtNode(entries, <<>>, key)
    BY <2>1, RootIsAPlace
  <2>3. root = T[<<>>] /\ key = From(key, Len(<<>>))
    BY <2>2, References DEF AtNode, Expects
  <2>4. root \in N
    BY <2>2, <2>3 DEF TrieNodes
  <2> HIDE DEF root, N
  <2>5. <<root>> \in Seq(N) /\ Len(<<root>>) = 1 /\ <<root>>[1] = root
    BY <2>4
  <2>6. f[0].nodes = <<root>> /\ f[0].rest = key
    BY DEF root
  <2>7. Len(<<>>) >= 0
    BY EmptySeq
  <2>8. WayAt(entries, key, f[0], <<>>, 0)
    BY <2>2, <2>3, <2>5, <2>6, <2>7 DEF WayAt, Last
  <2>9. f[0].nodes \in Seq(N) /\ Len(f[0].nodes) > 0
    BY <2>5, <2>6
  <2> QED BY <2>8, <2>9 DEF OnWay, N
<1>2. \A i \in 0 .. n : OnWay(entries, key, f[i], i)
  <2> DEFINE Bad == {i \in 0 .. n : ~OnWay(entries, key, f[i], i)}
  <2>1. SUFFICES ASSUME Bad # {} PROVE FALSE
    OBVIOUS
  <2>2. PICK i \in Bad : \A j \in Bad : i <= j
    <3>1. Bad \subseteq Nat
      OBVIOUS
    <3> HIDE DEF Bad
    <3> QED BY <2>1, <3>1, LeastNat
  <2>3. i \in 0 .. n /\ ~OnWay(entries, key, f[i], i) /\ i # 0
    BY <1>1
  <2>4. i - 1 \in 0 .. n /\ i - 1 \in Nat /\ ~(i <= i - 1) /\ i \in 1 .. n /\ (i - 1) + 1 = i
    BY <2>3
  <2>5. OnWay(entries, key, f[i - 1], i - 1)
    BY <2>2, <2>4
  <2>6. OnWay(entries, key, OneOn(f[i - 1]), (i - 1) + 1)
    BY <2>4, <2>5, WayStep
  <2> QED BY <2>3, <2>4, <2>6
<1>3. ASSUME NEW i \in 1 .. n
      PROVE  /\ f[i - 1].nodes \in Seq(N) /\ Len(f[i - 1].nodes) \in Nat
             /\ Begins(f[i - 1].nodes, f[i].nodes)
  <2>1. i - 1 \in 0 .. n /\ i - 1 \in Nat
    OBVIOUS
  <2>2. OnWay(entries, key, f[i - 1], i - 1) /\ f[i] = OneOn(f[i - 1])
    BY <1>2, <2>1
  <2>3. Continues(f[i - 1], OneOn(f[i - 1]))
    BY <2>1, <2>2, WayStep
  <2> DEFINE s == f[i - 1].nodes
  <2>4. s \in Seq(N)
    BY <2>2 DEF OnWay
  <2> HIDE DEF N
  <2>5. Len(s) \in Nat
    BY <2>4, LenProperties
  <2>6. CASE f[i] = f[i - 1]
    BY <2>4, <2>5, <2>6 DEF Begins
  <2>7. ASSUME NEW node, f[i].nodes = Append(s, node) PROVE Begins(s, f[i].nodes)
    <3> DEFINE M == N \cup {node}
    <3>1. s \in Seq(M) /\ node \in M
      BY <2>4
    <3> HIDE DEF s, M
    <3>2. Len(Append(s, node)) = Len(s) + 1 /\ \A j \in 1 .. Len(s) : Append(s, node)[j] = s[j]
      BY <2>5, <3>1, AppendProperties
    <3> QED BY <2>5, <2>7, <3>2 DEF Begins
  <2> QED BY <2>2, <2>3, <2>4, <2>5, <2>6, <2>7 DEF Continues
<1>4. \A i \in 0 .. n : Begins(f[i].nodes, f[n].nodes)
  <2> DEFINE Ends == {d \in 0 .. n : ~Begins(f[n - d].nodes, f[n].nodes)}
  <2>1. CASE Ends = {}
    <3>1. \A i \in 0 .. n : n - i \in 0 .. n /\ n - (n - i) = i
      OBVIOUS
    <3> QED BY <2>1, <3>1
  <2>2. CASE Ends # {}
    <3>1. PICK d \in Ends : \A e \in Ends : d <= e
      <4>1. Ends \subseteq Nat
        OBVIOUS
      <4> HIDE DEF Ends
      <4> QED BY <2>2, <4>1, LeastNat
    <3>2. d \in 0 .. n /\ ~Begins(f[n - d].nodes, f[n].nodes)
      OBVIOUS
    <3>3. OnWay(entries, key, f[n], n)
      BY <1>2
    <3>4. Len(f[n].nodes) \in Nat
      <4>1. f[n].nodes \in Seq(N)
        BY <3>3 DEF OnWay
      <4> HIDE DEF N
      <4> QED BY <4>1, LenProperties
    <3>5. Begins(f[n].nodes, f[n].nodes)
      BY <3>4 DEF Begins
    <3>6. d # 0
      BY <3>2, <3>5
    <3>7. d - 1 \in 0 .. n /\ ~(d <= d - 1) /\ n - d + 1 \in 1 .. n /\ n - (d - 1) = n - d + 1 /\ n - d + 1 - 1 = n - d
      BY <3>2, <3>6
    <3>8. Begins(f[n - d + 1].nodes, f[n].nodes)
      BY <3>1, <3>7
    <3>9. Begins(f[n - d].nodes, f[n - d + 1].nodes) /\ Len(f[n - d].nodes) \in Nat
      BY <1>3, <3>7
    <3>10. n - d + 1 \in 0 .. n
      BY <3>7
    <3>11. Len(f[n - d + 1].nodes) \in Nat
      <4>1. f[n - d + 1].nodes \in Seq(N)
        BY <1>2, <3>10 DEF OnWay
      <4> HIDE DEF N
      <4> QED BY <4>1, LenProperties
    <3>12. Begins(f[n - d].nodes, f[n].nodes)
      BY <3>4, <3>8, <3>9, <3>11, BeginsInTurn
    <3> QED BY <3>2, <3>12
  <2> QED BY <2>1, <2>2
<1> QED BY <1>2, <1>4

\* The nodes on the way to a key prove what the trie holds there, unless one of
\* them is held by the one before it.
LEMMA HonestIsAccepted ==
  ASSUME NEW entries, AreKeys(DOMAIN entries), NEW key \in DOMAIN entries,
         NEW nodes, IsList(nodes), nodes = WayTo(Trie(entries), key), ~HasInline(nodes)
  PROVE  VerifyMptProof(Trie(entries), key, entries[key], nodes)
<1> DEFINE T == Tries(entries)
           root == Trie(entries)
           value == entries[key]
           n == Len(key)
           m == Len(nodes)
<1>1. key \in Key /\ n \in Nat
  <2>1. key \in Key
    BY DEF AreKeys, Key
  <2> QED BY <2>1, PrefixOrder
<1>2. PICK f : /\ f[0] = [nodes |-> <<root>>, rest |-> key]
               /\ \A i \in 1 .. n : f[i] = OneOn(f[i - 1])
               /\ nodes = f[n].nodes
  BY <1>1, WayIs
<1>3. PICK g : /\ g[0] = Expects(HashRef(root), key)
               /\ \A i \in 1 .. m : g[i] = Turn(g[i - 1], nodes[i], value)
               /\ VerifyMptProof(root, key, value, nodes) <=> g[m].goes = "accepted"
  BY LoopIs
<1>4. m \in Nat
  BY LoopIs
<1>5. \A i \in 0 .. n : OnWay(entries, key, f[i], i) /\ Begins(f[i].nodes, nodes)
  BY <1>1, <1>2, WayLeads
<1>6. \A i \in 0 .. n : Len(f[i].nodes) \in 1 .. m
  <2>1. \A i \in 0 .. n : f[i].nodes \in Seq(TrieNodes(entries)) /\ Len(f[i].nodes) > 0 /\ Len(f[i].nodes) <= m
    BY <1>5 DEF OnWay, Begins
  <2>2. \A i \in 0 .. n : Len(f[i].nodes) \in Nat
    BY <2>1, LenProperties
  <2> QED BY <1>4, <2>1, <2>2
<1> DEFINE Reads(i) == g[Len(f[i].nodes) - 1] = Expects(HashRef(Last(f[i].nodes)), f[i].rest)
<1>7. ASSUME NEW i \in 0 .. n, Reads(i), NEW p, WayAt(entries, key, f[i], p, i)
      PROVE  /\ p \in Places(DOMAIN entries) /\ IsPrefix(p, key)
             /\ g[Len(f[i].nodes)] = ReadNode(AtNode(entries, p, key), T[p], value)
  <2> DEFINE j == Len(f[i].nodes)
  <2>1. /\ p \in Places(DOMAIN entries) /\ IsPrefix(p, key)
        /\ Last(f[i].nodes) = T[p] /\ f[i].rest = From(key, Len(p))
    BY <1>7 DEF WayAt
  <2>2. j \in 1 .. m
    BY <1>6
  <2>3. nodes[j] = T[p]
    <3>1. \A e \in 1 .. j : f[i].nodes[e] = nodes[e]
      BY <1>5 DEF Begins
    <3>2. j \in 1 .. j
      BY <1>4, <2>2
    <3> QED BY <2>1, <3>1, <3>2 DEF Last
  <2>4. g[j - 1] = AtNode(entries, p, key)
    BY <1>7, <2>1 DEF AtNode
  <2>5. g[j] = Turn(AtNode(entries, p, key), T[p], value)
    BY <1>3, <2>2, <2>3, <2>4
  <2> QED BY <2>1, <2>5 DEF Turn, AtNode, Expects
<1>8. \A i \in 0 .. n : Reads(i)
  <2> DEFINE Bad == {i \in 0 .. n : ~Reads(i)}
  <2>1. SUFFICES ASSUME Bad # {} PROVE FALSE
    OBVIOUS
  <2>2. PICK i \in Bad : \A j \in Bad : i <= j
    <3>1. Bad \subseteq Nat
      OBVIOUS
    <3> HIDE DEF Bad
    <3> QED BY <2>1, <3>1, LeastNat
  <2>3. i \in 0 .. n /\ ~Reads(i)
    OBVIOUS
  <2>4. i # 0
    <3>1. f[0].nodes = <<root>> /\ f[0].rest = key /\ Len(<<root>>) = 1 /\ <<root>>[1] = root
      BY <1>2
    <3>2. Reads(0)
      BY <1>3, <3>1 DEF Last
    <3> QED BY <2>3, <3>2
  <2>5. i - 1 \in 0 .. n /\ ~(i <= i - 1) /\ i \in 1 .. n
    BY <1>1, <2>3, <2>4
  <2>6. Reads(i - 1) /\ f[i] = OneOn(f[i - 1])
    BY <1>2, <2>2, <2>5
  <2>7. PICK p : WayAt(entries, key, f[i - 1], p, i - 1)
    BY <1>5, <2>5 DEF OnWay
  <2> DEFINE rest == From(key, Len(p))
             next == Towards(T[p], rest)
             turn == ReadNode(AtNode(entries, p, key), T[p], value)
             j == Len(f[i - 1].nodes)
  <2>8. p \in Places(DOMAIN entries) /\ IsPrefix(p, key) /\ g[j] = turn
    BY <1>7, <2>5, <2>6, <2>7
  <2>9. Last(f[i - 1].nodes) = T[p] /\ f[i - 1].rest = rest
    BY <2>7 DEF WayAt
  <2>10. f[i] = IF next.ref = NoRef THEN f[i - 1]
                ELSE [nodes |-> Append(f[i - 1].nodes, next.ref.node), rest |-> From(rest, next.nibbles)]
    BY <2>6, <2>9 DEF OneOn
  <2>11. CASE next.ref = NoRef
    BY <2>3, <2>6, <2>10, <2>11
  <2>12. CASE next.ref # NoRef
    <3>1. PICK q \in Places(DOMAIN entries) : Goes(entries, key, p, q, next, turn)
      BY <2>8, <2>12, TurnOnTheWay
    <3>2. /\ next.ref.node = T[q] /\ From(rest, next.nibbles) = From(key, Len(q))
          /\ RefTo(T[q]).is = "hash" => turn = AtNode(entries, q, key)
      BY <3>1, References DEF Goes
    <3>3. f[i].nodes = Append(f[i - 1].nodes, T[q]) /\ f[i].rest = From(key, Len(q))
      BY <2>10, <2>12, <3>2
    <3>4. f[i - 1].nodes \in Seq(TrieNodes(entries)) /\ T[q] \in TrieNodes(entries)
      BY <1>5, <2>5 DEF OnWay, TrieNodes
    <3>5. Len(f[i].nodes) = j + 1 /\ f[i].nodes[j + 1] = T[q] /\ j \in Nat
      <4> DEFINE s == f[i - 1].nodes
                 t == T[q]
                 N == TrieNodes(entries)
      <4>1. s \in Seq(N) /\ t \in N
        BY <3>4
      <4> HIDE DEF s, t, N
      <4>2. Len(Append(s, t)) = Len(s) + 1 /\ Append(s, t)[Len(s) + 1] = t /\ Len(s) \in Nat
        BY <4>1, AppendProperties, LenProperties
      <4> QED BY <3>3, <4>2 DEF s, t
    <3>6. j + 1 \in 1 .. m /\ nodes[j + 1] = T[q]
      <4>1. Begins(f[i].nodes, nodes) /\ Len(f[i].nodes) \in 1 .. m
        BY <1>5, <1>6, <2>5
      <4> QED BY <3>5, <4>1, SMTT(30) DEF Begins
    <3>7. j > 0
      BY <1>6, <2>5
    <3>8. RefTo(T[q]).is = "hash"
      <4>1. DOMAIN nodes = 1 .. m
        BY LenProperties DEF IsList
      <4>2. RefTo(nodes[j + 1]).is # "inline"
        BY <3>5, <3>6, <3>7, <4>1 DEF HasInline
      <4> QED BY <3>6, <4>2 DEF RefTo, Inline, HashRef
    <3>9. g[j] = Expects(HashRef(T[q]), From(key, Len(q)))
      BY <2>8, <3>2, <3>8 DEF AtNode
    <3>10. Last(f[i].nodes) = T[q] /\ Len(f[i].nodes) - 1 = j
      BY <3>5 DEF Last
    <3>11. Reads(i)
      BY <3>3, <3>9, <3>10
    <3> QED BY <2>3, <3>11
  <2> QED BY <2>11, <2>12
<1>9. n \in 0 .. n
  BY <1>1
<1>10. PICK p : WayAt(entries, key, f[n], p, n)
  BY <1>5, <1>9 DEF OnWay
<1> DEFINE next == Towards(T[p], From(key, Len(p)))
           turn == ReadNode(AtNode(entries, p, key), T[p], value)
<1>11. p \in Places(DOMAIN entries) /\ IsPrefix(p, key) /\ g[m] = turn
  BY <1>2, <1>7, <1>8, <1>9, <1>10
<1>12. next.ref = NoRef \/ Len(p) >= n
  BY <1>10 DEF WayAt
<1>13. turn = CheckValue(value, value)
  <2>1. SUFFICES ASSUME NEW q \in Places(DOMAIN entries), Goes(entries, key, p, q, next, turn) PROVE FALSE
    BY <1>11, TurnOnTheWay
  <2>2. IsPrefix(q, key) /\ Len(q) > Len(p) /\ next.ref # NoRef
    BY <2>1, References DEF Goes
  <2>3. Len(q) <= n /\ q \in Key /\ p \in Key
    BY <1>1, <1>11, <2>2, KeysAtPlace, PrefixIs
  <2> QED BY <1>1, <1>12, <2>2, <2>3, PrefixOrder
<1>14. g[m].goes = "accepted"
  BY <1>11, <1>13 DEF CheckValue, Returns
<1> QED BY <1>3, <1>14

-----------------------------------------------------------------------------
(* Entries and states *)

\* Values of the state are not the empty bytes, and say what they are of.
LEMMA Values ==
  /\ \A x : Rlp(x) # EmptyBytes /\ RlpAccount(x) # EmptyBytes
  /\ \A x, y : Rlp(x) = Rlp(y) => x = y
  /\ \A x, y : RlpAccount(x) = RlpAccount(y) => x = y
<1>1. \A x : Rlp(x) # EmptyBytes
  <2>1. DOMAIN EmptyBytes = {"bytes"} /\ \A x : DOMAIN Rlp(x) = {"rlp"}
    BY DEF EmptyBytes, Rlp
  <2>2. {"bytes"} # {"rlp"}
    OBVIOUS
  <2> QED BY <2>1, <2>2
<1>2. \A x : RlpAccount(x) # EmptyBytes
  <2>1. DOMAIN EmptyBytes = {"bytes"} /\ \A x : DOMAIN RlpAccount(x) = {"account"}
    BY DEF EmptyBytes, RlpAccount
  <2>2. {"bytes"} # {"account"}
    OBVIOUS
  <2> QED BY <2>1, <2>2
<1>3. \A x : Rlp(x).rlp = x /\ RlpAccount(x).account = x
  BY DEF Rlp, RlpAccount
<1>4. \A x, y : Rlp(x) = Rlp(y) => x = y
  BY <1>3
<1>5. \A x, y : RlpAccount(x) = RlpAccount(y) => x = y
  BY <1>3
<1> QED BY <1>1, <1>2, <1>4, <1>5

LEMMA EntriesAreChecked == Committed /\ CheckTrie => ProvenIsInTheTrie'
<1> SUFFICES ASSUME Committed, CheckTrie PROVE ProvenIsInTheTrie'
  OBVIOUS
<1>1. input.kind = "trie" /\ input' = input
  BY DEF CheckTrie, Checks
<1>2. /\ verdict'.of = "trie"
      /\ verdict'.ok <=> VerifyMptProof(input.root, input.key, input.value, input.nodes)
  BY DEF CheckTrie
<1> DEFINE entries == input.entries
           key == input.key
           value == input.value
           nodes == input.nodes
           way == WayTo(input.root, key)
<1>3. AreKeys(DOMAIN entries) /\ key \in Key /\ input.root = Trie(entries) /\ IsList(nodes)
  BY <1>1 DEF Committed, CommittedEntries, Key
<1>4. ASSUME verdict'.ok, value # EmptyBytes PROVE key \in DOMAIN entries /\ entries[key] = value
  <2>1. VerifyMptProof(Trie(entries), key, value, nodes)
    BY <1>2, <1>3, <1>4
  <2> HIDE DEF entries, key, value, nodes
  <2> QED BY <1>3, <1>4, <2>1, AcceptedIsHeld DEF Holds
<1>5. ASSUME nodes = way, ~HasInline(way), key \in DOMAIN entries, entries[key] = value PROVE verdict'.ok
  <2>1. nodes = WayTo(Trie(entries), key) /\ ~HasInline(nodes)
    BY <1>3, <1>5
  <2>2. VerifyMptProof(Trie(entries), key, entries[key], nodes)
    <3> HIDE DEF entries, key, value, nodes
    <3> QED BY <1>3, <1>5, <2>1, HonestIsAccepted
  <2> QED BY <1>2, <1>3, <1>5, <2>2
<1>6. ~(verdict'.of = "state")
  BY <1>2
<1> QED BY <1>1, <1>4, <1>5, <1>6 DEF ProvenIsInTheTrie

LEMMA StateIsChecked == Committed /\ CheckState => ProvenIsInTheTrie'
<1> SUFFICES ASSUME Committed, CheckState PROVE ProvenIsInTheTrie'
  OBVIOUS
<1> DEFINE proof == input.proof
           accounts == input.accounts
           here == accounts[proof.address]
<1>1. /\ input.kind = "state" /\ input' = input
      /\ verdict' = [of |-> "state", ok |-> GetState(proof, input.mode), mode |-> input.mode]
  BY DEF CheckState, Checks
<1>2. verdict'.of = "state" /\ (verdict'.ok /\ verdict'.mode = "Strict" => VerifyStateProof(proof))
  <2> HIDE DEF proof
  <2> QED BY <1>1 DEF GetState
<1>3. /\ AreKeys(DOMAIN accounts) /\ proof.root = StateRoot(accounts)
      /\ \A k \in DOMAIN accounts : /\ AreKeys(DOMAIN accounts[k].storage)
                                    /\ accounts[k].account.storage = SlotsRoot(accounts[k].storage)
      /\ proof.address \in Key /\ IsList(proof.nodes)
      /\ \A i \in DOMAIN proof.slots : proof.slots[i].slot \in Key /\ IsList(proof.slots[i].nodes)
  BY <1>1 DEF Committed, CommittedState, Key
<1> HIDE DEF proof, accounts
<1>4. SUFFICES ASSUME VerifyStateProof(proof)
               PROVE  /\ proof.address \in DOMAIN accounts /\ here.account = proof.account
                      /\ \A i \in DOMAIN proof.slots :
                           /\ proof.slots[i].slot \in DOMAIN here.storage
                           /\ here.storage[proof.slots[i].slot] = proof.slots[i].value
  BY <1>1, <1>2 DEF ProvenIsInTheTrie, proof, accounts
<1>5. proof.address \in DOMAIN accounts /\ here.account = proof.account
  <2> DEFINE entries == [k \in DOMAIN accounts |-> RlpAccount(accounts[k].account)]
             value == RlpAccount(proof.account)
  <2>1. VerifyMptProof(Trie(entries), proof.address, value, proof.nodes)
    BY <1>3, <1>4 DEF VerifyStateProof, StateRoot
  <2>2. DOMAIN entries = DOMAIN accounts /\ value # EmptyBytes
    BY Values
  <2>3. Holds(entries, proof.address, value)
    <3> HIDE DEF entries, value
    <3> QED BY <1>3, <2>1, <2>2, AcceptedIsHeld
  <2> QED BY <2>3, Values DEF Holds
<1>6. ASSUME NEW i \in DOMAIN proof.slots
      PROVE  /\ proof.slots[i].slot \in DOMAIN here.storage
             /\ here.storage[proof.slots[i].slot] = proof.slots[i].value
  <2> DEFINE slot == proof.slots[i]
             storage == here.storage
             entries == [k \in DOMAIN storage |-> Rlp(storage[k])]
             value == Rlp(slot.value)
  <2>1. VerifyMptProof(Trie(entries), slot.slot, value, slot.nodes)
    BY <1>3, <1>4, <1>5 DEF VerifyStateProof, SlotsRoot
  <2>2. AreKeys(DOMAIN storage) /\ slot.slot \in Key /\ IsList(slot.nodes)
    BY <1>3, <1>5
  <2>3. DOMAIN entries = DOMAIN storage /\ value # EmptyBytes
    BY Values
  <2>4. Holds(entries, slot.slot, value)
    <3> HIDE DEF entries, value, slot, storage
    <3> QED BY <2>1, <2>2, <2>3, AcceptedIsHeld
  <2> QED BY <2>4, Values DEF Holds
<1> QED BY <1>5, <1>6

-----------------------------------------------------------------------------
(* Layers: the parts of a path, the state's trees on it, and the layers that *)
(* verify, which are of those trees.                                         *)

\* The first n names of a path.
Upto(p, n) == SubSeq(p, 1, n)

LEMMA PartsOfPath ==
  ASSUME NEW p, IsList(p)
  PROVE  /\ Len(p) \in Nat /\ Upto(p, 0) = <<>> /\ Upto(p, Len(p)) = p
         /\ \A n \in 0 .. Len(p) : Len(Upto(p, n)) = n
         /\ \A n \in 1 .. Len(p) : /\ Upto(p, n) # <<>>
                                   /\ Front(Upto(p, n)) = Upto(p, n - 1)
                                   /\ Last(Upto(p, n)) = p[n]
                                   /\ Append(Upto(p, n - 1), p[n]) = Upto(p, n)
<1> DEFINE T == Range(p)
<1>1. p \in Seq(T)
  BY DEF IsList
<1> HIDE DEF T
<1>2. Len(p) \in Nat
  BY <1>1
<1>3. Upto(p, 0) = <<>> /\ Upto(p, Len(p)) = p
  BY <1>1, SubSeqEmpty, SubSeqFull DEF Upto
<1>4. ASSUME NEW n \in 0 .. Len(p)
      PROVE  Upto(p, n) \in Seq(T) /\ Len(Upto(p, n)) = n /\ \A i \in 1 .. n : Upto(p, n)[i] = p[i]
  <2>1. \A i \in 1 .. n : p[i] \in T
    BY <1>1, <1>2
  <2> QED BY <1>2, <2>1, SubSeqProperties DEF Upto
<1>5. ASSUME NEW n \in 1 .. Len(p)
      PROVE  /\ Upto(p, n) # <<>> /\ Front(Upto(p, n)) = Upto(p, n - 1)
             /\ Last(Upto(p, n)) = p[n] /\ Append(Upto(p, n - 1), p[n]) = Upto(p, n)
  <2> DEFINE u == Upto(p, n)
             v == Upto(p, n - 1)
  <2>1. n - 1 \in 0 .. Len(p) /\ n \in 0 .. Len(p) /\ p[n] \in T
    BY <1>1, <1>2
  <2>2. u \in Seq(T) /\ Len(u) = n /\ \A i \in 1 .. n : u[i] = p[i]
    BY <1>4, <2>1
  <2>3. v \in Seq(T) /\ Len(v) = n - 1 /\ \A i \in 1 .. n - 1 : v[i] = p[i]
    BY <1>4, <2>1
  <2> HIDE DEF u, v
  <2>4. u # <<>> /\ Last(u) = p[n]
    BY <2>2 DEF Last
  <2>5. Front(u) = v
    <3> DEFINE w == SubSeq(u, 1, n - 1)
    <3>1. \A i \in 1 .. n - 1 : u[i] \in T
      BY <2>2
    <3>2. w \in Seq(T) /\ Len(w) = n - 1 /\ \A i \in 1 .. n - 1 : w[i] = u[i]
      BY <2>1, <3>1, SubSeqProperties
    <3>3. Front(u) = w
      BY <2>2 DEF Front
    <3> HIDE DEF w
    <3>4. w = v
      BY <2>2, <2>3, <3>2, SeqEqual
    <3> QED BY <3>3, <3>4
  <2>6. Append(v, p[n]) = u
    <3> DEFINE w == Append(v, p[n])
    <3>1. w \in Seq(T) /\ Len(w) = n /\ \A i \in 1 .. n : w[i] = IF i = n THEN p[n] ELSE v[i]
      BY <2>1, <2>3
    <3> HIDE DEF w
    <3>2. \A i \in 1 .. n : w[i] = u[i]
      BY <2>2, <2>3, <3>1
    <3>3. w = u
      BY <2>2, <3>1, <3>2, SeqEqual
    <3> QED BY <3>3 DEF w
  <2> QED BY <2>4, <2>5, <2>6 DEF u, v
<1> QED BY <1>2, <1>3, <1>4, <1>5

\* f is the trees of a state down the first n names of a path.
TreeSteps(state, p, n, f) ==
  f = [m \in 0 .. n |-> IF m = 0 THEN state ELSE TreeUnder(f[m - 1], p[m])]

LEMMA TreesExist ==
  ASSUME NEW state, NEW p, NEW n \in Nat
  PROVE  \E f : TreeSteps(state, p, n, f)
<1> DEFINE Has(i) == \E f : TreeSteps(state, p, i, f)
           Bad == {i \in Nat : ~Has(i)}
<1>1. CASE Bad = {}
  BY <1>1
<1>2. CASE Bad # {}
  <2>1. PICK i \in Bad : \A j \in Bad : i <= j
    <3>1. Bad \subseteq Nat
      OBVIOUS
    <3> HIDE DEF Bad
    <3> QED BY <1>2, <3>1, LeastNat
  <2>2. i \in Nat /\ ~Has(i)
    OBVIOUS
  <2>3. CASE i = 0
    <3> DEFINE f == [m \in 0 .. 0 |-> state]
    <3>1. f = [m \in 0 .. 0 |-> IF m = 0 THEN state ELSE TreeUnder(f[m - 1], p[m])]
      <4>1. \A m \in 0 .. 0 : m = 0
        OBVIOUS
      <4> QED BY <4>1
    <3> HIDE DEF f
    <3> QED BY <3>1, <2>2, <2>3 DEF TreeSteps
  <2>4. CASE i # 0
    <3>1. i - 1 \in Nat /\ ~(i <= i - 1)
      BY <2>2, <2>4
    <3>2. Has(i - 1)
      BY <2>1, <3>1
    <3>3. PICK f : TreeSteps(state, p, i - 1, f)
      BY <3>2
    <3>4. f = [m \in 0 .. i - 1 |-> IF m = 0 THEN state ELSE TreeUnder(f[m - 1], p[m])]
      BY <3>3 DEF TreeSteps
    <3> DEFINE g == [m \in 0 .. i |-> IF m = 0 THEN state ELSE TreeUnder(f[m - 1], p[m])]
    <3>5. \A m \in 0 .. i : m # 0 => m - 1 \in 0 .. i - 1 /\ m - 1 \in 0 .. i
      BY <2>2
    <3>6. ASSUME NEW m \in 0 .. i - 1 PROVE g[m] = f[m]
      <4>1. m \in 0 .. i
        BY <2>2
      <4>2. f[m] = IF m = 0 THEN state ELSE TreeUnder(f[m - 1], p[m])
        BY <3>4
      <4> QED BY <4>1, <4>2
    <3>7. g = [m \in 0 .. i |-> IF m = 0 THEN state ELSE TreeUnder(g[m - 1], p[m])]
      <4>1. \A m \in 0 .. i : m # 0 => f[m - 1] = g[m - 1]
        BY <3>5, <3>6
      <4> QED BY <4>1
    <3> HIDE DEF g
    <3> QED BY <3>7, <2>2 DEF TreeSteps
  <2> QED BY <2>3, <2>4
<1> QED BY <1>1, <1>2

LEMMA TreesAre ==
  ASSUME NEW state, NEW p, Len(p) \in Nat
  PROVE  /\ TreesOn(state, p)[0] = state
         /\ \A n \in 1 .. Len(p) : TreesOn(state, p)[n] = TreeUnder(TreesOn(state, p)[n - 1], p[n])
<1> DEFINE f == CHOOSE h : TreeSteps(state, p, Len(p), h)
<1>1. TreeSteps(state, p, Len(p), f)
  BY TreesExist
<1>2. TreesOn(state, p) = f
  BY DEF TreesOn, TreeSteps
<1> HIDE DEF f
<1>3. f = [m \in 0 .. Len(p) |-> IF m = 0 THEN state ELSE TreeUnder(f[m - 1], p[m])]
  BY <1>1 DEF TreeSteps
<1>4. f[0] = state /\ \A n \in 1 .. Len(p) : f[n] = TreeUnder(f[n - 1], p[n])
  BY <1>3
<1> QED BY <1>2, <1>4

\* From an empty tree on all are.
LEMMA EmptyOn ==
  ASSUME NEW state, NEW p, Len(p) \in Nat,
         NEW n \in 0 .. Len(p), TreesOn(state, p)[n] = <<>>
  PROVE  TreeAt(state, p) = <<>>
<1> DEFINE t == TreesOn(state, p)
           Bad == {m \in n .. Len(p) : t[m] # <<>>}
<1>1. CASE Bad = {}
  BY <1>1 DEF TreeAt
<1>2. CASE Bad # {}
  <2>1. PICK m \in Bad : \A j \in Bad : m <= j
    <3>1. Bad \subseteq Nat
      OBVIOUS
    <3> HIDE DEF Bad
    <3> QED BY <1>2, <3>1, LeastNat
  <2>2. m \in n .. Len(p) /\ t[m] # <<>> /\ m # n
    OBVIOUS
  <2>3. m - 1 \in n .. Len(p) /\ m \in 1 .. Len(p) /\ ~(m <= m - 1)
    BY <2>2
  <2>4. t[m - 1] = <<>>
    BY <2>1, <2>3
  <2>5. t[m] = TreeUnder(t[m - 1], p[m])
    BY <2>3, TreesAre
  <2>6. p[m] \notin DOMAIN <<>>
    OBVIOUS
  <2> QED BY <2>2, <2>4, <2>5, <2>6 DEF TreeUnder
<1> QED BY <1>1, <1>2

\* What is decoded as an envelope.
IsEnvelope(envelope) ==
  /\ <<>> \in DOMAIN envelope
  /\ \A q \in DOMAIN envelope : IsList(q) /\ (q # <<>> => Front(q) \in DOMAIN envelope)

LEMMA DepthIs ==
  ASSUME NEW envelope, NEW p, IsEnvelope(envelope), IsList(p)
  PROVE  LET d == EnvelopeDepth(envelope, p)
         IN  /\ d \in 0 .. Len(p) /\ Upto(p, d) \in DOMAIN envelope
             /\ d < Len(p) => Upto(p, d + 1) \notin DOMAIN envelope
<1> DEFINE Stops(n) == /\ Upto(p, n) \in DOMAIN envelope
                       /\ n < Len(p) => Upto(p, n + 1) \notin DOMAIN envelope
           Out == {n \in 0 .. Len(p) : n = Len(p) \/ Upto(p, n + 1) \notin DOMAIN envelope}
<1>1. Len(p) \in Nat /\ Upto(p, 0) = <<>>
  BY PartsOfPath
<1>2. PICK n \in Out : \A m \in Out : n <= m
  <2>1. Out \subseteq Nat /\ Len(p) \in Out
    BY <1>1
  <2> HIDE DEF Out
  <2> QED BY <2>1, LeastNat
<1>3. Upto(p, n) \in DOMAIN envelope
  <2>1. CASE n = 0
    BY <2>1, <1>1 DEF IsEnvelope
  <2>2. CASE n # 0
    <3>1. n - 1 \in 0 .. Len(p) /\ ~(n <= n - 1) /\ n - 1 # Len(p) /\ (n - 1) + 1 = n
      BY <2>2, <1>1
    <3>2. n - 1 \notin Out
      BY <1>2, <3>1
    <3> QED BY <3>1, <3>2
  <2> QED BY <2>1, <2>2
<1>4. n \in 0 .. Len(p) /\ Stops(n)
  BY <1>1, <1>3
<1>5. EnvelopeDepth(envelope, p) = CHOOSE m \in 0 .. Len(p) : Stops(m)
  BY DEF EnvelopeDepth, Upto
<1> HIDE DEF Stops
<1>6. LET d == EnvelopeDepth(envelope, p) IN d \in 0 .. Len(p) /\ Stops(d)
  BY <1>4, <1>5
<1> QED BY <1>6 DEF Stops

\* The layers that verify on a path, under the state's root, are of its trees.
LEMMA LayersAreOfTheTrees ==
  ASSUME NEW envelope, NEW p, IsEnvelope(envelope), IsList(p), LayersVerify(envelope),
         NEW n \in 0 .. Len(p), Upto(p, n) \in DOMAIN envelope
  PROVE  envelope[Upto(p, n)].tree = TreesOn(RootHash(envelope[<<>>]), p)[n]
<1> DEFINE state == RootHash(envelope[<<>>])
           t == TreesOn(state, p)
           Bad == {m \in 0 .. Len(p) : Upto(p, m) \in DOMAIN envelope /\ envelope[Upto(p, m)].tree # t[m]}
<1>1. CASE Bad = {}
  BY <1>1
<1>2. CASE Bad # {}
  <2>1. PICK m \in Bad : \A j \in Bad : m <= j
    <3>1. Bad \subseteq Nat
      OBVIOUS
    <3> HIDE DEF Bad
    <3> QED BY <1>2, <3>1, LeastNat
  <2>2. m \in 0 .. Len(p) /\ Upto(p, m) \in DOMAIN envelope /\ envelope[Upto(p, m)].tree # t[m]
    OBVIOUS
  <2>3. Len(p) \in Nat /\ Upto(p, 0) = <<>>
    BY PartsOfPath
  <2>4. t[0] = state
    BY <2>3, TreesAre
  <2>5. m # 0
    BY <2>2, <2>3, <2>4 DEF RootHash
  <2>6. m \in 1 .. Len(p) /\ m - 1 \in 0 .. Len(p) /\ ~(m <= m - 1)
    BY <2>2, <2>3, <2>5
  <2> DEFINE q == Upto(p, m)
             holder == envelope[Upto(p, m - 1)]
  <2>7. q # <<>> /\ Front(q) = Upto(p, m - 1) /\ Last(q) = p[m]
    BY <2>6, PartsOfPath
  <2>8. Upto(p, m - 1) \in DOMAIN envelope
    BY <2>2, <2>7 DEF IsEnvelope
  <2>9. holder.tree = t[m - 1]
    BY <2>1, <2>6, <2>8
  <2>10. q \in DOMAIN envelope \ {<<>>}
    BY <2>2, <2>7
  <2>11. Holder(envelope, q) = holder /\ Named(envelope, q) = holder.tree[p[m]]
    BY <2>7 DEF Holder, Named
  <2>12. /\ p[m] \in ByValue(holder) /\ HasRootKey(holder.tree[p[m]])
         /\ BoundBelow(holder.tree[p[m]], envelope[q])
    <3> HIDE DEF q, holder
    <3> QED BY <2>7, <2>10, <2>11 DEF LayersVerify
  <2>13. t[m] = TreeUnder(t[m - 1], p[m])
    BY <2>3, <2>6, TreesAre
  <2>14. t[m] = envelope[q].tree
    <3> HIDE DEF t, q, holder
    <3> QED BY <2>9, <2>12, <2>13 DEF ByValue, HasRootKey, BoundBelow, RootHash, TreeUnder
  <2> QED BY <2>2, <2>14
<1> QED BY <1>1, <1>2

\* What a proof that verifies at a path shows there: of the state's tree at the
\* path if it goes down it, and that there is none if it does not.
LEMMA ShownAt ==
  ASSUME NEW proof, NEW p, IsEnvelope(proof.envelope), IsList(p), VerifiesAt(proof, p)
  PROVE  LET tree == TreeAt(RootHash(proof.envelope[<<>>]), p)
         IN  /\ p \in DOMAIN proof.envelope => proof.envelope[p].tree = tree
             /\ Descends(proof, p) => p \in DOMAIN proof.envelope
             /\ ~Descends(proof, p) => tree = <<>>
<1> DEFINE envelope == proof.envelope
           state == RootHash(envelope[<<>>])
           d == EnvelopeDepth(envelope, p)
           t == TreesOn(state, p)
<1>1. IsEnvelope(envelope) /\ LayersVerify(envelope) /\ EndsWell(envelope, p)
  BY DEF VerifiesAt
<1>2. Len(p) \in Nat /\ Upto(p, Len(p)) = p
  BY PartsOfPath
<1>3. d \in 0 .. Len(p) /\ Upto(p, d) \in DOMAIN envelope
  BY <1>1, DepthIs
<1>4. p \in DOMAIN envelope => envelope[p].tree = TreeAt(state, p)
  BY <1>1, <1>2, LayersAreOfTheTrees DEF TreeAt
<1>5. Descends(proof, p) => p \in DOMAIN envelope
  BY <1>2, <1>3 DEF Descends
<1>6. ASSUME ~Descends(proof, p) PROVE TreeAt(state, p) = <<>>
  <2> DEFINE last == Upto(p, d)
             k == p[d + 1]
  <2>1. d < Len(p) /\ d + 1 \in 1 .. Len(p) /\ d + 1 \in 0 .. Len(p) /\ (d + 1) - 1 = d
    BY <1>2, <1>3, <1>6 DEF Descends
  <2>2. k \in Leaves(envelope, last) /\ envelope[last].tree[k] = EmptySubtree
    BY <1>1, <2>1 DEF EndsWell, Upto
  <2>3. envelope[last].tree = t[d]
    BY <1>1, <1>3, LayersAreOfTheTrees
  <2>4. t[d + 1] = TreeUnder(t[d], k)
    BY <1>2, <2>1, TreesAre
  <2>5. t[d + 1] = <<>>
    <3> HIDE DEF t, d, k, last, envelope
    <3> QED BY <2>2, <2>3, <2>4 DEF Leaves, ByValue, TreeUnder, EmptySubtree, IsTree
  <2> QED BY <1>2, <2>1, <2>5, EmptyOn
<1> QED BY <1>4, <1>5, <1>6

LEMMA ProvenLayersAreSo ==
  ASSUME NEW proof, NEW p, NEW k, NEW v, IsEnvelope(proof.envelope), IsList(p)
  PROVE  LET tree == TreeAt(RootHash(proof.envelope[<<>>]), p)
         IN  /\ ProvesItem(proof, p, k, v) => k \in DOMAIN tree /\ tree[k] = Item(v)
             /\ ProvesAbsent(proof, p, k) => k \notin DOMAIN tree
             /\ RevealsWhole(proof, p) => WholeEntries(proof, p) = tree
<1> DEFINE tree == TreeAt(RootHash(proof.envelope[<<>>]), p)
<1> SUFFICES ASSUME VerifiesAt(proof, p)
             PROVE  /\ ProvesItem(proof, p, k, v) => k \in DOMAIN tree /\ tree[k] = Item(v)
                    /\ ProvesAbsent(proof, p, k) => k \notin DOMAIN tree
                    /\ RevealsWhole(proof, p) => WholeEntries(proof, p) = tree
  BY DEF ProvesItem, ProvesAbsent, RevealsWhole
<1>1. /\ p \in DOMAIN proof.envelope => proof.envelope[p].tree = tree
      /\ Descends(proof, p) => p \in DOMAIN proof.envelope
      /\ ~Descends(proof, p) => tree = <<>>
  BY ShownAt
<1> HIDE DEF tree
<1>2. ProvesItem(proof, p, k, v) => k \in DOMAIN tree /\ tree[k] = Item(v)
  BY <1>1 DEF ProvesItem, Leaves, ByValue, Leaf, Item
<1>3. k \notin DOMAIN <<>>
  OBVIOUS
<1>4. ProvesAbsent(proof, p, k) => k \notin DOMAIN tree
  BY <1>1, <1>3 DEF ProvesAbsent, MerkProvesAbsent
<1>5. RevealsWhole(proof, p) => WholeEntries(proof, p) = tree
  BY <1>1 DEF RevealsWhole, WholeEntries
<1> QED BY <1>2, <1>4, <1>5

\* The layers of an honest proof: one for each part of the path down to a depth,
\* of the state's tree there, shown whole, and it ends well.
HonestTo(proof, state, p, depth) ==
  /\ DOMAIN proof.envelope = {Upto(p, n) : n \in 0 .. depth}
  /\ \A n \in 0 .. depth :
       /\ proof.envelope[Upto(p, n)].tree = TreesOn(state, p)[n]
       /\ n > 0 => TreesOn(state, p)[n] # <<>>
       /\ \A k \in DOMAIN proof.envelope[Upto(p, n)].tree : proof.envelope[Upto(p, n)].shown[k] = "value"
  /\ depth < Len(p) =>
       /\ p[depth + 1] \in DOMAIN TreesOn(state, p)[depth]
       /\ TreesOn(state, p)[depth][p[depth + 1]] = EmptySubtree

\* Each of them is bound to the one above it.
LEMMA HonestLayers ==
  ASSUME NEW proof, NEW state, NEW p, IsList(p), NEW depth \in 0 .. Len(p),
         HonestTo(proof, state, p, depth)
  PROVE  LayersVerify(proof.envelope) /\ QuickVerifies(proof.envelope)
<1> DEFINE envelope == proof.envelope
           t == TreesOn(state, p)
           Hangs(q) == /\ Last(q) \in ByValue(Holder(envelope, q))
                       /\ HasRootKey(Named(envelope, q))
                       /\ BoundBelow(Named(envelope, q), envelope[q])
<1>1. Len(p) \in Nat
  BY PartsOfPath
<1>2. ASSUME NEW q \in DOMAIN envelope \ {<<>>} PROVE Hangs(q)
  <2>1. PICK n \in 0 .. depth : q = Upto(p, n)
    BY DEF HonestTo
  <2>2. n \in 1 .. depth /\ n \in 1 .. Len(p) /\ n - 1 \in 0 .. depth
    <3>1. Upto(p, 0) = <<>>
      BY PartsOfPath
    <3> QED BY <1>1, <2>1, <3>1
  <2> DEFINE holder == envelope[Upto(p, n - 1)]
             k == p[n]
  <2>3. Front(q) = Upto(p, n - 1) /\ Last(q) = k
    BY <2>1, <2>2, PartsOfPath
  <2>4. Holder(envelope, q) = holder /\ Named(envelope, q) = holder.tree[k]
    BY <2>3 DEF Holder, Named
  <2>5. holder.tree = t[n - 1] /\ \A j \in DOMAIN holder.tree : holder.shown[j] = "value"
    BY <2>2 DEF HonestTo
  <2>6. envelope[q].tree = t[n] /\ t[n] # <<>>
    BY <2>1, <2>2 DEF HonestTo
  <2>7. t[n] = TreeUnder(t[n - 1], k)
    BY <1>1, <2>2, TreesAre
  <2> HIDE DEF holder, k, t, envelope
  <2>8. k \in DOMAIN holder.tree /\ IsTree(holder.tree[k]) /\ t[n] = holder.tree[k].root
    BY <2>5, <2>6, <2>7 DEF TreeUnder
  <2> QED BY <2>3, <2>4, <2>5, <2>6, <2>8 DEF ByValue, HasRootKey, BoundBelow, RootHash
<1> HIDE DEF envelope
<1> QED BY <1>2 DEF LayersVerify, QuickVerifies, HasRootKey, envelope

\* The layers go down to the depth.
LEMMA HonestDepth ==
  ASSUME NEW proof, NEW state, NEW p, IsList(p), IsEnvelope(proof.envelope),
         NEW depth \in 0 .. Len(p), HonestTo(proof, state, p, depth)
  PROVE  /\ EnvelopeDepth(proof.envelope, p) = depth
         /\ depth < Len(p) => Upto(p, depth + 1) \notin DOMAIN proof.envelope
<1> DEFINE d == EnvelopeDepth(proof.envelope, p)
<1>1. Len(p) \in Nat /\ \A n \in 0 .. Len(p) : Len(Upto(p, n)) = n
  BY PartsOfPath
<1>2. ASSUME NEW m \in 0 .. Len(p) PROVE Upto(p, m) \in DOMAIN proof.envelope <=> m <= depth
  <2>1. ASSUME Upto(p, m) \in DOMAIN proof.envelope PROVE m <= depth
    <3>1. PICK n \in 0 .. depth : Upto(p, m) = Upto(p, n)
      BY <2>1 DEF HonestTo
    <3>2. n \in 0 .. Len(p)
      BY <1>1
    <3>3. m = n
      BY <1>1, <3>1, <3>2
    <3> QED BY <3>3
  <2>2. ASSUME m <= depth PROVE Upto(p, m) \in DOMAIN proof.envelope
    <3>1. m \in 0 .. depth
      BY <1>1, <2>2
    <3> QED BY <3>1 DEF HonestTo
  <2> QED BY <2>1, <2>2
<1>3. /\ d \in 0 .. Len(p) /\ Upto(p, d) \in DOMAIN proof.envelope
      /\ d < Len(p) => Upto(p, d + 1) \notin DOMAIN proof.envelope
  BY DepthIs
<1> HIDE DEF d
<1>4. d <= depth
  BY <1>2, <1>3
<1>5. ~(d < depth)
  <2> SUFFICES ASSUME d < depth PROVE FALSE
    OBVIOUS
  <2>1. d + 1 \in 0 .. Len(p) /\ d + 1 <= depth /\ d < Len(p)
    BY <1>1, <1>3
  <2> QED BY <1>2, <1>3, <2>1
<1>6. depth < Len(p) => depth + 1 \in 0 .. Len(p) /\ ~(depth + 1 <= depth)
  BY <1>1
<1> QED BY <1>1, <1>2, <1>3, <1>4, <1>5, <1>6 DEF d

LEMMA HonestLayersPass ==
  ASSUME NEW proof, NEW state, NEW p, NEW k, NEW v, IsEnvelope(proof.envelope), IsList(p),
         LeadsTo(proof, state, p)
  PROVE  LET tree == TreeAt(state, p)
         IN  /\ k \in DOMAIN tree /\ tree[k] = Item(v) => ProvesItem(proof, p, k, v)
             /\ k \notin DOMAIN tree => ProvesAbsent(proof, p, k)
             /\ (\A j \in DOMAIN tree : ~HasRootKey(tree[j])) => RevealsWhole(proof, p)
             /\ QuickVerifies(proof.envelope)
<1> DEFINE envelope == proof.envelope
           tree == TreeAt(state, p)
           t == TreesOn(state, p)
<1>1. Len(p) \in Nat /\ Upto(p, Len(p)) = p /\ \A n \in 0 .. Len(p) : Len(Upto(p, n)) = n
  BY PartsOfPath
<1>2. proof.options = "default" /\ \E depth \in 0 .. Len(p) : HonestTo(proof, state, p, depth)
  BY DEF LeadsTo, HonestTo, Upto
<1>3. PICK depth \in 0 .. Len(p) : HonestTo(proof, state, p, depth)
  BY <1>2
<1>4. LayersVerify(envelope) /\ QuickVerifies(envelope)
  BY <1>3, HonestLayers
<1>5. /\ EnvelopeDepth(envelope, p) = depth
      /\ depth < Len(p) => Upto(p, depth + 1) \notin DOMAIN envelope
  BY <1>3, HonestDepth
<1>6. IsOnPath(envelope, p)
  <2>1. \A n \in 0 .. depth : n \in 0 .. Len(p)
    BY <1>1, <1>3
  <2> QED BY <1>3, <2>1 DEF HonestTo, IsOnPath, Prefixes, Upto
<1>7. EndsWell(envelope, p)
  <2> SUFFICES ASSUME depth < Len(p)
               PROVE  /\ p[depth + 1] \in Leaves(envelope, Upto(p, depth))
                      /\ envelope[Upto(p, depth)].tree[p[depth + 1]] = EmptySubtree
    BY <1>5 DEF EndsWell, Upto
  <2>1. depth \in 0 .. depth /\ depth + 1 \in 1 .. Len(p) /\ (depth + 1) - 1 = depth
    BY <1>1, <1>3
  <2>2. Append(Upto(p, depth), p[depth + 1]) = Upto(p, depth + 1)
    BY <2>1, PartsOfPath
  <2> QED BY <1>3, <1>5, <2>1, <2>2 DEF HonestTo, Leaves, ByValue
<1>8. VerifiesAt(proof, p)
  BY <1>2, <1>4, <1>6, <1>7 DEF VerifiesAt
<1>9. Descends(proof, p) <=> depth = Len(p)
  BY <1>5 DEF Descends
<1>10. ASSUME depth = Len(p)
       PROVE  /\ p \in DOMAIN envelope /\ envelope[p].tree = tree
              /\ \A j \in DOMAIN tree : envelope[p].shown[j] = "value" /\ Append(p, j) \notin DOMAIN envelope
  <2>1. p \in DOMAIN envelope /\ envelope[p].tree = tree /\ \A j \in DOMAIN tree : envelope[p].shown[j] = "value"
    <3>1. depth \in 0 .. depth
      BY <1>1, <1>3
    <3> QED BY <1>1, <1>3, <1>10, <3>1 DEF HonestTo, TreeAt
  <2>2. ASSUME NEW j PROVE Append(p, j) \notin DOMAIN envelope
    <3> SUFFICES ASSUME NEW n \in 0 .. depth, Append(p, j) = Upto(p, n) PROVE FALSE
      BY <1>3 DEF HonestTo
    <3>1. Len(Append(p, j)) = Len(p) + 1
      <4>1. p \in Seq(Range(p) \cup {j})
        BY DEF IsList
      <4> QED BY <4>1
    <3>2. n \in 0 .. Len(p) /\ Len(Upto(p, n)) = n
      BY <1>1, <1>10
    <3> QED BY <1>1, <3>1, <3>2
  <2> QED BY <2>1, <2>2
<1>11. ASSUME depth # Len(p) PROVE tree = <<>>
  <2>1. depth < Len(p) /\ depth + 1 \in 1 .. Len(p) /\ depth + 1 \in 0 .. Len(p) /\ (depth + 1) - 1 = depth
    BY <1>1, <1>3, <1>11
  <2>2. t[depth + 1] = TreeUnder(t[depth], p[depth + 1])
    BY <1>1, <2>1, TreesAre
  <2>3. p[depth + 1] \in DOMAIN t[depth] /\ t[depth][p[depth + 1]] = EmptySubtree
    BY <1>3, <2>1 DEF HonestTo
  <2>4. t[depth + 1] = <<>>
    <3> HIDE DEF t
    <3> QED BY <2>2, <2>3 DEF TreeUnder, EmptySubtree, IsTree
  <2> QED BY <1>1, <2>1, <2>4, EmptyOn
<1>12. \A j : j \notin DOMAIN <<>>
  OBVIOUS
<1> HIDE DEF envelope, tree
<1>13. ASSUME k \in DOMAIN tree, tree[k] = Item(v) PROVE ProvesItem(proof, p, k, v)
  <2>1. depth = Len(p)
    BY <1>11, <1>12, <1>13
  <2>2. k \in Leaves(envelope, p) /\ Leaf(envelope[p].tree[k]) = Item(v)
    BY <1>10, <1>13, <2>1 DEF Leaves, ByValue, Leaf, HasRootKey, IsTree, Item
  <2> QED BY <1>8, <1>10, <2>1, <2>2 DEF ProvesItem, envelope
<1>14. ASSUME k \notin DOMAIN tree PROVE ProvesAbsent(proof, p, k)
  <2>1. ASSUME depth = Len(p) PROVE MerkProvesAbsent(envelope[p], k)
    BY <1>10, <1>14, <2>1 DEF MerkProvesAbsent
  <2> QED BY <1>8, <1>9, <2>1 DEF ProvesAbsent, envelope
<1>15. ASSUME \A j \in DOMAIN tree : ~HasRootKey(tree[j]) PROVE RevealsWhole(proof, p)
  BY <1>8, <1>9, <1>10, <1>15 DEF RevealsWhole, envelope
<1> QED BY <1>4, <1>13, <1>14, <1>15 DEF envelope, tree

LEMMA LayersAreChecked == Committed /\ CheckLayers => ProvenIsSo'
<1> SUFFICES ASSUME Committed, CheckLayers PROVE ProvenIsSo'
  OBVIOUS
<1> DEFINE proof == input.proof
           state == input.state
           Claimed(c) == ProvesItem(proof, c.path, c.key, c.value)
           Missing(c) == ProvesAbsent(proof, c.path, c.key)
           Whole(c) == RevealsWhole(proof, c.path)
<1>1. /\ input.kind = "layers" /\ input' = input
      /\ verdict' = [of |-> "layers", present |-> {c \in input.claims : Claimed(c)},
                     absent |-> {c \in input.claims : Missing(c)},
                     whole |-> {c \in input.claims : Whole(c)},
                     root |-> QuickVerifies(proof.envelope)]
  BY DEF CheckLayers, Checks
<1>2. IsEnvelope(proof.envelope) /\ \A c \in input.claims : IsList(c.path)
  BY <1>1 DEF Committed, DecodedLayers, IsEnvelope
<1>3. /\ verdict'.of = "layers"
      /\ verdict'.present = {c \in input.claims : Claimed(c)}
      /\ verdict'.absent = {c \in input.claims : Missing(c)}
      /\ verdict'.whole = {c \in input.claims : Whole(c)}
      /\ verdict'.root = QuickVerifies(proof.envelope)
  BY <1>1
<1>4. ASSUME RootHash(proof.envelope[<<>>]) = state, NEW c \in input.claims
      PROVE  LET tree == TreeAt(state, c.path)
             IN  /\ Claimed(c) => c.key \in DOMAIN tree /\ tree[c.key] = Item(c.value)
                 /\ Missing(c) => c.key \notin DOMAIN tree
                 /\ Whole(c) => WholeEntries(proof, c.path) = tree
  <2>1. IsEnvelope(proof.envelope) /\ IsList(c.path)
    BY <1>2
  <2> DEFINE tree == TreeAt(RootHash(proof.envelope[<<>>]), c.path)
  <2>2. /\ Claimed(c) => c.key \in DOMAIN tree /\ tree[c.key] = Item(c.value)
        /\ Missing(c) => c.key \notin DOMAIN tree
        /\ Whole(c) => WholeEntries(proof, c.path) = tree
    BY <2>1, ProvenLayersAreSo
  <2>3. tree = TreeAt(state, c.path)
    BY <1>4
  <2> HIDE DEF tree, Claimed, Missing, Whole
  <2> QED BY <2>2, <2>3
<1>5. ASSUME NEW c \in input.claims, LeadsTo(proof, state, c.path)
      PROVE  LET tree == TreeAt(state, c.path)
             IN  /\ c.key \in DOMAIN tree /\ tree[c.key] = Item(c.value) => Claimed(c)
                 /\ c.key \notin DOMAIN tree => Missing(c)
                 /\ (\A k \in DOMAIN tree : ~HasRootKey(tree[k])) => Whole(c)
                 /\ QuickVerifies(proof.envelope)
  BY <1>2, <1>5, HonestLayersPass
<1> HIDE DEF Claimed, Missing, Whole
<1> QED BY <1>1, <1>3, <1>4, <1>5 DEF ProvenIsSo

-----------------------------------------------------------------------------
(* Numbers of documents: digits, powers of ten, exact values *)

\* f is the powers of ten up to the n-th.
TenSteps(n, f) == f = [m \in 0 .. n |-> IF m = 0 THEN 1 ELSE 10 * f[m - 1]]

\* f is the numbers the first n digits of a sequence write.
DigitSteps(digits, n, f) == f = [m \in 0 .. n |-> IF m = 0 THEN 0 ELSE 10 * f[m - 1] + digits[m]]

LEMMA TenStepsAre ==
  ASSUME NEW n \in Nat, NEW f, TenSteps(n, f)
  PROVE  f[0] = 1 /\ \A m \in 1 .. n : f[m] = 10 * f[m - 1]
<1>1. \A m \in 0 .. n : f[m] = IF m = 0 THEN 1 ELSE 10 * f[m - 1]
  BY DEF TenSteps
<1> QED BY <1>1

LEMMA TenStepsExist ==
  ASSUME NEW n \in Nat
  PROVE  \E f : TenSteps(n, f)
<1> DEFINE Has(m) == \E f : TenSteps(m, f)
           Good == {m \in Nat : Has(m)}
<1>1. 0 \in Good
  <2> DEFINE f == [m \in 0 .. 0 |-> 1]
  <2>1. TenSteps(0, f)
    BY DEF TenSteps
  <2> HIDE DEF f
  <2> QED BY <2>1
<1>2. ASSUME NEW i \in Nat, i \in Good PROVE i + 1 \in Good
  <2>1. PICK f : TenSteps(i, f)
    BY <1>2
  <2> DEFINE g == [m \in 0 .. i + 1 |-> IF m = 0 THEN 1 ELSE 10 * f[m - 1]]
  <2>2. \A m \in 0 .. i : m \in 0 .. i + 1 /\ g[m] = f[m]
    BY <2>1 DEF TenSteps
  <2>3. \A m \in 0 .. i + 1 : m # 0 => m - 1 \in 0 .. i
    OBVIOUS
  <2>4. \A m \in 0 .. i + 1 : m # 0 => g[m - 1] = f[m - 1]
    <3> HIDE DEF g
    <3> QED BY <2>2, <2>3
  <2>5. g = [m \in 0 .. i + 1 |-> IF m = 0 THEN 1 ELSE 10 * g[m - 1]]
    BY <2>4
  <2> HIDE DEF g
  <2>6. TenSteps(i + 1, g)
    BY <2>5 DEF TenSteps
  <2> QED BY <2>6
<1>3. Nat \subseteq Good
  <2> HIDE DEF Good
  <2> QED BY <1>1, <1>2, NatsByInduction
<1> QED BY <1>3

LEMMA TenStepsAgree ==
  ASSUME NEW i \in Nat, NEW j \in Nat, NEW f, TenSteps(i, f), NEW g, TenSteps(j, g)
  PROVE  \A m \in Nat : m <= i /\ m <= j => f[m] = g[m]
<1> DEFINE Good == {m \in Nat : m <= i /\ m <= j => f[m] = g[m]}
<1>1. /\ f[0] = 1 /\ \A m \in 1 .. i : f[m] = 10 * f[m - 1]
      /\ g[0] = 1 /\ \A m \in 1 .. j : g[m] = 10 * g[m - 1]
  BY TenStepsAre
<1>2. 0 \in Good
  BY <1>1
<1>3. ASSUME NEW m \in Nat, m \in Good PROVE m + 1 \in Good
  <2> SUFFICES ASSUME m + 1 <= i, m + 1 <= j PROVE f[m + 1] = g[m + 1]
    OBVIOUS
  <2>1. m + 1 \in 1 .. i /\ m + 1 \in 1 .. j /\ (m + 1) - 1 = m /\ f[m] = g[m]
    BY <1>3
  <2> QED BY <1>1, <2>1
<1>4. Nat \subseteq Good
  <2> HIDE DEF Good
  <2> QED BY <1>2, <1>3, NatsByInduction
<1> QED BY <1>4

LEMMA TensAre ==
  /\ TenTo[0] = 1
  /\ \A n \in Nat : TenTo[n + 1] = 10 * TenTo[n]
  /\ \A n \in Nat : TenTo[n] \in Nat /\ TenTo[n] > 0
<1> DEFINE IsAll(f) == f = [n \in Nat |-> IF n = 0 THEN 1 ELSE 10 * f[n - 1]]
           upTo(n) == CHOOSE f : TenSteps(n, f)
           all == [n \in Nat |-> upTo(n)[n]]
<1>1. ASSUME NEW n \in Nat PROVE TenSteps(n, upTo(n))
  BY TenStepsExist
<1>2. ASSUME NEW n \in Nat PROVE upTo(n)[n] = IF n = 0 THEN 1 ELSE 10 * upTo(n - 1)[n - 1]
  <2> HIDE DEF upTo
  <2>1. CASE n = 0
    BY <1>1, <2>1, TenStepsAre
  <2>2. CASE n # 0
    <3>1. n - 1 \in Nat /\ n \in 1 .. n /\ n - 1 <= n
      BY <2>2
    <3>2. upTo(n)[n] = 10 * upTo(n)[n - 1]
      BY <1>1, <3>1, TenStepsAre
    <3>3. upTo(n)[n - 1] = upTo(n - 1)[n - 1]
      BY <1>1, <3>1, TenStepsAgree
    <3> QED BY <2>2, <3>2, <3>3
  <2> QED BY <2>1, <2>2
<1>3. IsAll(all)
  <2>1. \A n \in Nat : n # 0 => n - 1 \in Nat
    OBVIOUS
  <2> HIDE DEF upTo
  <2>2. \A n \in Nat : n # 0 => all[n - 1] = upTo(n - 1)[n - 1]
    BY <2>1
  <2> QED BY <1>2, <2>2
<1>4. IsAll(TenTo)
  <2>1. TenTo = CHOOSE f : IsAll(f)
    BY DEF TenTo
  <2> HIDE DEF all, IsAll
  <2> QED BY <1>3, <2>1
<1>5. \A n \in Nat : TenTo[n] = IF n = 0 THEN 1 ELSE 10 * TenTo[n - 1]
  BY <1>4
<1>6. TenTo[0] = 1
  BY <1>5
<1>7. \A n \in Nat : TenTo[n + 1] = 10 * TenTo[n]
  <2>1. \A n \in Nat : n + 1 \in Nat /\ n + 1 # 0 /\ (n + 1) - 1 = n
    OBVIOUS
  <2> QED BY <1>5, <2>1
<1> DEFINE Good == {n \in Nat : TenTo[n] \in Nat /\ TenTo[n] > 0}
<1>8. 0 \in Good
  BY <1>6
<1>9. ASSUME NEW n \in Nat, n \in Good PROVE n + 1 \in Good
  <2>1. TenTo[n] \in Nat /\ TenTo[n] > 0 /\ TenTo[n + 1] = 10 * TenTo[n]
    BY <1>7, <1>9
  <2> QED BY <2>1
<1>10. Nat \subseteq Good
  <2> HIDE DEF Good
  <2> QED BY <1>8, <1>9, NatsByInduction
<1> QED BY <1>6, <1>7, <1>10

LEMMA TensMultiply ==
  ASSUME NEW m \in Nat, NEW n \in Nat
  PROVE  TenTo[m + n] = TenTo[m] * TenTo[n]
<1> DEFINE Good == {k \in Nat : TenTo[m + k] = TenTo[m] * TenTo[k]}
<1>1. 0 \in Good
  <2>1. TenTo[m] \in Nat /\ TenTo[0] = 1 /\ m + 0 = m
    BY TensAre
  <2> QED BY <2>1
<1>2. ASSUME NEW k \in Nat, k \in Good PROVE k + 1 \in Good
  <2> DEFINE a == TenTo[m]
             b == TenTo[k]
  <2>1. m + k \in Nat /\ (m + k) + 1 = m + (k + 1)
    OBVIOUS
  <2>2. a \in Nat /\ b \in Nat /\ TenTo[k + 1] = 10 * b /\ TenTo[m + (k + 1)] = 10 * TenTo[m + k]
    BY <2>1, TensAre
  <2>3. TenTo[m + k] = a * b
    BY <1>2
  <2> HIDE DEF a, b
  <2>4. 10 * (a * b) = a * (10 * b)
    BY <2>2
  <2>5. TenTo[m + (k + 1)] = a * TenTo[k + 1]
    BY <2>2, <2>3, <2>4
  <2> QED BY <2>5 DEF a
<1>3. Nat \subseteq Good
  <2> HIDE DEF Good
  <2> QED BY <1>1, <1>2, NatsByInduction
<1> QED BY <1>3

LEMMA DigitStepsExist ==
  ASSUME NEW digits, NEW n \in Nat
  PROVE  \E f : DigitSteps(digits, n, f)
<1> DEFINE Has(m) == \E f : DigitSteps(digits, m, f)
           Good == {m \in Nat : Has(m)}
<1>1. 0 \in Good
  <2> DEFINE f == [m \in 0 .. 0 |-> 0]
  <2>1. DigitSteps(digits, 0, f)
    BY DEF DigitSteps
  <2> HIDE DEF f
  <2> QED BY <2>1
<1>2. ASSUME NEW i \in Nat, i \in Good PROVE i + 1 \in Good
  <2>1. PICK f : DigitSteps(digits, i, f)
    BY <1>2
  <2> DEFINE g == [m \in 0 .. i + 1 |-> IF m = 0 THEN 0 ELSE 10 * f[m - 1] + digits[m]]
  <2>2. \A m \in 0 .. i : m \in 0 .. i + 1 /\ g[m] = f[m]
    BY <2>1 DEF DigitSteps
  <2>3. \A m \in 0 .. i + 1 : m # 0 => m - 1 \in 0 .. i
    OBVIOUS
  <2>4. \A m \in 0 .. i + 1 : m # 0 => g[m - 1] = f[m - 1]
    <3> HIDE DEF g
    <3> QED BY <2>2, <2>3
  <2>5. g = [m \in 0 .. i + 1 |-> IF m = 0 THEN 0 ELSE 10 * g[m - 1] + digits[m]]
    BY <2>4
  <2> HIDE DEF g
  <2>6. DigitSteps(digits, i + 1, g)
    BY <2>5 DEF DigitSteps
  <2> QED BY <2>6
<1>3. Nat \subseteq Good
  <2> HIDE DEF Good
  <2> QED BY <1>1, <1>2, NatsByInduction
<1> QED BY <1>3

LEMMA DigitsAre ==
  ASSUME NEW digits \in Seq(0 .. 9)
  PROVE  /\ DigitValues(digits)[0] = 0
         /\ \A m \in 1 .. Len(digits) : DigitValues(digits)[m] = 10 * DigitValues(digits)[m - 1] + digits[m]
         /\ \A m \in 0 .. Len(digits) : DigitValues(digits)[m] \in Nat
<1> DEFINE n == Len(digits)
           v == CHOOSE f : DigitSteps(digits, n, f)
<1>1. n \in Nat /\ \A m \in 1 .. n : digits[m] \in 0 .. 9
  OBVIOUS
<1>2. DigitSteps(digits, n, v)
  BY <1>1, DigitStepsExist
<1>3. DigitValues(digits) = v
  BY DEF DigitValues, DigitSteps
<1> HIDE DEF v, n
<1>4. \A m \in 0 .. n : v[m] = IF m = 0 THEN 0 ELSE 10 * v[m - 1] + digits[m]
  BY <1>2 DEF DigitSteps
<1>5. v[0] = 0 /\ \A m \in 1 .. n : v[m] = 10 * v[m - 1] + digits[m]
  BY <1>1, <1>4
<1> DEFINE Good == {m \in Nat : m <= n => v[m] \in Nat}
<1>6. 0 \in Good
  BY <1>5
<1>7. ASSUME NEW m \in Nat, m \in Good PROVE m + 1 \in Good
  <2> SUFFICES ASSUME m + 1 <= n PROVE v[m + 1] \in Nat
    OBVIOUS
  <2>1. m + 1 \in 1 .. n /\ (m + 1) - 1 = m /\ v[m] \in Nat
    BY <1>1, <1>7
  <2>2. v[m + 1] = 10 * v[m] + digits[m + 1] /\ digits[m + 1] \in 0 .. 9
    BY <1>1, <1>5, <2>1
  <2> QED BY <2>1, <2>2
<1>8. Nat \subseteq Good
  <2> HIDE DEF Good
  <2> QED BY <1>6, <1>7, NatsByInduction
<1>9. \A m \in 0 .. n : v[m] \in Nat
  BY <1>1, <1>8
<1> QED BY <1>3, <1>5, <1>9 DEF n

LEMMA LastDigitIs ==
  ASSUME NEW digits \in Seq(0 .. 9)
  PROVE  /\ LastDigit(digits) \in 0 .. Len(digits)
         /\ LastDigit(digits) # 0 => digits[LastDigit(digits)] # 0
         /\ \A j \in LastDigit(digits) + 1 .. Len(digits) : digits[j] = 0
<1> DEFINE n == Len(digits)
           Ends(i) == \A j \in i + 1 .. n : digits[j] = 0
           ends == {i \in Nat : i <= n /\ Ends(i)}
<1>1. n \in Nat /\ n \in ends /\ ends \subseteq Nat
  OBVIOUS
<1>2. PICK i \in ends : \A j \in ends : i <= j
  <2> HIDE DEF ends
  <2> QED BY <1>1, LeastNat
<1>3. i # 0 => digits[i] # 0
  <2> SUFFICES ASSUME i # 0, digits[i] = 0 PROVE FALSE
    OBVIOUS
  <2>1. i - 1 \in Nat /\ i - 1 <= n /\ ~(i <= i - 1)
    BY <1>1, <1>2
  <2>2. \A j \in (i - 1) + 1 .. n : j = i \/ j \in i + 1 .. n
    BY <1>1, <1>2
  <2>3. Ends(i - 1)
    BY <1>2, <2>2
  <2> QED BY <1>2, <2>1, <2>3
<1>4. i \in 0 .. n /\ Ends(i)
  BY <1>1, <1>2
<1> QED BY <1>3, <1>4 DEF LastDigit

\* Digits that end in 0s.
LEMMA ZerosShift ==
  ASSUME NEW digits \in Seq(0 .. 9), NEW last \in 0 .. Len(digits),
         \A j \in last + 1 .. Len(digits) : digits[j] = 0
  PROVE  DigitsValue(digits) = DigitValues(digits)[last] * TenTo[Len(digits) - last]
<1> DEFINE n == Len(digits)
           v == DigitValues(digits)
           Good == {k \in Nat : last + k <= n => v[last + k] = v[last] * TenTo[k]}
<1>1. n \in Nat /\ last \in Nat /\ last <= n
  OBVIOUS
<1>2. /\ \A m \in 1 .. n : v[m] = 10 * v[m - 1] + digits[m]
      /\ \A m \in 0 .. n : v[m] \in Nat
  BY DigitsAre
<1>3. \A j \in last + 1 .. n : digits[j] = 0
  OBVIOUS
<1> HIDE DEF n, v
<1>4. 0 \in Good
  <2>1. v[last] \in Nat /\ TenTo[0] = 1 /\ last + 0 = last
    BY <1>1, <1>2, TensAre
  <2> QED BY <2>1
<1>5. ASSUME NEW k \in Nat, k \in Good PROVE k + 1 \in Good
  <2> SUFFICES ASSUME last + (k + 1) <= n PROVE v[last + (k + 1)] = v[last] * TenTo[k + 1]
    OBVIOUS
  <2> DEFINE m == last + (k + 1)
             a == v[last]
             b == TenTo[k]
  <2>1. m \in 1 .. n /\ m \in last + 1 .. n /\ m - 1 = last + k /\ last + k <= n
    BY <1>1
  <2>2. v[m] = 10 * v[last + k] + digits[m] /\ digits[m] = 0
    BY <1>2, <1>3, <2>1
  <2>3. v[last + k] = a * b
    BY <1>5, <2>1
  <2>4. a \in Nat /\ b \in Nat /\ TenTo[k + 1] = 10 * b
    <3>1. last \in 0 .. n
      BY <1>1
    <3>2. a \in Nat
      BY <1>2, <3>1
    <3>3. b \in Nat /\ TenTo[k + 1] = 10 * b
      BY TensAre
    <3> QED BY <3>2, <3>3
  <2> HIDE DEF m, a, b
  <2>5. a * b \in Nat /\ 10 * (a * b) = a * (10 * b)
    BY <2>4
  <2>6. v[m] = a * (10 * b)
    BY <2>2, <2>3, <2>5
  <2> QED BY <2>4, <2>6 DEF m, a
<1>6. Nat \subseteq Good
  <2> HIDE DEF Good
  <2> QED BY <1>4, <1>5, NatsByInduction
<1>7. n - last \in Nat /\ last + (n - last) = n
  BY <1>1
<1>8. v[n] = v[last] * TenTo[n - last]
  BY <1>6, <1>7
<1> QED BY <1>8 DEF n, v, DigitsValue

\* What a sequence of digits writes is what it does up to its last digit that is
\* not 0, times a power of ten.
LEMMA Significant ==
  ASSUME NEW digits \in Seq(0 .. 9)
  PROVE  LET last == LastDigit(digits)
             m == DigitValues(digits)[last]
         IN  /\ last \in 0 .. Len(digits) /\ m \in Nat
             /\ last = 0 => m = 0
             /\ last # 0 => m % 10 # 0
             /\ DigitsValue(digits) = m * TenTo[Len(digits) - last]
<1> DEFINE n == Len(digits)
           v == DigitValues(digits)
           last == LastDigit(digits)
<1>1. n \in Nat /\ \A m \in 1 .. n : digits[m] \in 0 .. 9
  OBVIOUS
<1>2. /\ last \in 0 .. n
      /\ last # 0 => digits[last] # 0
      /\ \A j \in last + 1 .. n : digits[j] = 0
  BY LastDigitIs
<1>3. DigitsValue(digits) = v[last] * TenTo[n - last]
  BY <1>2, ZerosShift
<1>4. /\ v[0] = 0 /\ \A m \in 0 .. n : v[m] \in Nat
      /\ \A m \in 1 .. n : v[m] = 10 * v[m - 1] + digits[m]
  BY DigitsAre
<1> HIDE DEF n, v, last
<1>5. ASSUME last # 0 PROVE v[last] % 10 # 0
  <2>1. last \in 1 .. n /\ last - 1 \in 0 .. n
    BY <1>1, <1>2, <1>5
  <2>2. digits[last] \in 1 .. 9
    BY <1>1, <1>2, <1>5, <2>1
  <2>3. v[last] = 10 * v[last - 1] + digits[last] /\ v[last - 1] \in Nat
    BY <1>4, <2>1
  <2> QED BY <2>2, <2>3
<1> QED BY <1>2, <1>3, <1>4, <1>5 DEF n, v, last

\* The values of exact decimals, in units of 10^-Unit.
IsDecimal(x) ==
  \/ x = Zero
  \/ /\ x \in [neg : BOOLEAN, n : Nat, exp : Int]
     /\ x.n % 10 # 0 /\ Unit + x.exp >= 0

ValueOf(x) ==
  LET n == x.n * TenTo[Unit + x.exp] IN IF x.neg THEN -n ELSE n

\* A number is in one way a number without a last digit 0 times a power of ten.
LEMMA OneForm ==
  ASSUME NEW m \in Nat, NEW n \in Nat, NEW i \in Nat, NEW j \in Nat,
         m % 10 # 0, n % 10 # 0, i <= j, m * TenTo[i] = n * TenTo[j]
  PROVE  m = n /\ i = j
<1> DEFINE a == TenTo[i]
           d == j - i
           b == TenTo[d]
<1>1. d \in Nat /\ i + d = j
  OBVIOUS
<1>2. a \in Nat /\ a > 0 /\ b \in Nat /\ TenTo[j] = a * b
  <2> HIDE DEF d
  <2>1. TenTo[i + d] = TenTo[i] * TenTo[d]
    BY <1>1, TensMultiply
  <2> QED BY <1>1, <2>1, TensAre
<1>3. m * a = n * (a * b)
  BY <1>2
<1> HIDE DEF a, b
<1>4. m = n * b
  <2>1. n * (a * b) = (n * b) * a /\ n * b \in Nat
    BY <1>2
  <2> DEFINE c == n * b
  <2>2. m * a = c * a /\ c \in Nat
    BY <1>3, <2>1
  <2> HIDE DEF c
  <2>3. (m - c) * a = 0
    BY <1>2, <2>2
  <2>4. m - c = 0
    BY <1>2, <2>2, <2>3
  <2>5. m = c
    BY <2>2, <2>4
  <2> QED BY <2>5 DEF c
<1>5. CASE d = 0
  <2>1. b = 1
    BY <1>5, TensAre DEF b
  <2> QED BY <1>1, <1>4, <1>5, <2>1
<1>6. CASE d # 0
  <2> DEFINE c == TenTo[d - 1]
  <2>1. d - 1 \in Nat /\ (d - 1) + 1 = d
    BY <1>1, <1>6
  <2>2. b = 10 * c /\ c \in Nat
    BY <2>1, TensAre DEF b
  <2> HIDE DEF c
  <2>3. n * c \in Nat /\ n * (10 * c) = 10 * (n * c)
    BY <2>2
  <2> DEFINE e == n * c
  <2>4. m = 10 * e /\ e \in Nat
    BY <1>4, <2>2, <2>3
  <2> HIDE DEF e
  <2>5. m % 10 = 0
    BY <2>4
  <2> QED BY <2>5
<1> QED BY <1>5, <1>6

LEMMA DecimalsDiffer ==
  ASSUME NEW x, NEW y, IsDecimal(x), IsDecimal(y), ValueOf(x) = ValueOf(y)
  PROVE  x = y
<1>1. ASSUME NEW z, IsDecimal(z), z # Zero
      PROVE  /\ z \in [neg : BOOLEAN, n : Nat, exp : Int]
             /\ z.n % 10 # 0 /\ z.n > 0 /\ Unit + z.exp \in Nat
             /\ z.n * TenTo[Unit + z.exp] \in Nat
             /\ z.n * TenTo[Unit + z.exp] > 0
  <2>1. /\ z \in [neg : BOOLEAN, n : Nat, exp : Int]
        /\ z.n % 10 # 0 /\ Unit + z.exp \in Nat
    BY <1>1, ServedAssumption DEF IsDecimal
  <2>2. z.n \in Nat /\ z.n > 0
    BY <2>1
  <2> DEFINE a == z.n
             b == TenTo[Unit + z.exp]
  <2>3. a \in Nat /\ a > 0 /\ b \in Nat /\ b > 0
    BY <2>1, <2>2, TensAre
  <2> HIDE DEF a, b
  <2>4. a * b \in Nat /\ a * b > 0
    BY <2>3
  <2> QED BY <2>1, <2>2, <2>4 DEF a, b
<1>2. ValueOf(Zero) = 0
  <2>1. Zero.n = 0 /\ Zero.exp = 0 /\ Zero.neg = FALSE /\ Unit + 0 = Unit
    BY ServedAssumption DEF Zero
  <2>2. TenTo[Unit] \in Nat
    BY ServedAssumption, TensAre
  <2> QED BY <2>1, <2>2 DEF ValueOf
<1>3. ASSUME NEW z, IsDecimal(z), z # Zero PROVE ValueOf(z) # 0
  BY <1>1, <1>3 DEF ValueOf
<1>4. CASE x = Zero \/ y = Zero
  BY <1>2, <1>3, <1>4
<1>5. CASE x # Zero /\ y # Zero
  <2> DEFINE i == Unit + x.exp
             j == Unit + y.exp
             a == x.n * TenTo[i]
             b == y.n * TenTo[j]
  <2>1. /\ x.neg \in BOOLEAN /\ y.neg \in BOOLEAN
        /\ x.n \in Nat /\ y.n \in Nat /\ x.exp \in Int /\ y.exp \in Int
        /\ x.n % 10 # 0 /\ y.n % 10 # 0 /\ i \in Nat /\ j \in Nat
        /\ a \in Nat /\ a > 0 /\ b \in Nat /\ b > 0
    BY <1>1, <1>5
  <2>2. (IF x.neg THEN -a ELSE a) = (IF y.neg THEN -b ELSE b)
    BY DEF ValueOf
  <2> HIDE DEF a, b
  <2>3. x.neg = y.neg /\ a = b
    BY <2>1, <2>2
  <2> USE DEF a, b
  <2>4. x.n = y.n /\ i = j
    <3> HIDE DEF i, j
    <3>1. CASE i <= j
      BY <2>1, <2>3, <3>1, OneForm
    <3>2. CASE j <= i
      BY <2>1, <2>3, <3>2, OneForm
    <3> QED BY <2>1, <3>1, <3>2
  <2>5. x.exp = y.exp
    BY <2>1, <2>4, ServedAssumption
  <2> QED BY <1>1, <1>5, <2>3, <2>4, <2>5
<1> QED BY <1>4, <1>5

\* A text is read as a decimal of its value, with the place of one of its digits.
LEMMA DecimalIs ==
  ASSUME NEW text, IsNumberText(text)
  PROVE  LET x == ExactDecimal(text)
         IN  /\ IsDecimal(x) /\ RealValue(text) = ValueOf(x)
             /\ x # Zero => /\ Exponent(text) - Len(text.frac) <= x.exp
                            /\ x.exp <= Exponent(text) + Len(text.int) - 1
<1>1. PICK digits : digits = text.int \o text.frac
  OBVIOUS
<1> DEFINE n == Len(digits)
           v == DigitValues(digits)
           last == LastDigit(digits)
           wholes == Len(text.int)
           power == Exponent(text)
           low == power - Len(text.frac)
           x == ExactDecimal(text)
<1>2. /\ text.neg \in BOOLEAN /\ text.int \in Seq(0 .. 9) /\ text.frac \in Seq(0 .. 9)
      /\ text.exp \in Int \cup {NoExp} /\ Unit + low >= 0
  BY DEF IsNumberText
<1>3. digits \in Seq(0 .. 9)
  BY <1>1, <1>2
<1>4. power \in Int /\ wholes \in Nat /\ low \in Int /\ n \in Nat /\ n - wholes \in Nat /\ low = power - (n - wholes)
  <2> DEFINE fractions == Len(text.frac)
  <2>1. fractions \in Nat /\ wholes \in Nat /\ n = wholes + fractions
    BY <1>1, <1>2
  <2>2. power \in Int
    BY <1>2 DEF Exponent
  <2>3. low = power - fractions
    OBVIOUS
  <2> HIDE DEF fractions, wholes, power, low, n
  <2> QED BY <2>1, <2>2, <2>3
<1>5. Unit + low \in Nat /\ Unit \in Nat
  BY <1>2, <1>4, ServedAssumption
<1>6. RealValue(text) = LET m == DigitsValue(digits) * TenTo[Unit + low] IN IF text.neg THEN -m ELSE m
  <2>1. Unit + Exponent(text) - Len(text.frac) = Unit + low
    BY <1>4, <1>5
  <2> QED BY <1>1, <2>1 DEF RealValue
<1>7. x = IF last = 0 THEN Zero ELSE [neg |-> text.neg, n |-> v[last], exp |-> low + (n - last)]
  BY <1>1 DEF ExactDecimal
<1> HIDE DEF wholes, power, low, x
<1>8. /\ last \in 0 .. n /\ v[last] \in Nat
      /\ last = 0 => v[last] = 0
      /\ last # 0 => v[last] % 10 # 0
      /\ DigitsValue(digits) = v[last] * TenTo[n - last]
  BY <1>3, Significant
<1> HIDE DEF n, v, last
<1>9. n - last \in Nat /\ TenTo[n - last] \in Nat /\ TenTo[Unit + low] \in Nat /\ TenTo[Unit] \in Nat
  <2>1. n - last \in Nat
    BY <1>4, <1>8
  <2> QED BY <1>5, <2>1, TensAre
<1>10. CASE last = 0
  <2>1. DigitsValue(digits) = 0
    BY <1>8, <1>9, <1>10
  <2>2. RealValue(text) = 0
    BY <1>6, <1>9, <2>1
  <2>3. x = Zero /\ Zero.n = 0 /\ Zero.exp = 0 /\ Zero.neg = FALSE /\ Unit + 0 = Unit
    BY <1>5, <1>7, <1>10 DEF Zero
  <2>4. ValueOf(x) = 0
    BY <1>9, <2>3 DEF ValueOf
  <2> QED BY <2>2, <2>3, <2>4 DEF IsDecimal, x
<1>11. CASE last # 0
  <2> DEFINE e == low + (n - last)
  <2>1. last \in 1 .. n /\ e \in Int
    BY <1>4, <1>8, <1>11
  <2>2. /\ x \in [neg : BOOLEAN, n : Nat, exp : Int]
        /\ x.neg = text.neg /\ x.n = v[last] /\ x.exp = e
    BY <1>2, <1>7, <1>8, <1>11, <2>1
  <2>3. Unit + e = (n - last) + (Unit + low) /\ Unit + e \in Nat
    BY <1>4, <1>5, <1>9, <2>1
  <2>4. low <= e /\ e <= power + wholes - 1
    BY <1>4, <1>9, <2>1
  <2>5. DigitsValue(digits) * TenTo[Unit + low] = v[last] * TenTo[Unit + e]
    <3> DEFINE a == v[last]
               b == TenTo[n - last]
               k == TenTo[Unit + low]
    <3>1. a \in Nat /\ b \in Nat /\ k \in Nat
      BY <1>8, <1>9
    <3>2. TenTo[Unit + e] = b * k
      BY <1>5, <1>9, <2>3, TensMultiply
    <3>3. DigitsValue(digits) = a * b
      BY <1>8
    <3> HIDE DEF a, b, k, e
    <3>4. (a * b) * k = a * (b * k)
      BY <3>1
    <3>5. DigitsValue(digits) * k = a * TenTo[Unit + e]
      BY <3>2, <3>3, <3>4
    <3> QED BY <3>5 DEF a, k
  <2> HIDE DEF e
  <2>6. RealValue(text) = ValueOf(x)
    BY <1>6, <2>2, <2>5 DEF ValueOf
  <2>7. IsDecimal(x)
    BY <1>8, <1>11, <2>2, <2>3 DEF IsDecimal
  <2> QED BY <2>2, <2>4, <2>6, <2>7 DEF x, low, power, wholes
<1> QED BY <1>10, <1>11

\* A number's text in canonical form is one of the same value and places.
LEMMA CanonicalIs ==
  ASSUME NEW text, IsNumberText(text)
  PROVE  LET c == CanonicalNumber(text)
         IN  /\ IsNumberText(c) /\ RealValue(c) = RealValue(text)
             /\ c.int = text.int /\ c.frac = text.frac /\ Exponent(c) = Exponent(text)
<1> DEFINE c == CanonicalNumber(text)
           k == DigitsValue(text.int)
           s == [text EXCEPT !.neg = text.neg /\ k # 0]
<1>1. c = text \/ (c = s /\ text.frac = <<>>)
  BY DEF CanonicalNumber
<1>2. CASE c = text
  BY <1>2
<1>3. CASE c = s /\ text.frac = <<>>
  <2>1. /\ text \in [neg : BOOLEAN, int : Seq(0 .. 9), frac : Seq(0 .. 9), exp : Int \cup {NoExp}]
        /\ Unit + Exponent(text) - Len(text.frac) >= 0
    BY DEF IsNumberText
  <2>2. /\ c \in [neg : BOOLEAN, int : Seq(0 .. 9), frac : Seq(0 .. 9), exp : Int \cup {NoExp}]
        /\ c.int = text.int /\ c.frac = text.frac /\ c.exp = text.exp
        /\ c.neg = (text.neg /\ k # 0)
    BY <1>3, <2>1
  <2>3. Exponent(c) = Exponent(text)
    BY <2>2 DEF Exponent
  <2>4. IsNumberText(c)
    BY <2>1, <2>2, <2>3 DEF IsNumberText
  <2> DEFINE u == Unit + Exponent(text) - Len(text.frac)
             p == TenTo[u]
  <2>5. text.int \o text.frac = text.int
    BY <1>3, <2>1
  <2>6. p \in Nat
    <3>1. Exponent(text) \in Int /\ Len(text.frac) \in Nat /\ Unit \in Nat
      BY <2>1, ServedAssumption DEF Exponent
    <3>2. u \in Nat
      BY <2>1, <3>1
    <3> HIDE DEF u
    <3> QED BY <3>2, TensAre
  <2>7. RealValue(c) = IF c.neg THEN -(k * p) ELSE k * p
    BY <2>2, <2>3, <2>5 DEF RealValue
  <2>8. RealValue(text) = IF text.neg THEN -(k * p) ELSE k * p
    BY <2>5 DEF RealValue
  <2>9. k = 0 => k * p = 0 /\ -(k * p) = 0
    <3> HIDE DEF p, k
    <3> QED BY <2>6
  <2> HIDE DEF c, k, p
  <2>10. RealValue(c) = RealValue(text)
    BY <2>2, <2>7, <2>8, <2>9
  <2> QED BY <2>2, <2>3, <2>4, <2>10 DEF c
<1> HIDE DEF c, s
<1> QED BY <1>1, <1>2, <1>3 DEF c

LEMMA NodeDecimalIs ==
  ASSUME NEW text, IsNumberText(text)
  PROVE  /\ NodeExactDecimal(text) = NoDecimal \/ NodeExactDecimal(text) = ExactDecimal(text)
         /\ Fits(text) => NodeExactDecimal(text) = ExactDecimal(text)
         /\ ExactDecimal(text) # NoDecimal
<1> DEFINE x == ExactDecimal(text)
<1>1. /\ IsDecimal(x)
      /\ x # Zero => /\ Exponent(text) - Len(text.frac) <= x.exp
                     /\ x.exp <= Exponent(text) + Len(text.int) - 1
  BY DecimalIs
<1>2. x # NoDecimal
  <2>1. NoDecimal.n = -1 /\ Zero.n = 0
    BY DEF NoDecimal, Zero
  <2>2. x.n \in Nat
    BY <1>1, <2>1 DEF IsDecimal
  <2> QED BY <2>1, <2>2
<1>3. ASSUME Fits(text), x # Zero PROVE FitsExp(x.exp)
  <2>1. x.exp \in Int
    BY <1>1, <1>3 DEF IsDecimal
  <2>2. ExpMax \in Nat
    BY NumbersAssumption
  <2>3. Exponent(text) \in Int /\ Len(text.int) \in Nat /\ Len(text.frac) \in Nat
    BY DEF IsNumberText, Exponent
  <2> HIDE DEF x
  <2> QED BY <1>1, <1>3, <2>1, <2>2, <2>3 DEF Fits, FitsExp
<1> HIDE DEF x
<1>4. /\ NodeExactDecimal(text) = NoDecimal \/ NodeExactDecimal(text) = x
      /\ Fits(text) => NodeExactDecimal(text) = x
  BY <1>3 DEF NodeExactDecimal, Fits, x
<1> QED BY <1>2, <1>4 DEF x

\* A double that is read has the sign of its text.
LEMMA DoublesHaveSigns ==
  ASSUME NEW text
  PROVE  ParseF64(text).neg = text.neg
<1>1. \A q, power : "neg" \in DOMAIN Bounded(q, power)
  BY DEF Bounded, Infinity
<1>2. \A q, power : "neg" \in DOMAIN Carried(q, power)
  BY <1>1 DEF Carried
<1>3. \A num, den, power : "neg" \in DOMAIN RoundedAt(num, den, power)
  BY <1>2 DEF RoundedAt
<1>4. \A num, den : "neg" \in DOMAIN Rounded(num, den)
  BY <1>3 DEF Rounded
<1>5. \A short : "neg" \in DOMAIN RoundedDecimal(short)
  BY <1>4 DEF RoundedDecimal
<1>6. \A exact : "neg" \in DOMAIN DoubleOf(exact)
  <2> TAKE exact
  <2>1. "neg" \in DOMAIN [neg |-> FALSE, q |-> 0, power |-> MinPower] /\ "neg" \in DOMAIN Infinity
    BY DEF Infinity
  <2> QED BY <1>5, <2>1 DEF DoubleOf
<1>7. \A d, neg : "neg" \in DOMAIN d => Signed(d, neg).neg = neg
  BY DEF Signed
<1> QED BY <1>6, <1>7 DEF ParseF64

LEMMA NumbersAreChecked == Committed /\ CheckNumbers => EqualByValue'
<1> SUFFICES ASSUME Committed, CheckNumbers PROVE EqualByValue'
  OBVIOUS
<1> DEFINE s == input.first
           t == input.second
           c == CanonicalNumber(s)
           d == CanonicalNumber(t)
<1>1. /\ input.kind = "numbers" /\ input' = input
      /\ verdict' = [of |-> "numbers", equal |-> NodeNumbersEqual(c, d), double |-> ParseF64(s),
                     exact |-> IsExactJsonNumber(s) /\ IsExactJsonNumber(t),
                     same |-> ParseF64(s) = ParseF64(t)]
  BY DEF CheckNumbers, Checks
<1>2. IsNumberText(s) /\ IsNumberText(t)
  BY <1>1 DEF Committed, ReadNumbers
<1>3. /\ IsNumberText(c) /\ RealValue(c) = RealValue(s) /\ (Fits(s) => Fits(c))
      /\ IsNumberText(d) /\ RealValue(d) = RealValue(t) /\ (Fits(t) => Fits(d))
  BY <1>2, CanonicalIs DEF Fits
<1>4. /\ verdict'.of = "numbers"
      /\ verdict'.equal = NodeNumbersEqual(c, d)
      /\ verdict'.exact = (IsExactJsonNumber(s) /\ IsExactJsonNumber(t))
      /\ verdict'.same = (ParseF64(s) = ParseF64(t))
  BY <1>1
<1> HIDE DEF s, t, c, d
<1>5. ASSUME NodeNumbersEqual(c, d) PROVE RealValue(s) = RealValue(t)
  <2>1. CASE c = d
    BY <1>3, <2>1
  <2>2. CASE NodeExactDecimal(c) # NoDecimal /\ NodeExactDecimal(c) = NodeExactDecimal(d)
    <3>1. ExactDecimal(c) = ExactDecimal(d)
      BY <1>3, <2>2, NodeDecimalIs
    <3>2. RealValue(c) = ValueOf(ExactDecimal(c)) /\ RealValue(d) = ValueOf(ExactDecimal(d))
      BY <1>3, DecimalIs
    <3> QED BY <1>3, <3>1, <3>2
  <2> QED BY <1>5, <2>1, <2>2 DEF NodeNumbersEqual
<1>6. ASSUME RealValue(s) = RealValue(t), Fits(s), Fits(t) PROVE NodeNumbersEqual(c, d)
  <2>1. /\ IsDecimal(ExactDecimal(c)) /\ RealValue(c) = ValueOf(ExactDecimal(c))
        /\ IsDecimal(ExactDecimal(d)) /\ RealValue(d) = ValueOf(ExactDecimal(d))
    BY <1>3, DecimalIs
  <2>2. ExactDecimal(c) = ExactDecimal(d)
    BY <1>3, <1>6, <2>1, DecimalsDiffer
  <2>3. NodeExactDecimal(c) = ExactDecimal(c) /\ NodeExactDecimal(d) = ExactDecimal(d)
        /\ ExactDecimal(c) # NoDecimal
    BY <1>3, <1>6, NodeDecimalIs
  <2> QED BY <2>2, <2>3 DEF NodeNumbersEqual
<1>7. ASSUME IsExactJsonNumber(s), IsExactJsonNumber(t), ParseF64(s) = ParseF64(t)
      PROVE  RealValue(s) = RealValue(t)
  <2>1. s.neg = t.neg
    BY <1>7, DoublesHaveSigns
  <2>2. ExactDecimal(s) = ExactDecimal(t)
    BY <1>7, <2>1 DEF IsExactJsonNumber, IsExactAs
  <2>3. RealValue(s) = ValueOf(ExactDecimal(s)) /\ RealValue(t) = ValueOf(ExactDecimal(t))
    BY <1>2, DecimalIs
  <2> QED BY <2>2, <2>3
<1>8. input'.first = s /\ input'.second = t
  BY <1>1 DEF s, t
<1> QED BY <1>4, <1>5, <1>6, <1>7, <1>8 DEF EqualByValue

-----------------------------------------------------------------------------
(* The theorems: in every state what is checked is committed to, and so a    *)
(* verdict is about what the chain has.                                      *)

\* Logs that verifyBlockCompleteness calls complete are the ones the chain
\* matched in the block, in order, and no others that are well formed are; it
\* gives no such verdict without both answers (completeness/client.ts).
THEOREM LogsAreComplete == ServedSpec => []CompleteIsAll
<1>1. verdict = NotChecked /\ Committed => Committed /\ CompleteIsAll
  BY Verdicts DEF CompleteIsAll
<1>2. Committed /\ CompleteIsAll /\ [CheckServed]_vars => Committed' /\ CompleteIsAll'
  <2> SUFFICES ASSUME Committed, CompleteIsAll, [CheckServed]_vars PROVE CompleteIsAll'
    BY CommittedStays
  <2>1. CASE CheckEvents
    BY <2>1, EventsAreChecked
  <2>2. CASE CheckTrie \/ CheckState \/ CheckRpc \/ CheckLayers \/ CheckNumbers
    BY <2>2, Verdicts DEF CompleteIsAll
  <2>3. CASE UNCHANGED vars
    BY <2>3 DEF CompleteIsAll, vars
  <2> QED BY <2>1, <2>2, <2>3 DEF CheckServed
<1> QED BY <1>1, <1>2, PTL DEF ServedSpec

\* A root that verify reports as transformed is one the attached chunks lead to
\* from the first one's start, each from where the one before it ends
\* (verifyTransformationProofs of verifiable-rpc).
THEOREM RootsAreReached == ServedSpec => []TransformedIsReached
<1>1. verdict = NotChecked /\ Committed => Committed /\ TransformedIsReached
  BY Verdicts DEF TransformedIsReached
<1>2. Committed /\ TransformedIsReached /\ [CheckServed]_vars => Committed' /\ TransformedIsReached'
  <2> SUFFICES ASSUME Committed, TransformedIsReached, [CheckServed]_vars PROVE TransformedIsReached'
    BY CommittedStays
  <2>1. CASE CheckRpc
    BY <2>1, TransformationsAreChecked
  <2>2. CASE CheckTrie \/ CheckState \/ CheckEvents \/ CheckLayers \/ CheckNumbers
    BY <2>2, Verdicts DEF TransformedIsReached
  <2>3. CASE UNCHANGED vars
    BY <2>3 DEF TransformedIsReached, vars, Reached
  <2> QED BY <2>1, <2>2, <2>3 DEF CheckServed
<1> QED BY <1>1, <1>2, PTL DEF ServedSpec

\* A value that is proven is the one the trie has at the key, an honest proof of
\* a key that is there is accepted unless a node of it is inline, and an account
\* and slots that verify are the state's (verifyMptProof, verifyStateProof).
THEOREM StateIsInTheTrie == ServedSpec => []ProvenIsInTheTrie
<1>1. verdict = NotChecked /\ Committed => Committed /\ ProvenIsInTheTrie
  BY Verdicts DEF ProvenIsInTheTrie
<1>2. Committed /\ ProvenIsInTheTrie /\ [CheckServed]_vars => Committed' /\ ProvenIsInTheTrie'
  <2> SUFFICES ASSUME Committed, ProvenIsInTheTrie, [CheckServed]_vars PROVE ProvenIsInTheTrie'
    BY CommittedStays
  <2>1. CASE CheckTrie
    BY <2>1, EntriesAreChecked
  <2>2. CASE CheckState
    BY <2>2, StateIsChecked
  <2>3. CASE CheckEvents \/ CheckRpc \/ CheckLayers \/ CheckNumbers
    BY <2>3, Verdicts DEF ProvenIsInTheTrie
  <2>4. CASE UNCHANGED vars
    BY <2>4 DEF ProvenIsInTheTrie, vars
  <2> QED BY <2>1, <2>2, <2>3, <2>4 DEF CheckServed
<1> QED BY <1>1, <1>2, PTL DEF ServedSpec

\* What a proof with the state's root proves at a path, an item, that a key is
\* absent or all the entries, is so in the state's tree there; and an honest
\* proof of it is accepted (verifySubgroveItem, verifyKeyAbsence,
\* verifyCompleteLayer, quickVerify).
THEOREM LayersAreSo == ServedSpec => []ProvenIsSo
<1>1. verdict = NotChecked /\ Committed => Committed /\ ProvenIsSo
  BY Verdicts DEF ProvenIsSo
<1>2. Committed /\ ProvenIsSo /\ [CheckServed]_vars => Committed' /\ ProvenIsSo'
  <2> SUFFICES ASSUME Committed, ProvenIsSo, [CheckServed]_vars PROVE ProvenIsSo'
    BY CommittedStays
  <2>1. CASE CheckLayers
    BY <2>1, LayersAreChecked
  <2>2. CASE CheckEvents \/ CheckTrie \/ CheckState \/ CheckRpc \/ CheckNumbers
    BY <2>2, Verdicts DEF ProvenIsSo
  <2>3. CASE UNCHANGED vars
    BY <2>3 DEF ProvenIsSo, vars
  <2> QED BY <2>1, <2>2, <2>3 DEF CheckServed
<1> QED BY <1>1, <1>2, PTL DEF ServedSpec

\* Numbers that are equal to a filter have one value, numbers of one value are
\* equal in whatever form they are written unless a power of ten in one does not
\* fit, and numbers taken to be exact that JavaScript reads as one have one value
\* (nodeNumbersEqual, isExactJsonNumber).
THEOREM NumbersAreEqualByValue == ServedSpec => []EqualByValue
<1>1. verdict = NotChecked /\ Committed => Committed /\ EqualByValue
  BY Verdicts DEF EqualByValue
<1>2. Committed /\ EqualByValue /\ [CheckServed]_vars => Committed' /\ EqualByValue'
  <2> SUFFICES ASSUME Committed, EqualByValue, [CheckServed]_vars PROVE EqualByValue'
    BY CommittedStays
  <2>1. CASE CheckNumbers
    BY <2>1, NumbersAreChecked
  <2>2. CASE CheckEvents \/ CheckTrie \/ CheckState \/ CheckRpc \/ CheckLayers
    BY <2>2, Verdicts DEF EqualByValue
  <2>3. CASE UNCHANGED vars
    BY <2>3 DEF EqualByValue, vars
  <2> QED BY <2>1, <2>2, <2>3 DEF CheckServed
<1> QED BY <1>1, <1>2, PTL DEF ServedSpec
=============================================================================
