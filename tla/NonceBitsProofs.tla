--------------------------- MODULE NonceBitsProofs --------------------------
(***************************************************************************)
(* Proof that the allocator of bits, bytes and clock readings (NonceBits)  *)
(* implements the allocator of sets and ages (AllocatorSpec).              *)
(***************************************************************************)
EXTENDS NonceBits, WellFoundedInduction, TLAPS

LEMMA LeastNat ==
  ASSUME NEW S, S \subseteq Nat, S # {}
  PROVE  \E n \in S : \A m \in S : n <= m
<1> DEFINE R == {ss \in Nat \X Nat : ss[1] < ss[2]}
<1>1. IsWellFoundedOn(R, Nat)
  BY NatLessThanWellFounded DEF OpToRel
<1>2. PICK n \in S : \A m \in S : ~(<<m, n>> \in R)
  <2> HIDE DEF R
  <2> QED BY <1>1, WFMin
<1>3. ASSUME NEW m \in S PROVE n <= m
  <2>1. <<m, n>> \in Nat \X Nat /\ ~(<<m, n>> \in R)
    BY <1>2
  <2>2. ~(m < n)
    BY <2>1
  <2> QED BY <2>2
<1> QED BY <1>3

LEMMA NatsByInduction ==
  ASSUME NEW S, 0 \in S, \A n \in Nat : n \in S => n + 1 \in S
  PROVE  Nat \subseteq S
<1> SUFFICES ASSUME Nat \ S # {} PROVE FALSE
  OBVIOUS
<1>1. PICK n \in Nat \ S : \A m \in Nat \ S : n <= m
  BY LeastNat
<1>2. n # 0 /\ n - 1 \in Nat /\ ~(n <= n - 1)
  BY <1>1
<1>3. n - 1 \in S
  BY <1>1, <1>2
<1>4. (n - 1) + 1 \in S
  BY <1>2, <1>3
<1> QED BY <1>1, <1>4

-----------------------------------------------------------------------------
(* Numbers and their digits *)

IsValues(f, digits, radix, n) ==
  f = [i \in 0 .. n |-> IF i = 0 THEN 0 ELSE f[i - 1] * radix + digits[i]]

IsQuotients(f, x, radix, n) ==
  f = [i \in 0 .. n |-> IF i = 0 THEN x ELSE f[i - 1] \div radix]

LEMMA ValuesExist ==
  ASSUME NEW digits, NEW radix, NEW n \in Nat
  PROVE  \E f : IsValues(f, digits, radix, n)
<1> DEFINE Has(m) == \E f : IsValues(f, digits, radix, m)
           Good == {m \in Nat : Has(m)}
<1>1. 0 \in Good
  <2> DEFINE f == [i \in 0 .. 0 |-> 0]
  <2>1. IsValues(f, digits, radix, 0)
    BY DEF IsValues
  <2> HIDE DEF f
  <2> QED BY <2>1
<1>2. ASSUME NEW m \in Nat, m \in Good PROVE m + 1 \in Good
  <2>1. PICK f : IsValues(f, digits, radix, m)
    BY <1>2
  <2> DEFINE g == [i \in 0 .. m + 1 |-> IF i = 0 THEN 0 ELSE f[i - 1] * radix + digits[i]]
  <2>2. \A i \in 0 .. m : i \in 0 .. m + 1 /\ g[i] = f[i]
    BY <2>1 DEF IsValues
  <2>3. \A i \in 0 .. m + 1 : i # 0 => i - 1 \in 0 .. m
    OBVIOUS
  <2>4. \A i \in 0 .. m + 1 : i # 0 => g[i - 1] = f[i - 1]
    <3> HIDE DEF g
    <3> QED BY <2>2, <2>3
  <2>5. \A i \in 0 .. m + 1 : g[i] = IF i = 0 THEN 0 ELSE g[i - 1] * radix + digits[i]
    <3>1. \A i \in 0 .. m + 1 : g[i] = IF i = 0 THEN 0 ELSE f[i - 1] * radix + digits[i]
      OBVIOUS
    <3> HIDE DEF g
    <3> QED BY <2>4, <3>1
  <2>6. g = [i \in 0 .. m + 1 |-> g[i]]
    OBVIOUS
  <2>7. IsValues(g, digits, radix, m + 1)
    <3> HIDE DEF g
    <3> QED BY <2>5, <2>6 DEF IsValues
  <2> HIDE DEF g
  <2> QED BY <2>7
<1>3. Nat \subseteq Good
  <2> HIDE DEF Good
  <2> QED BY <1>1, <1>2, NatsByInduction
<1> QED BY <1>3

LEMMA QuotientsExist ==
  ASSUME NEW x, NEW radix, NEW n \in Nat
  PROVE  \E f : IsQuotients(f, x, radix, n)
<1> DEFINE Has(m) == \E f : IsQuotients(f, x, radix, m)
           Good == {m \in Nat : Has(m)}
<1>1. 0 \in Good
  <2> DEFINE f == [i \in 0 .. 0 |-> x]
  <2>1. IsQuotients(f, x, radix, 0)
    BY DEF IsQuotients
  <2> HIDE DEF f
  <2> QED BY <2>1
<1>2. ASSUME NEW m \in Nat, m \in Good PROVE m + 1 \in Good
  <2>1. PICK f : IsQuotients(f, x, radix, m)
    BY <1>2
  <2> DEFINE g == [i \in 0 .. m + 1 |-> IF i = 0 THEN x ELSE f[i - 1] \div radix]
  <2>2. \A i \in 0 .. m : i \in 0 .. m + 1 /\ g[i] = f[i]
    BY <2>1 DEF IsQuotients
  <2>3. \A i \in 0 .. m + 1 : i # 0 => i - 1 \in 0 .. m
    OBVIOUS
  <2>4. \A i \in 0 .. m + 1 : i # 0 => g[i - 1] = f[i - 1]
    <3> HIDE DEF g
    <3> QED BY <2>2, <2>3
  <2>5. \A i \in 0 .. m + 1 : g[i] = IF i = 0 THEN x ELSE g[i - 1] \div radix
    <3>1. \A i \in 0 .. m + 1 : g[i] = IF i = 0 THEN x ELSE f[i - 1] \div radix
      OBVIOUS
    <3> HIDE DEF g
    <3> QED BY <2>4, <3>1
  <2>6. g = [i \in 0 .. m + 1 |-> g[i]]
    OBVIOUS
  <2>7. IsQuotients(g, x, radix, m + 1)
    <3> HIDE DEF g
    <3> QED BY <2>5, <2>6 DEF IsQuotients
  <2> HIDE DEF g
  <2> QED BY <2>7
<1>3. Nat \subseteq Good
  <2> HIDE DEF Good
  <2> QED BY <1>1, <1>2, NatsByInduction
<1> QED BY <1>3

\* The values of the first digits of a number, each from the one before.
LEMMA ValueSteps ==
  ASSUME NEW n \in Nat, NEW digits, Len(digits) = n, NEW radix
  PROVE  \E f : IsValues(f, digits, radix, n) /\ Value(digits, radix) = f[n]
<1> DEFINE upTo == CHOOSE f : IsValues(f, digits, radix, n)
<1>1. IsValues(upTo, digits, radix, n)
  <2>1. \E f : IsValues(f, digits, radix, n)
    BY ValuesExist
  <2> QED BY <2>1
<1>2. Value(digits, radix) = upTo[n]
  BY DEF Value, IsValues
<1> HIDE DEF upTo
<1> QED BY <1>1, <1>2

LEMMA QuotientSteps ==
  ASSUME NEW n \in Nat, NEW x, NEW radix
  PROVE  IsQuotients(Quotients(x, radix, n), x, radix, n)
<1> DEFINE left == CHOOSE f : IsQuotients(f, x, radix, n)
<1>1. IsQuotients(left, x, radix, n)
  <2>1. \E f : IsQuotients(f, x, radix, n)
    BY QuotientsExist
  <2> QED BY <2>1
<1>2. Quotients(x, radix, n) = left
  BY DEF Quotients, IsQuotients
<1> HIDE DEF left
<1> QED BY <1>1, <1>2

-----------------------------------------------------------------------------
(* The base, from its bytes *)

LEMMA QuotientTypes ==
  ASSUME NEW n \in Nat, NEW x \in Nat, NEW radix \in Nat \ {0}
  PROVE  /\ Quotients(x, radix, n)[0] = x
         /\ \A i \in 0 .. n : Quotients(x, radix, n)[i] \in Nat
         /\ \A i \in 1 .. n : Quotients(x, radix, n)[i] = Quotients(x, radix, n)[i - 1] \div radix
<1> DEFINE q == Quotients(x, radix, n)
           Good == {i \in Nat : i <= n => q[i] \in Nat}
<1>1. q = [i \in 0 .. n |-> IF i = 0 THEN x ELSE q[i - 1] \div radix]
  BY QuotientSteps DEF IsQuotients
<1> HIDE DEF q
<1>2. q[0] = x /\ \A i \in 1 .. n : q[i] = q[i - 1] \div radix
  <2>1. \A i \in 0 .. n : q[i] = IF i = 0 THEN x ELSE q[i - 1] \div radix
    BY <1>1
  <2> QED BY <2>1
<1>3. 0 \in Good
  BY <1>2
<1>4. ASSUME NEW i \in Nat, i \in Good PROVE i + 1 \in Good
  <2>1. CASE i + 1 <= n
    <3>1. i + 1 \in 1 .. n /\ (i + 1) - 1 = i /\ q[i] \in Nat
      BY <1>4, <2>1
    <3>2. q[i + 1] = q[i] \div radix
      BY <1>2, <3>1
    <3>3. q[i] \div radix \in Nat
      BY <3>1
    <3> QED BY <3>2, <3>3
  <2> QED BY <2>1
<1>5. Nat \subseteq Good
  <2> HIDE DEF Good
  <2> QED BY <1>3, <1>4, NatsByInduction
<1>6. \A i \in 0 .. n : q[i] \in Nat
  BY <1>5
<1> QED BY <1>2, <1>6 DEF q

LEMMA BaseRoundTrip ==
  ASSUME NEW base \in Nat, Quotients(base, ByteSize, BaseBytes)[BaseBytes] = 0
  PROVE  Value(BaseAsBytes(base), ByteSize) = base
<1> DEFINE N == BaseBytes
           B == ByteSize
           q == Quotients(base, B, N)
           digits == [i \in 1 .. N |-> q[N - i] % B]
<1>1. N \in Nat /\ B \in Nat \ {0} /\ BaseAsBytes(base) = digits /\ Len(digits) = N
  BY WidthAssumption DEF BaseAsBytes
<1>2. /\ q[0] = base
      /\ \A i \in 0 .. N : q[i] \in Nat
      /\ \A i \in 1 .. N : q[i] = q[i - 1] \div B
  BY <1>1, QuotientTypes
<1>3. \A i \in 1 .. N : digits[i] = q[N - i] % B
  OBVIOUS
<1>4. q[N] = 0
  OBVIOUS
<1> HIDE DEF N, B, q, digits
<1>5. PICK f : IsValues(f, digits, B, N) /\ Value(digits, B) = f[N]
  BY <1>1, ValueSteps
<1>6. f[0] = 0 /\ \A i \in 1 .. N : f[i] = f[i - 1] * B + digits[i]
  <2>1. \A i \in 0 .. N : f[i] = IF i = 0 THEN 0 ELSE f[i - 1] * B + digits[i]
    BY <1>5 DEF IsValues
  <2> QED BY <1>1, <2>1
<1> DEFINE Good == {i \in Nat : i <= N => f[i] = q[N - i]}
<1>7. 0 \in Good
  BY <1>1, <1>4, <1>6
<1>8. ASSUME NEW i \in Nat, i \in Good PROVE i + 1 \in Good
  <2>1. CASE i + 1 <= N
    <3>1. i + 1 \in 1 .. N /\ (i + 1) - 1 = i /\ f[i] = q[N - i]
      BY <1>1, <1>8, <2>1
    <3>2. N - i \in 1 .. N /\ (N - i) - 1 = N - (i + 1) /\ N - (i + 1) \in 0 .. N
      BY <1>1, <2>1
    <3>3. q[N - i] = q[N - (i + 1)] \div B /\ q[N - (i + 1)] \in Nat
      BY <1>2, <3>2
    <3>4. f[i + 1] = f[i] * B + digits[i + 1] /\ digits[i + 1] = q[N - (i + 1)] % B
      BY <1>3, <1>6, <3>1
    <3>5. ASSUME NEW y \in Nat PROVE (y \div B) * B + (y % B) = y
      BY <1>1, <3>5
    <3>6. f[i + 1] = q[N - (i + 1)]
      BY <3>1, <3>3, <3>4, <3>5
    <3> QED BY <3>6
  <2> QED BY <2>1
<1>9. Nat \subseteq Good
  <2> HIDE DEF Good
  <2> QED BY <1>7, <1>8, NatsByInduction
<1>10. f[N] = q[N - N]
  BY <1>1, <1>9
<1> QED BY <1>1, <1>2, <1>5, <1>10 DEF B

\* A byte has the bits it was made of.
LEMMA BitsOfValue ==
  ASSUME NEW digits \in [1 .. ByteBits -> {0, 1}]
  PROVE  Bits(Value(digits, 2)) = {b \in 0 .. ByteBits - 1 : digits[ByteBits - b] = 1}
<1> DEFINE N == ByteBits
<1>1. N \in Nat /\ Len(digits) = N
  BY WidthAssumption
<1>2. \A i \in 1 .. N : digits[i] \in {0, 1}
  OBVIOUS
<1> HIDE DEF N
<1>3. PICK f : IsValues(f, digits, 2, N) /\ Value(digits, 2) = f[N]
  BY <1>1, ValueSteps
<1>4. f[0] = 0 /\ \A i \in 1 .. N : f[i] = f[i - 1] * 2 + digits[i]
  <2>1. \A i \in 0 .. N : f[i] = IF i = 0 THEN 0 ELSE f[i - 1] * 2 + digits[i]
    BY <1>3 DEF IsValues
  <2> QED BY <1>1, <2>1
<1>5. \A i \in 0 .. N : f[i] \in Nat
  <2> DEFINE Good == {i \in Nat : i <= N => f[i] \in Nat}
  <2>1. 0 \in Good
    BY <1>4
  <2>2. ASSUME NEW i \in Nat, i \in Good PROVE i + 1 \in Good
    <3>1. CASE i + 1 <= N
      <4>1. i + 1 \in 1 .. N /\ (i + 1) - 1 = i /\ f[i] \in Nat
        BY <1>1, <2>2, <3>1
      <4>2. f[i + 1] = f[i] * 2 + digits[i + 1] /\ digits[i + 1] \in {0, 1}
        BY <1>2, <1>4, <4>1
      <4> QED BY <4>1, <4>2
    <3> QED BY <3>1
  <2>3. Nat \subseteq Good
    <3> HIDE DEF Good
    <3> QED BY <2>1, <2>2, NatsByInduction
  <2> QED BY <2>3
<1> DEFINE q == Quotients(f[N], 2, N)
<1>6. f[N] \in Nat
  BY <1>1, <1>5
<1>7. q[0] = f[N] /\ \A i \in 1 .. N : q[i] = q[i - 1] \div 2
  BY <1>1, <1>6, QuotientTypes
<1> HIDE DEF q
<1>8. \A i \in 0 .. N : q[i] = f[N - i]
  <2> DEFINE Good == {i \in Nat : i <= N => q[i] = f[N - i]}
  <2>1. 0 \in Good
    BY <1>1, <1>7
  <2>2. ASSUME NEW i \in Nat, i \in Good PROVE i + 1 \in Good
    <3>1. CASE i + 1 <= N
      <4>1. i + 1 \in 1 .. N /\ (i + 1) - 1 = i /\ q[i] = f[N - i]
        BY <1>1, <2>2, <3>1
      <4>2. N - i \in 1 .. N /\ (N - i) - 1 = N - (i + 1) /\ N - (i + 1) \in 0 .. N
        BY <1>1, <3>1
      <4>3. f[N - i] = f[N - (i + 1)] * 2 + digits[N - i] /\ digits[N - i] \in {0, 1}
        BY <1>2, <1>4, <4>2
      <4>4. f[N - (i + 1)] \in Nat
        BY <1>5, <4>2
      <4>5. q[i + 1] = q[i] \div 2
        BY <1>7, <4>1
      <4>6. q[i + 1] = f[N - (i + 1)]
        BY <4>1, <4>3, <4>4, <4>5
      <4> QED BY <4>6
    <3> QED BY <3>1
  <2>3. Nat \subseteq Good
    <3> HIDE DEF Good
    <3> QED BY <2>1, <2>2, NatsByInduction
  <2> QED BY <2>3
<1>9. ASSUME NEW b \in 0 .. N - 1 PROVE q[b] % 2 = 1 <=> digits[N - b] = 1
  <2>1. N - b \in 1 .. N /\ (N - b) - 1 \in 0 .. N /\ b \in 0 .. N
    BY <1>1, <1>9
  <2>2. q[b] = f[(N - b) - 1] * 2 + digits[N - b] /\ digits[N - b] \in {0, 1}
    BY <1>2, <1>4, <1>8, <2>1
  <2>3. f[(N - b) - 1] \in Nat
    BY <1>5, <2>1
  <2> QED BY <2>2, <2>3
<1>10. Bits(f[N]) = {b \in 0 .. N - 1 : q[b] % 2 = 1}
  BY DEF Bits, q, N
<1>11. Bits(f[N]) = {b \in 0 .. N - 1 : digits[N - b] = 1}
  BY <1>9, <1>10
<1> QED BY <1>3, <1>11 DEF N

-----------------------------------------------------------------------------
(* The used nonces, from the bitmap *)

LEMMA TimesMonotone ==
  ASSUME NEW a \in Nat, NEW b \in Nat, NEW c \in Nat, a <= b
  PROVE  a * c <= b * c
<1>1. PICK d \in Nat : b = a + d
  <2>1. b - a \in Nat /\ b = a + (b - a)
    OBVIOUS
  <2> QED BY <2>1
<1>2. b * c = a * c + d * c
  BY <1>1
<1>3. d * c \in Nat /\ a * c \in Nat
  BY <1>1
<1> QED BY <1>2, <1>3

\* The bits of the bitmap's bytes are those of the window.
LEMMA BitOfByte ==
  ASSUME NEW o \in Int
  PROVE  o \in WindowMask <=> \E i \in 1 .. MapBytes : o - ByteBits * (i - 1) \in 0 .. ByteBits - 1
<1> DEFINE B == ByteBits
           M == MapBytes
<1>1. B \in Nat \ {0} /\ M \in Nat \ {0} /\ NONCE_WINDOW = B * M
  BY WidthAssumption DEF NONCE_WINDOW
<1> HIDE DEF B, M
<1>2. ASSUME o \in WindowMask PROVE \E i \in 1 .. M : o - B * (i - 1) \in 0 .. B - 1
  <2>1. o \in Nat /\ o < B * M
    BY <1>1, <1>2 DEF WindowMask
  <2> DEFINE q == o \div B
             r == o % B
  <2>2. q \in Nat /\ r \in 0 .. B - 1 /\ o = q * B + r
    BY <1>1, <2>1
  <2> HIDE DEF q, r
  <2>3. q < M
    <3> SUFFICES ASSUME M <= q PROVE FALSE
      BY <1>1, <2>2
    <3>1. M * B <= q * B
      BY <1>1, <2>2, TimesMonotone
    <3>2. M * B = B * M /\ B * M \in Nat /\ q * B \in Nat
      BY <1>1, <2>2
    <3> QED BY <2>1, <2>2, <3>1, <3>2
  <2>4. q + 1 \in 1 .. M /\ (q + 1) - 1 = q
    BY <1>1, <2>2, <2>3
  <2>5. B * q = q * B /\ q * B \in Nat
    BY <1>1, <2>2
  <2>6. o - B * ((q + 1) - 1) = r
    BY <2>2, <2>4, <2>5
  <2> QED BY <2>2, <2>4, <2>6
<1>3. ASSUME NEW i \in 1 .. M, o - B * (i - 1) \in 0 .. B - 1 PROVE o \in WindowMask
  <2> DEFINE k == i - 1
             p == B * k
  <2>1. k \in Nat /\ M - 1 \in Nat /\ k <= M - 1
    BY <1>1
  <2>2. p \in Nat /\ p <= (M - 1) * B /\ (M - 1) * B \in Nat
    <3> HIDE DEF k
    <3>1. k * B <= (M - 1) * B
      BY <1>1, <2>1, TimesMonotone
    <3>2. B * k = k * B /\ k * B \in Nat /\ (M - 1) * B \in Nat
      BY <1>1, <2>1
    <3> QED BY <3>1, <3>2
  <2>3. (M - 1) * B = B * M - B
    BY <1>1
  <2>4. o - p \in 0 .. B - 1
    BY <1>3
  <2> HIDE DEF k, p
  <2>5. B * M \in Nat
    BY <1>1
  <2>6. o \in Nat /\ o < B * M
    BY <1>1, <2>2, <2>3, <2>4, <2>5
  <2> QED BY <1>1, <2>6 DEF WindowMask
<1> QED BY <1>2, <1>3 DEF B, M

\* A shift by less than a word's bits is by its count.
LEMMA CountsAreKept ==
  ASSUME NEW count \in 0 .. WordBits - 1
  PROVE  count % WordBits = count
BY WidthAssumption

LEMMA WindowFitsWords ==
  /\ WordBits \in Nat /\ NONCE_WINDOW \in Nat \ {0} /\ NONCE_WINDOW < WordBits
  /\ WindowMask = 0 .. NONCE_WINDOW - 1
  /\ MaxSafe - NONCE_WINDOW \in Nat /\ MaxSafe \in Nat
<1>1. ByteBits \in Nat \ {0} /\ MapBytes \in Nat \ {0}
  BY WidthAssumption
<1>2. ByteBits * MapBytes \in Nat /\ ByteBits * MapBytes # 0
  BY <1>1
<1>3. NONCE_WINDOW \in Nat \ {0}
  BY <1>2 DEF NONCE_WINDOW
<1> QED BY <1>3, WidthAssumption DEF WindowMask

Entries(f) == {f[i] : i \in DOMAIN f}

LEMMA UsedRoundTrip ==
  ASSUME NEW r \in Reports, NEW bytes, \A i \in 1 .. MapBytes : bytes[BaseBytes + i] = UsedAsBytes(r)[i]
  PROVE  UsedOf(bytes) = {o \in WindowMask : r.base + 1 + o \in r.used}
<1>1. r.base \in Nat
  BY ReportsAssumption
<1>2. ASSUME NEW i \in 1 .. MapBytes
      PROVE  ShiftLeft(Bits(bytes[BaseBytes + i]), ByteBits * (i - 1)) =
               {o \in WindowMask : o - ByteBits * (i - 1) \in 0 .. ByteBits - 1 /\ r.base + 1 + o \in r.used}
  <2> DEFINE p == ByteBits * (i - 1)
             digits == [j \in 1 .. ByteBits |->
                          IF r.base + 1 + p + ByteBits - j \in r.used THEN 1 ELSE 0]
  <2>1. ByteBits \in Nat \ {0} /\ MapBytes \in Nat \ {0} /\ i - 1 \in Nat
    BY WidthAssumption
  <2>2. p \in Nat
    BY <2>1
  <2>3. digits \in [1 .. ByteBits -> {0, 1}]
    OBVIOUS
  <2>4. bytes[BaseBytes + i] = Value(digits, 2)
    BY DEF UsedAsBytes
  <2>5. \A j \in 1 .. ByteBits : digits[j] = 1 <=> r.base + 1 + p + ByteBits - j \in r.used
    OBVIOUS
  <2>6. p \in WindowMask
    <3>1. p - ByteBits * (i - 1) \in 0 .. ByteBits - 1
      BY <2>1, <2>2
    <3> HIDE DEF p
    <3> QED BY <2>2, <3>1, BitOfByte
  <2> HIDE DEF p, digits
  <2>7. Bits(bytes[BaseBytes + i]) = {b \in 0 .. ByteBits - 1 : digits[ByteBits - b] = 1}
    BY <2>3, <2>4, BitsOfValue
  <2>8. ASSUME NEW b \in 0 .. ByteBits - 1
        PROVE  digits[ByteBits - b] = 1 <=> r.base + 1 + (p + b) \in r.used
    <3>1. ByteBits - b \in 1 .. ByteBits
      BY <2>1
    <3>2. r.base + 1 + p + ByteBits - (ByteBits - b) = r.base + 1 + (p + b)
      BY <1>1, <2>1, <2>2
    <3> QED BY <2>5, <3>1, <3>2
  <2>9. p % WordBits = p
    BY <2>6, WindowFitsWords, CountsAreKept
  <2>10. ShiftLeft(Bits(bytes[BaseBytes + i]), p) =
           {o \in 0 .. WordBits - 1 : o - p \in 0 .. ByteBits - 1 /\ r.base + 1 + o \in r.used}
    <3>1. ASSUME NEW o \in 0 .. WordBits - 1
          PROVE  o - p \in Bits(bytes[BaseBytes + i]) <=>
                   o - p \in 0 .. ByteBits - 1 /\ r.base + 1 + o \in r.used
      <4>1. o \in Int /\ p + (o - p) = o
        BY <2>2, WindowFitsWords
      <4>2. CASE o - p \in 0 .. ByteBits - 1
        <5>1. digits[ByteBits - (o - p)] = 1 <=> r.base + 1 + (p + (o - p)) \in r.used
          BY <2>8, <4>2
        <5> QED BY <2>7, <4>1, <4>2, <5>1
      <4>3. CASE o - p \notin 0 .. ByteBits - 1
        BY <2>7, <4>3
      <4> QED BY <4>2, <4>3
    <3> QED BY <2>9, <3>1 DEF ShiftLeft
  <2>11. \A o \in 0 .. WordBits - 1 : o - p \in 0 .. ByteBits - 1 => o \in WindowMask
    <3> TAKE o \in 0 .. WordBits - 1
    <3>1. o \in Int
      BY WindowFitsWords
    <3> QED BY <3>1, BitOfByte DEF p
  <2>12. WindowMask \subseteq 0 .. WordBits - 1
    BY WindowFitsWords
  <2> QED BY <2>10, <2>11, <2>12 DEF p
<1>3. \A o : o \in UsedOf(bytes) <=>
               \E i \in 1 .. MapBytes : o \in ShiftLeft(Bits(bytes[BaseBytes + i]), ByteBits * (i - 1))
  BY DEF UsedOf
<1>4. WindowMask \subseteq Int
  BY WindowFitsWords
<1> QED BY <1>2, <1>3, <1>4, BitOfByte

LEMMA ReportTypes ==
  ASSUME NEW r \in Reports
  PROVE  /\ r \in [base : Nat, used : SUBSET Nat]
         /\ r.used \subseteq r.base + 1 .. r.base + NONCE_WINDOW
         /\ Quotients(r.base, ByteSize, BaseBytes)[BaseBytes] = 0
BY ReportsAssumption

\* What the chain sends is read as the state it sent.
LEMMA ParseRoundTrip ==
  ASSUME NEW r \in Reports, NEW bytes \in Encodings(r)
  PROVE  /\ Parse(bytes) = [base |-> r.base, used |-> {o \in WindowMask : r.base + 1 + o \in r.used}]
         /\ ~ParseFails(bytes) => r.base \in 0 .. MaxSafe - NONCE_WINDOW
<1> DEFINE head == BaseAsBytes(r.base)
           map == UsedAsBytes(r)
<1>1. r.base \in Nat
  BY ReportTypes
<1>2. /\ BaseBytes \in Nat \ {0} /\ MapBytes \in Nat \ {0}
      /\ head = [i \in 1 .. BaseBytes |-> head[i]] /\ map = [i \in 1 .. MapBytes |-> map[i]]
  BY WidthAssumption DEF BaseAsBytes, UsedAsBytes
<1>3. Value(head, ByteSize) = r.base
  BY <1>1, ReportTypes, BaseRoundTrip
<1>4. CASE bytes = head \o map
  <2> HIDE DEF head, map
  <2>1. /\ Len(head) = BaseBytes /\ Len(map) = MapBytes
        /\ Len(bytes) = BaseBytes + MapBytes
        /\ \A i \in 1 .. BaseBytes : bytes[i] = head[i]
        /\ \A i \in 1 .. MapBytes : bytes[BaseBytes + i] = map[i]
    <3>1. head \in [1 .. BaseBytes -> Entries(head)] /\ map \in [1 .. MapBytes -> Entries(map)]
      BY <1>2 DEF Entries
    <3>2. ASSUME NEW n \in Nat, NEW S, NEW f \in [1 .. n -> S] PROVE f \in Seq(S)
      OBVIOUS
    <3>3. head \in Seq(Entries(head)) /\ map \in Seq(Entries(map))
      BY <1>2, <3>1, <3>2
    <3> QED BY <1>2, <1>4, <3>1, <3>3
  <2>2. BaseOf(bytes) = r.base
    BY <1>2, <1>3, <2>1 DEF BaseOf
  <2>3. bytes # <<>>
    BY <1>2, <2>1
  <2>4. UsedOf(bytes) = {o \in WindowMask : r.base + 1 + o \in r.used}
    BY <2>1, UsedRoundTrip DEF map
  <2> QED BY <1>1, <2>1, <2>2, <2>3, <2>4, WindowFitsWords DEF Parse, ParseFails
<1>5. CASE bytes = head /\ r.used = {}
  <2>1. Len(bytes) = BaseBytes /\ bytes # <<>> /\ Len(bytes) # BaseBytes + MapBytes
    BY <1>2, <1>5
  <2>2. BaseOf(bytes) = r.base
    BY <1>2, <1>3, <1>5 DEF BaseOf
  <2>3. {o \in WindowMask : r.base + 1 + o \in r.used} = {}
    BY <1>5
  <2>4. Parse(bytes) = [base |-> r.base, used |-> {}]
    BY <2>1, <2>2 DEF Parse
  <2>5. ~ParseFails(bytes) => r.base \in 0 .. MaxSafe - NONCE_WINDOW
    BY <1>1, <2>1, <2>2, WindowFitsWords DEF ParseFails
  <2> QED BY <2>3, <2>4, <2>5
<1>6. CASE bytes = <<>> /\ r.used = {} /\ r.base = 0
  <2>1. {o \in WindowMask : r.base + 1 + o \in r.used} = {}
    BY <1>6
  <2>2. Parse(bytes) = [base |-> r.base, used |-> {}]
    BY <1>6 DEF Parse
  <2> QED BY <1>6, <2>1, <2>2, WindowFitsWords
<1> QED BY <1>4, <1>5, <1>6 DEF Encodings

-----------------------------------------------------------------------------
(* Words and the sets of nonces they mark *)

WordStates == [base : Nat, used : SUBSET WindowMask]

AsSets(state) == [base |-> state.base, used |-> Marked(state)]

LEMMA MarkedAre ==
  ASSUME NEW state \in WordStates, NEW n \in Int
  PROVE  /\ n \in Marked(state) <=> n - state.base - 1 \in state.used
         /\ n \in Marked(state) => n \in state.base + 1 .. state.base + NONCE_WINDOW
<1>1. state.base \in Nat /\ state.used \subseteq WindowMask /\ WindowMask \subseteq Int
  BY WindowFitsWords DEF WordStates
<1>2. ASSUME n \in Marked(state) PROVE n - state.base - 1 \in state.used
  <2>1. PICK b \in state.used : n = state.base + 1 + b
    BY <1>2 DEF Marked
  <2>2. b \in Int
    BY <1>1
  <2>3. n - state.base - 1 = b
    BY <1>1, <2>1, <2>2
  <2> QED BY <2>3
<1>3. ASSUME n - state.base - 1 \in state.used PROVE n \in Marked(state)
  <2>1. n = state.base + 1 + (n - state.base - 1)
    BY <1>1
  <2> QED BY <1>3, <2>1 DEF Marked
<1>4. n - state.base - 1 \in WindowMask => n \in state.base + 1 .. state.base + NONCE_WINDOW
  BY <1>1, WindowFitsWords
<1> QED BY <1>1, <1>2, <1>3, <1>4

LEMMA MarkedAreNat ==
  ASSUME NEW state \in WordStates
  PROVE  Marked(state) \subseteq Nat /\ AsSets(state) \in [base : Nat, used : SUBSET Nat]
<1>1. state.base \in Nat /\ state.used \subseteq WindowMask /\ WindowMask \subseteq Nat
  BY WindowFitsWords DEF WordStates
<1>2. Marked(state) \subseteq Nat
  <2>1. ASSUME NEW b \in state.used PROVE state.base + 1 + b \in Nat
    <3>1. b \in Nat
      BY <1>1
    <3> QED BY <1>1, <3>1
  <2> QED BY <2>1 DEF Marked
<1> QED BY <1>1, <1>2 DEF AsSets

LEMMA SameUsed ==
  ASSUME NEW state \in WordStates, NEW n \in Nat
  PROVE  IsUsed(state, n) <=> Abstract!IsUsed(AsSets(state), n)
<1>1. state.base \in Nat /\ state.used \subseteq WindowMask
  BY DEF WordStates
<1>2. CASE n <= state.base
  BY <1>2 DEF IsUsed, AsSets, Abstract!IsUsed
<1>3. CASE ~(n <= state.base)
  <2> DEFINE offset == n - state.base - 1
  <2>1. offset \in Nat
    BY <1>1, <1>3
  <2>2. IsUsed(state, n) <=> offset < NONCE_WINDOW /\ state.used \cap ShiftLeft({0}, offset) # {}
    BY <1>3 DEF IsUsed
  <2>3. Abstract!IsUsed(AsSets(state), n) <=> offset \in state.used
    BY <1>3, MarkedAre DEF Abstract!IsUsed, AsSets
  <2> HIDE DEF offset
  <2>4. offset < NONCE_WINDOW => ShiftLeft({0}, offset) = {offset}
    <3> HAVE offset < NONCE_WINDOW
    <3>1. offset \in 0 .. WordBits - 1
      BY <2>1, WindowFitsWords
    <3>2. offset % WordBits = offset
      BY <3>1, CountsAreKept
    <3>3. \A b \in 0 .. WordBits - 1 : b - offset \in {0} <=> b = offset
      BY <2>1, WindowFitsWords
    <3> QED BY <3>1, <3>2, <3>3 DEF ShiftLeft
  <2>5. offset \in state.used => offset < NONCE_WINDOW
    BY <1>1, <2>1, WindowFitsWords
  <2> QED BY <2>2, <2>3, <2>4, <2>5
<1> QED BY <1>2, <1>3

\* The bits above a base are those of the nonces above it, however far it moved.
LEMMA SameUsedAbove ==
  ASSUME NEW state \in WordStates, NEW base \in Nat, state.base <= base
  PROVE  /\ UsedAbove(state, base) \subseteq WindowMask
         /\ \A n \in Int : n - base - 1 \in UsedAbove(state, base)
                             <=> n \in Abstract!UsedAbove(AsSets(state), base)
<1> DEFINE shift == base - state.base
<1>1. state.base \in Nat /\ state.used \subseteq WindowMask /\ shift \in Nat
  BY DEF WordStates
<1>2. ASSUME NEW n \in Int
      PROVE  n \in Abstract!UsedAbove(AsSets(state), base)
               <=> n - state.base - 1 \in state.used /\ n > base
  BY MarkedAre DEF Abstract!UsedAbove, AsSets
<1>3. CASE shift >= NONCE_WINDOW
  <2>1. UsedAbove(state, base) = {}
    BY <1>3 DEF UsedAbove
  <2>2. ASSUME NEW n \in Int, n - state.base - 1 \in state.used PROVE ~(n > base)
    <3>1. n - state.base - 1 < NONCE_WINDOW
      BY <1>1, <2>2, WindowFitsWords
    <3> QED BY <1>1, <1>3, <3>1, WindowFitsWords
  <2> QED BY <1>2, <2>1, <2>2
<1>4. CASE ~(shift >= NONCE_WINDOW)
  <2>1. UsedAbove(state, base) = ShiftRight(state.used, shift) \cap WindowMask
    BY <1>4 DEF UsedAbove
  <2>2. shift % WordBits = shift
    <3>1. shift \in 0 .. WordBits - 1
      BY <1>1, <1>4, WindowFitsWords
    <3> HIDE DEF shift
    <3> QED BY <3>1, CountsAreKept
  <2>3. \A b : b \in UsedAbove(state, base) <=> b \in WindowMask /\ b + shift \in state.used
    <3>1. WindowMask \subseteq 0 .. WordBits - 1
      BY WindowFitsWords
    <3> QED BY <2>1, <2>2, <3>1 DEF ShiftRight
  <2>4. ASSUME NEW n \in Int
        PROVE  n - base - 1 \in UsedAbove(state, base) <=> n - state.base - 1 \in state.used /\ n > base
    <3>1. (n - base - 1) + shift = n - state.base - 1
      BY <1>1
    <3>2. n - state.base - 1 \in state.used => n - state.base - 1 < NONCE_WINDOW
      BY <1>1, WindowFitsWords
    <3>3. n - base - 1 \in WindowMask <=> n > base /\ n - base - 1 < NONCE_WINDOW
      BY WindowFitsWords
    <3>4. n - state.base - 1 < NONCE_WINDOW => n - base - 1 < NONCE_WINDOW
      BY <1>1, WindowFitsWords
    <3> QED BY <2>3, <3>1, <3>2, <3>3, <3>4
  <2>5. UsedAbove(state, base) \subseteq WindowMask
    BY <2>1
  <2> QED BY <1>2, <2>4, <2>5
<1> QED BY <1>3, <1>4

LEMMA SameMerge ==
  ASSUME NEW a \in WordStates, NEW b \in WordStates
  PROVE  /\ MergeStates(a, b) \in WordStates
         /\ MergeStates(a, b).base \in {a.base, b.base}
         /\ AsSets(MergeStates(a, b)) = Abstract!MergeStates(AsSets(a), AsSets(b))
<1> DEFINE base == IF a.base >= b.base THEN a.base ELSE b.base
           used == UsedAbove(a, base) \cup UsedAbove(b, base)
           above == Abstract!UsedAbove(AsSets(a), base) \cup Abstract!UsedAbove(AsSets(b), base)
<1>1. base \in Nat /\ a.base <= base /\ b.base <= base /\ base \in {a.base, b.base}
  BY DEF WordStates
<1>2. MergeStates(a, b) = [base |-> base, used |-> used]
  BY DEF MergeStates
<1>3. Abstract!MergeStates(AsSets(a), AsSets(b)) = [base |-> base, used |-> above]
  BY DEF Abstract!MergeStates, AsSets
<1> HIDE DEF base
<1>4. used \subseteq WindowMask /\ \A n \in Int : n - base - 1 \in used <=> n \in above
  BY <1>1, SameUsedAbove
<1>5. above \subseteq Nat
  BY MarkedAreNat DEF Abstract!UsedAbove, AsSets
<1> HIDE DEF used, above
<1> DEFINE merged == [base |-> base, used |-> used]
<1>6. merged \in WordStates
  BY <1>1, <1>4 DEF WordStates
<1>7. Marked(merged) = above
  <2>1. \A n \in Nat : n \in Marked(merged) <=> n \in above
    BY <1>4, <1>6, MarkedAre
  <2>2. Marked(merged) \subseteq Nat
    BY <1>6, MarkedAreNat
  <2> QED BY <1>5, <2>1, <2>2
<1> QED BY <1>1, <1>2, <1>3, <1>6, <1>7 DEF AsSets

\* What is read of the chain's answer is the chain's state.
LEMMA SameParse ==
  ASSUME NEW r \in Reports, NEW bytes \in Encodings(r)
  PROVE  /\ Parse(bytes) \in WordStates /\ Parse(bytes).base = r.base
         /\ ~ParseFails(bytes) => r.base \in 0 .. MaxSafe - NONCE_WINDOW
         /\ AsSets(Parse(bytes)) = r
<1> DEFINE used == {o \in WindowMask : r.base + 1 + o \in r.used}
           state == [base |-> r.base, used |-> used]
<1>1. r = [base |-> r.base, used |-> r.used] /\ r.base \in Nat
      /\ r.used \subseteq r.base + 1 .. r.base + NONCE_WINDOW
  BY ReportTypes
<1>2. Parse(bytes) = state /\ (~ParseFails(bytes) => r.base \in 0 .. MaxSafe - NONCE_WINDOW)
  BY ParseRoundTrip
<1>3. state \in WordStates
  BY <1>1 DEF WordStates
<1>4. \A n \in Nat : n \in Marked(state) <=> n \in r.used
  <2> TAKE n \in Nat
  <2>1. n \in Marked(state) <=> n - r.base - 1 \in used
    BY <1>3, MarkedAre
  <2>2. r.base + 1 + (n - r.base - 1) = n
    BY <1>1
  <2>3. n \in r.used => n - r.base - 1 \in WindowMask
    BY <1>1, WindowFitsWords
  <2> QED BY <2>1, <2>2, <2>3
<1>5. Marked(state) = r.used
  <2>1. Marked(state) \subseteq Nat
    BY <1>3, MarkedAreNat
  <2>2. r.used \subseteq Nat
    BY ReportTypes
  <2> QED BY <1>4, <2>1, <2>2
<1>6. AsSets(state) = r
  BY <1>1, <1>5 DEF AsSets
<1> HIDE DEF used
<1> QED BY <1>2, <1>3, <1>6

-----------------------------------------------------------------------------
(* Holds and their ages *)

AgesOf(held) == [n \in DOMAIN held |-> AgeOf(held[n])]

LEMMA SomeState ==
  ASSUME NEW state \in WordStates
  PROVE  state # NoAnswer /\ AsSets(state) # NoAnswer
<1>1. state \in [base : Nat, used : SUBSET Nat]
  BY WindowFitsWords DEF WordStates
<1> QED BY <1>1, MarkedAreNat, NonceAssumption

LEMMA LatestTypes ==
  ASSUME TypeOK, latest # NoAnswer
  PROVE  latest \in WordStates /\ latest.base \in 0 .. MaxSafe - NONCE_WINDOW
BY WindowFitsWords DEF TypeOK, WordStates

\* The state a take works with is the one AllocatorSpec's does.
LEMMA SameSeen ==
  ASSUME TypeOK, NEW answer, NEW r,
         \/ answer = NoAnswer /\ r = NoAnswer
         \/ answer # NoAnswer /\ r \in Reports /\ answer \in Encodings(r) /\ ~ParseFails(answer),
         Seen(answer) # NoAnswer
  PROVE  /\ Seen(answer) \in WordStates /\ Seen(answer).base \in 0 .. MaxSafe - NONCE_WINDOW
         /\ Abstract!Seen(r) = AsSets(Seen(answer))
<1>1. CASE answer = NoAnswer /\ r = NoAnswer
  <2>1. Seen(answer) = latest /\ latest # NoAnswer
    BY <1>1 DEF Seen
  <2> QED BY <1>1, <2>1, LatestTypes DEF Abstract!Seen, AsSets
<1>2. CASE answer # NoAnswer /\ r \in Reports /\ answer \in Encodings(r) /\ ~ParseFails(answer)
  <2> DEFINE read == Parse(answer)
  <2>1. read \in WordStates /\ read.base \in 0 .. MaxSafe - NONCE_WINDOW /\ AsSets(read) = r
    BY <1>2, SameParse
  <2>2. r # NoAnswer
    BY <2>1, SomeState
  <2>3. CASE latest = NoAnswer
    <3>1. Seen(answer) = read
      BY <1>2, <2>3 DEF Seen
    <3>2. Abstract!Seen(r) = r
      BY <2>2, <2>3 DEF Abstract!Seen
    <3> HIDE DEF read
    <3> QED BY <2>1, <3>1, <3>2
  <2>4. CASE latest # NoAnswer
    <3>1. Seen(answer) = MergeStates(latest, read)
      BY <1>2, <2>4 DEF Seen
    <3>2. AsSets(latest) # NoAnswer
      BY <2>4, LatestTypes, SomeState
    <3>3. Abstract!Seen(r) = Abstract!MergeStates(AsSets(latest), r)
      BY <2>2, <2>4, <3>2 DEF Abstract!Seen, AsSets
    <3> HIDE DEF read
    <3> QED BY <2>1, <2>4, <3>1, <3>3, LatestTypes, SameMerge
  <2> QED BY <2>3, <2>4
<1> QED BY <1>1, <1>2

LEMMA HoldTypes ==
  ASSUME TypeOK
  PROVE  /\ clock \in Nat /\ HoldMs \in Nat \ {0}
         /\ DOMAIN taken \subseteq Nat
         /\ \A n \in DOMAIN taken : n \in Nat /\ taken[n] \in Nat /\ taken[n] <= clock
BY WidthAssumption, WindowFitsWords DEF TypeOK

\* The holds that are kept are the same, by the clock and by their ages.
LEMMA SameKept ==
  ASSUME TypeOK, NEW state \in WordStates
  PROVE  Abstract!Kept(AsSets(state), AgesOf(taken)) = AgesOf(Kept(state))
<1> DEFINE stays == {n \in DOMAIN taken : ~IsUsed(state, n) /\ clock - taken[n] < HoldMs}
<1>1. Kept(state) = [m \in stays |-> taken[m]]
  BY DEF Kept
<1>2. AgesOf(Kept(state)) = [m \in stays |-> AgeOf(taken[m])]
  BY <1>1 DEF AgesOf
<1>3. \A n \in DOMAIN taken : AgeOf(taken[n]) < HoldMs <=> clock - taken[n] < HoldMs
  BY HoldTypes DEF AgeOf
<1>4. stays = {n \in DOMAIN AgesOf(taken) : ~Abstract!IsUsed(AsSets(state), n) /\ AgesOf(taken)[n] < HoldMs}
  <2>1. \A n \in DOMAIN taken : IsUsed(state, n) <=> Abstract!IsUsed(AsSets(state), n)
    BY HoldTypes, SameUsed
  <2> QED BY <1>3, <2>1 DEF AgesOf
<1>5. \A m \in stays : AgesOf(taken)[m] = AgeOf(taken[m])
  BY DEF AgesOf
<1> HIDE DEF stays
<1>6. Abstract!Kept(AsSets(state), AgesOf(taken)) = [m \in stays |-> AgesOf(taken)[m]]
  BY <1>4 DEF Abstract!Kept
<1> QED BY <1>2, <1>5, <1>6

LEMMA SameWithHold ==
  ASSUME TypeOK, NEW held, NEW n
  PROVE  Abstract!WithHold(AgesOf(held), n) = AgesOf(WithHold(held, n))
<1>1. AgeOf(clock) = 0
  BY HoldTypes DEF AgeOf
<1> QED BY <1>1 DEF Abstract!WithHold, AgesOf, WithHold

-----------------------------------------------------------------------------
(* The steps *)

\* The answers a take may be given.
IsAnswer(answer, r) ==
  \/ answer = NoAnswer /\ r = NoAnswer
  \/ answer # NoAnswer /\ r \in Reports /\ answer \in Encodings(r)

\* The nonces a take chooses from.
FreeNonces(state) ==
  {n \in state.base + 1 .. state.base + NONCE_WINDOW : ~IsUsed(state, n) /\ n \notin DOMAIN Kept(state)}

LEMMA FreeTypes ==
  ASSUME NEW state \in WordStates, state.base \in 0 .. MaxSafe - NONCE_WINDOW
  PROVE  FreeNonces(state) \subseteq 1 .. MaxSafe
<1>1. \A n \in state.base + 1 .. state.base + NONCE_WINDOW : n \in 1 .. MaxSafe
  BY WindowFitsWords
<1> QED BY <1>1 DEF FreeNonces

LEMMA SameFree ==
  ASSUME TypeOK, NEW state \in WordStates
  PROVE  Abstract!Free(AsSets(state), AgesOf(Kept(state))) = FreeNonces(state)
<1>1. state.base \in Nat
  BY DEF WordStates
<1>2. \A n \in state.base + 1 .. state.base + NONCE_WINDOW : n \in Nat
  BY <1>1, WindowFitsWords
<1>3. \A n \in state.base + 1 .. state.base + NONCE_WINDOW :
        IsUsed(state, n) <=> Abstract!IsUsed(AsSets(state), n)
  BY <1>2, SameUsed
<1>4. DOMAIN AgesOf(Kept(state)) = DOMAIN Kept(state) /\ AsSets(state).base = state.base
  BY DEF AgesOf, AsSets
<1> QED BY <1>3, <1>4 DEF Abstract!Free, FreeNonces

\* The nonce a take hands out: the least that is free.
LEMMA LeastFree ==
  ASSUME NEW free, free \subseteq 1 .. MaxSafe, free # {}
  PROVE  LET n == CHOOSE m \in free : \A k \in free : m <= k
         IN  n \in free /\ \A k \in free : n <= k
<1>1. free \subseteq Nat
  BY WindowFitsWords
<1>2. \E m \in free : \A k \in free : m <= k
  BY <1>1, LeastNat
<1> QED BY <1>2

\* A take, its state and what it does to the holds.
LEMMA TakeSteps ==
  ASSUME TypeOK, NEW answer, NEW r, IsAnswer(answer, r), Take(answer)
  PROVE  \E state \in WordStates :
           /\ state.base \in 0 .. MaxSafe - NONCE_WINDOW
           /\ Abstract!Seen(r) = AsSets(state)
           /\ latest' = state /\ clock' = clock
           /\ \/ FreeNonces(state) = {} /\ taken' = Kept(state)
              \/ \E n \in FreeNonces(state) :
                   (\A m \in FreeNonces(state) : n <= m) /\ taken' = WithHold(Kept(state), n)
<1> DEFINE state == Seen(answer)
           free == FreeNonces(state)
           n == CHOOSE m \in free : \A k \in free : m <= k
<1>1. /\ state \in WordStates /\ state.base \in 0 .. MaxSafe - NONCE_WINDOW
      /\ Abstract!Seen(r) = AsSets(state)
  BY SameSeen DEF IsAnswer, Take
<1>2. latest' = state /\ clock' = clock
  BY DEF Take
<1>3. taken' = IF free = {} THEN Kept(state) ELSE WithHold(Kept(state), n)
  BY DEF Take, FreeNonces
<1>4. free # {} => n \in free /\ \A m \in free : n <= m
  BY <1>1, FreeTypes, LeastFree
<1> HIDE DEF state, n
<1> QED BY <1>1, <1>2, <1>3, <1>4

LEMMA KeptTypes ==
  ASSUME TypeOK, NEW state
  PROVE  /\ DOMAIN Kept(state) \subseteq 1 .. MaxSafe
         /\ Kept(state) \in [DOMAIN Kept(state) -> 0 .. clock]
<1>1. DOMAIN taken \subseteq 1 .. MaxSafe /\ \A n \in DOMAIN taken : taken[n] \in 0 .. clock
  BY DEF TypeOK
<1> QED BY <1>1 DEF Kept

LEMMA WithHoldTypes ==
  ASSUME TypeOK, NEW held, NEW n \in 1 .. MaxSafe,
         DOMAIN held \subseteq 1 .. MaxSafe, held \in [DOMAIN held -> 0 .. clock]
  PROVE  /\ DOMAIN WithHold(held, n) \subseteq 1 .. MaxSafe
         /\ WithHold(held, n) \in [DOMAIN WithHold(held, n) -> 0 .. clock]
<1>1. clock \in 0 .. clock
  BY HoldTypes
<1> QED BY <1>1 DEF WithHold

\* Every step of Next is one of these.
LEMMA StepCases ==
  ASSUME Next
  PROVE  \/ \E answer, r : IsAnswer(answer, r) /\ Take(answer)
         \/ \E n \in 1 .. MaxSafe : Hold(n) \/ Release(n)
         \/ Tick
<1>1. ASSUME NEW r \in Reports, NEW bytes \in Encodings(r), Take(bytes)
      PROVE  \E answer, s : IsAnswer(answer, s) /\ Take(answer)
  <2>1. CASE bytes = NoAnswer
    BY <1>1, <2>1 DEF IsAnswer
  <2>2. CASE bytes # NoAnswer
    BY <1>1, <2>2 DEF IsAnswer
  <2> QED BY <2>1, <2>2
<1>2. ASSUME Take(NoAnswer) PROVE \E answer, s : IsAnswer(answer, s) /\ Take(answer)
  BY <1>2 DEF IsAnswer
<1>3. Nonces \subseteq 1 .. MaxSafe
  BY NonceAssumption
<1> QED BY <1>1, <1>2, <1>3 DEF Next

\* The types, with the words' bits in the window and no hold from the future.
THEOREM BitTypes == Spec => []TypeOK
<1>1. Init => TypeOK
  BY WidthAssumption DEF Init, TypeOK
<1>2. ASSUME TypeOK, [Next]_vars PROVE TypeOK'
  <2>1. ASSUME NEW answer, NEW r, IsAnswer(answer, r), Take(answer) PROVE TypeOK'
    <3>1. PICK state \in WordStates :
            /\ state.base \in 0 .. MaxSafe - NONCE_WINDOW
            /\ latest' = state /\ clock' = clock
            /\ \/ taken' = Kept(state)
               \/ \E n \in FreeNonces(state) : taken' = WithHold(Kept(state), n)
      BY <1>2, <2>1, TakeSteps
    <3>2. state \in [base : 0 .. MaxSafe - NONCE_WINDOW, used : SUBSET WindowMask]
      BY <3>1 DEF WordStates
    <3>3. DOMAIN taken' \subseteq 1 .. MaxSafe /\ taken' \in [DOMAIN taken' -> 0 .. clock]
      <4>1. CASE taken' = Kept(state)
        BY <1>2, <4>1, KeptTypes
      <4>2. ASSUME NEW n \in FreeNonces(state), taken' = WithHold(Kept(state), n)
            PROVE  DOMAIN taken' \subseteq 1 .. MaxSafe /\ taken' \in [DOMAIN taken' -> 0 .. clock]
        <5>1. n \in 1 .. MaxSafe
          BY <3>1, FreeTypes
        <5> QED BY <1>2, <4>2, <5>1, KeptTypes, WithHoldTypes
      <4> QED BY <3>1, <4>1, <4>2
    <3> QED BY <1>2, <3>1, <3>2, <3>3 DEF TypeOK
  <2>2. ASSUME NEW n \in 1 .. MaxSafe, Hold(n) PROVE TypeOK'
    <3>1. DOMAIN taken \subseteq 1 .. MaxSafe /\ taken \in [DOMAIN taken -> 0 .. clock]
      BY <1>2 DEF TypeOK
    <3>2. DOMAIN taken' \subseteq 1 .. MaxSafe /\ taken' \in [DOMAIN taken' -> 0 .. clock]
      BY <1>2, <2>2, <3>1, WithHoldTypes DEF Hold
    <3> QED BY <1>2, <2>2, <3>2 DEF TypeOK, Hold
  <2>3. ASSUME NEW n \in 1 .. MaxSafe, Release(n) PROVE TypeOK'
    BY <1>2, <2>3 DEF TypeOK, Release
  <2>4. ASSUME Tick PROVE TypeOK'
    <3>1. clock' \in 0 .. MaxClock /\ 0 .. clock \subseteq 0 .. clock'
      BY <1>2, <2>4, WidthAssumption DEF TypeOK, Tick
    <3> QED BY <1>2, <2>4, <3>1 DEF TypeOK, Tick
  <2>5. ASSUME UNCHANGED vars PROVE TypeOK'
    BY <1>2, <2>5 DEF TypeOK, vars
  <2> QED BY <1>2, <2>1, <2>2, <2>3, <2>4, <2>5, StepCases
<1> QED BY <1>1, <1>2, PTL DEF Spec

-----------------------------------------------------------------------------
(* The refinement *)

LEMMA TakeRefines ==
  ASSUME TypeOK, NEW answer, NEW r, IsAnswer(answer, r), Take(answer)
  PROVE  Abstract!Next
<1> DEFINE ages == AgesOf(taken)
<1>1. PICK state \in WordStates :
        /\ state.base \in 0 .. MaxSafe - NONCE_WINDOW
        /\ Abstract!Seen(r) = AsSets(state)
        /\ latest' = state /\ clock' = clock
        /\ \/ FreeNonces(state) = {} /\ taken' = Kept(state)
           \/ \E n \in FreeNonces(state) :
                (\A m \in FreeNonces(state) : n <= m) /\ taken' = WithHold(Kept(state), n)
  BY TakeSteps
<1>2. AsSets(state) # NoAnswer /\ state # NoAnswer
  BY SomeState
<1>3. /\ Abstract!Kept(AsSets(state), ages) = AgesOf(Kept(state))
      /\ Abstract!Free(AsSets(state), AgesOf(Kept(state))) = FreeNonces(state)
  BY SameKept, SameFree
<1>4. r \in Reports \cup {NoAnswer}
  BY DEF IsAnswer
<1>5. ages = [n \in DOMAIN taken |-> AgeOf(taken[n])]
  BY DEF AgesOf
<1> HIDE DEF ages
<1>6. (IF latest' = NoAnswer THEN NoAnswer ELSE [base |-> latest'.base, used |-> Marked(latest')])
        = AsSets(state)
  BY <1>1, <1>2 DEF AsSets
<1>7. [n \in DOMAIN taken' |-> AgeOf(taken[n])'] = AgesOf(taken')
  BY <1>1 DEF AgesOf, AgeOf
<1>8. ASSUME FreeNonces(state) = {}, taken' = Kept(state) PROVE Abstract!Next
  <2>1. Abstract!TakeFromFullWindow(r)
    BY <1>1, <1>2, <1>3, <1>5, <1>6, <1>7, <1>8 DEF Abstract!TakeFromFullWindow
  <2> QED BY <1>4, <2>1 DEF Abstract!Next
<1>9. ASSUME NEW n \in FreeNonces(state), \A m \in FreeNonces(state) : n <= m,
             taken' = WithHold(Kept(state), n)
      PROVE  Abstract!Next
  <2>1. AgesOf(taken') = Abstract!WithHold(AgesOf(Kept(state)), n)
    BY <1>9, SameWithHold
  <2>2. Abstract!Take(r, n)
    BY <1>1, <1>2, <1>3, <1>5, <1>6, <1>7, <1>9, <2>1 DEF Abstract!Take
  <2>3. n \in 1 .. MaxSafe
    BY <1>1, FreeTypes
  <2> QED BY <1>4, <2>2, <2>3 DEF Abstract!Next
<1> QED BY <1>1, <1>8, <1>9

\* The allocator as coded implements the allocator of AllocatorSpec: through
\* bytes, words and shifts, for every order of the chain's answers, each take,
\* hold and release is the one allowed of the states the chain sent, and no hold
\* runs out before its time or after.
THEOREM BitsImplementAllocator == Spec => ImplementsAllocator
<1>1. Init => Abstract!AllocatorInit
  BY DEF Init, Abstract!AllocatorInit
<1>2. ASSUME TypeOK, [Next]_vars PROVE [Abstract!Next]_(Abstract!allocatorVars)
  <2>1. ASSUME NEW answer, NEW r, IsAnswer(answer, r), Take(answer) PROVE Abstract!Next
    BY <1>2, <2>1, TakeRefines
  <2>2. ASSUME NEW n \in 1 .. MaxSafe, Hold(n) PROVE Abstract!Next
    <3>1. [m \in DOMAIN taken' |-> AgeOf(taken[m])'] = AgesOf(taken')
      BY <2>2 DEF AgesOf, AgeOf, Hold
    <3>2. AgesOf(taken') = Abstract!WithHold(AgesOf(taken), n)
      BY <1>2, <2>2, SameWithHold DEF Hold
    <3>3. Abstract!Hold(n)
      BY <2>2, <3>1, <3>2 DEF Hold, Abstract!Hold, AgesOf
    <3> QED BY <3>3 DEF Abstract!Next
  <2>3. ASSUME NEW n \in 1 .. MaxSafe, Release(n) PROVE Abstract!Next
    <3>1. Abstract!Release(n)
      BY <2>3 DEF Release, Abstract!Release, Abstract!WithoutHold, AgeOf
    <3> QED BY <3>1 DEF Abstract!Next
  <2>4. ASSUME Tick PROVE Abstract!Next
    <3>1. \A n \in DOMAIN taken :
            AgeOf(taken[n])' = IF AgeOf(taken[n]) < HoldMs THEN AgeOf(taken[n]) + 1 ELSE AgeOf(taken[n])
      BY <1>2, <2>4, HoldTypes DEF Tick, AgeOf
    <3>2. Abstract!Elapse
      BY <2>4, <3>1 DEF Tick, Abstract!Elapse
    <3> QED BY <3>2 DEF Abstract!Next
  <2>5. ASSUME UNCHANGED vars PROVE UNCHANGED Abstract!allocatorVars
    BY <2>5 DEF vars, Abstract!allocatorVars, AgeOf
  <2> QED BY <1>2, <2>1, <2>2, <2>3, <2>4, <2>5, StepCases
<1> QED BY <1>1, <1>2, BitTypes, PTL DEF Spec, ImplementsAllocator, Abstract!Spec
=============================================================================
