----------------------------- MODULE JsonNumbers ----------------------------
(***************************************************************************)
(* The numbers of stored documents, as the node reads them and as          *)
(* JavaScript does (proof/node-json.ts, proof/shared.ts, the sort numbers  *)
(* of proof/query-selection.ts).                                           *)
(*                                                                         *)
(* A number's text is a record of its sign, the digits before and after    *)
(* the point, and its exponent or NoExp.  Its exact value is a sign, the   *)
(* significant digits (as a number without a last digit 0) and the power   *)
(* of ten of the last.  A double has Precision bits and a power of two     *)
(* from MinPower to MaxPower; the code's have 53, -1074 and 971, and its   *)
(* other bounds are scaled likewise.                                       *)
(***************************************************************************)
EXTENDS Integers, Sequences, SequencesExt

CONSTANTS
  NoExp,           \* a text without an exponent
  Precision, MinPower, MaxPower,  \* doubles
  IntMax, IntMin,  \* the u64 and i64 an integer's text is normalised by
  ExpMax,          \* the i128 the node computes exponents in, to -ExpMax - 1
  Over, Under,     \* powers of ten past the largest double, and below half the least
  RoundingDigits,  \* digits that decide how any text is rounded
  MaxDigits        \* bound: the digits of the texts JavaScript writes

ASSUME NumbersAssumption ==
  /\ Precision \in Nat \ {0} /\ MinPower \in Int /\ MaxPower \in Int /\ MinPower <= MaxPower
  /\ {IntMax, ExpMax, RoundingDigits, MaxDigits} \subseteq Nat

\* The numbers the first digits of a sequence write.
DigitValues(digits) ==
  LET upTo[i \in 0 .. Len(digits)] == IF i = 0 THEN 0 ELSE 10 * upTo[i - 1] + digits[i]
  IN  upTo

DigitsValue(digits) == DigitValues(digits)[Len(digits)]

-----------------------------------------------------------------------------
(* Exact values *)

Zero == [neg |-> FALSE, n |-> 0, exp |-> 0]

NoDecimal == [neg |-> FALSE, n |-> -1, exp |-> 0]

\* The place of the last digit that is not 0, or 0 when there is none (trimZeros).
LastDigit(digits) ==
  CHOOSE i \in 0 .. Len(digits) :
    /\ i # 0 => digits[i] # 0
    /\ \A j \in i + 1 .. Len(digits) : digits[j] = 0

Exponent(text) == IF text.exp = NoExp THEN 0 ELSE text.exp

\* exactDecimal.
ExactDecimal(text) ==
  LET digits == text.int \o text.frac
      last == LastDigit(digits)
  IN  IF last = 0 THEN Zero
      ELSE [neg |-> text.neg, n |-> DigitValues(digits)[last],
            exp |-> Exponent(text) - Len(text.frac) + (Len(digits) - last)]

FitsExp(exp) == -ExpMax - 1 <= exp /\ exp <= ExpMax

\* nodeExactDecimal: as exactDecimal, unless a step of the arithmetic on the
\* exponent does not fit.
NodeExactDecimal(text) ==
  IF ~FitsExp(Exponent(text)) THEN NoDecimal
  ELSE IF ExactDecimal(text) = Zero THEN Zero
  ELSE IF FitsExp(Exponent(text) - Len(text.frac)) /\ FitsExp(ExactDecimal(text).exp)
       THEN ExactDecimal(text)
  ELSE NoDecimal

\* (With the bug of comparing digits and signs only.)
NodeNumbersEqualDigits(s, t) ==
  \/ s = t
  \/ NodeExactDecimal(s) # NoDecimal /\ NodeExactDecimal(s).n = NodeExactDecimal(t).n

\* nodeNumbersEqual: by text, or by exact value when both have one.
NodeNumbersEqual(s, t) ==
  \/ s = t
  \/ NodeExactDecimal(s) # NoDecimal /\ NodeExactDecimal(s) = NodeExactDecimal(t)

\* canonicalNumber: an integer that fits is written as that integer, so that -0
\* is 0. (The exponent's marker and sign are one form here.)
CanonicalNumber(text) ==
  LET n == DigitsValue(text.int)
  IN  IF text.frac = <<>> /\ text.exp = NoExp /\ (IF text.neg THEN -n >= IntMin ELSE n <= IntMax)
      THEN [text EXCEPT !.neg = text.neg /\ n # 0]
      ELSE text

-----------------------------------------------------------------------------
(* Doubles: q times a power of two, or Infinity *)

Infinity == [neg |-> FALSE, q |-> -1, power |-> 0]

Signed(double, neg) == [double EXCEPT !.neg = neg]

BitLength[n \in Nat] == IF n = 0 THEN 0 ELSE 1 + BitLength[n \div 2]

NumberOfDigits[n \in Nat] == IF n < 10 THEN 1 ELSE 1 + NumberOfDigits[n \div 10]

\* The digits that decide, and a 1 for all the others.
Shortened(n, exp) ==
  LET extra == NumberOfDigits[n] - RoundingDigits
  IN  IF extra > 0
      THEN [n |-> (n \div 10^extra) * 10 + 1, exp |-> exp + extra - 1]
      ELSE [n |-> n, exp |-> exp]

\* The quotient num / (den * 2^power) in whole numbers, and its rest.
Quotient(num, den, power) ==
  LET n == IF power >= 0 THEN num ELSE num * 2^(-power)
      d == IF power >= 0 THEN den * 2^power ELSE den
  IN  [q |-> n \div d, r |-> n % d, d |-> d]

AtLeast(a, b) == IF a >= b THEN a ELSE b

\* (With the bug of rounding every half up.)
RoundsUpHalf(quotient) == 2 * quotient.r >= quotient.d

\* To the nearest, halves to even.
RoundsUp(quotient) ==
  \/ 2 * quotient.r > quotient.d
  \/ 2 * quotient.r = quotient.d /\ quotient.q % 2 = 1

\* q, rounded, times a power of two: a q that has got a bit more is carried.
Bounded(q, power) ==
  IF power > MaxPower THEN Infinity
  ELSE [neg |-> FALSE, q |-> q, power |-> IF q = 0 THEN MinPower ELSE power]

Carried(q, power) ==
  IF q = 2^Precision THEN Bounded(q \div 2, power + 1) ELSE Bounded(q, power)

RoundedUp(quotient) == quotient.q + IF RoundsUp(quotient) THEN 1 ELSE 0

RoundedAt(num, den, power) == Carried(RoundedUp(Quotient(num, den, power)), power)

\* The double for num / den: q has Precision bits, or the least power.
Rounded(num, den) ==
  LET guess == AtLeast(BitLength[num] - BitLength[den] - Precision, MinPower)
  IN  RoundedAt(num, den, IF Quotient(num, den, guess).q >= 2^Precision THEN guess + 1 ELSE guess)

RoundedDecimal(short) ==
  Rounded(short.n * 10^(AtLeast(short.exp, 0)), 10^(AtLeast(-short.exp, 0)))

\* The double for an exact value, its sign aside.
DoubleOf(exact) ==
  LET order == NumberOfDigits[exact.n] + exact.exp
  IN  IF exact = Zero \/ order <= Under THEN [neg |-> FALSE, q |-> 0, power |-> MinPower]
      ELSE IF order > Over THEN Infinity
      ELSE RoundedDecimal(Shortened(exact.n, exact.exp))

\* parseF64.
ParseF64(text) == Signed(DoubleOf(ExactDecimal(text)), text.neg)

\* A double in the sort: Infinity, and 0, have no sign.
InSort(double) ==
  IF double.q = -1 THEN Infinity ELSE IF double.q = 0 THEN Signed(double, FALSE) ELSE double

\* sortNumber: a number's place in the sort, or Infinity for one that has none.
\* (Up to 20 digits JavaScript's own reading is the same as parseF64's.)
SortNumber(text) == InSort(ParseF64(text))

-----------------------------------------------------------------------------
(* What JavaScript writes for a double, and which texts it carries exactly *)

AsText(n, exp) ==
  [neg |-> FALSE, frac |-> <<>>, exp |-> exp,
   int |-> [i \in 1 .. NumberOfDigits[n] |-> (n \div 10^(NumberOfDigits[n] - i)) % 10]]

Doubles ==
  {d \in [neg : {FALSE}, q : 1 .. 2^Precision - 1, power : MinPower .. MaxPower] :
     d.q >= 2^(Precision - 1) \/ d.power = MinPower}

\* A double above 0 in units of 10^exp, in whole numbers.
InUnits(double, exp) ==
  [num |-> double.q * 2^(AtLeast(double.power, 0)) * 10^(AtLeast(-exp, 0)),
   den |-> 2^(AtLeast(-double.power, 0)) * 10^(AtLeast(exp, 0))]

\* Of the numbers of 10^exp next to a double, those that read as it.
Reading10(double, exp) ==
  LET floor == InUnits(double, exp).num \div InUnits(double, exp).den
  IN  {n \in {floor, floor + 1} : n > 0 /\ ParseF64(AsText(n, exp)) = double}

\* How far such a number is from a double, given in the same units.
Off(n, units) ==
  LET d == n * units.den - units.num IN IF d < 0 THEN -d ELSE d

Nearest10(double, exp) ==
  LET reading == Reading10(double, exp)
      units == InUnits(double, exp)
  IN  CHOOSE n \in reading : \A m \in reading : Off(n, units) <= Off(m, units)

WrittenIn(double, exp) == [neg |-> FALSE, exp |-> exp, n |-> Nearest10(double, exp)]

\* The text JavaScript writes for a double above 0: the shortest that reads as
\* it, of those the nearest (external: ECMAScript's Number::toString).
Written(double) ==
  WrittenIn(double,
    CHOOSE e \in Under - MaxDigits .. Over :
      Reading10(double, e) # {} /\ \A f \in e + 1 .. Over : Reading10(double, f) = {})

\* (With the bug of taking any number that is not infinite.)
IsExactJsonNumberFinite(text) == ParseF64(text).q # -1

IsExactAs(text, double) ==
  /\ double.q # -1
  /\ ExactDecimal(text) =
       IF double.q = 0 THEN Zero ELSE Signed(Written(Signed(double, FALSE)), text.neg)

\* isExactJsonNumber: the text's value is that of the text JavaScript writes for
\* the double it reads.
IsExactJsonNumber(text) == IsExactAs(text, ParseF64(text))
=============================================================================
