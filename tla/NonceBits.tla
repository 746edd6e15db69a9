----------------------------- MODULE NonceBits ------------------------------
(***************************************************************************)
(* The allocator as the code keeps it: the used nonces above the base as   *)
(* the bits of an integer, the chain's answer as bytes, and each hold as   *)
(* the clock's reading when it was taken (consensus/nonces.ts).            *)
(*                                                                         *)
(* Widths are parameters: the code has 3 bytes of 8 bits (Window = 24), a  *)
(* base of 8 bytes, and JavaScript's words of 32 bits, whose shifts take   *)
(* their count mod 32.  A word is the set of its bits that are 1, so `&'   *)
(* is an intersection and `|' a union.                                     *)
(***************************************************************************)
EXTENDS Integers, Sequences

CONSTANTS
  ByteBits,   \* bits of a byte (8)
  ByteSize,   \* values of a byte (256)
  BaseBytes,  \* bytes of the base (8)
  MapBytes,   \* bytes of the bitmap (3)
  WordBits,   \* bits of a word, and the modulus of a shift's count (32)
  MaxSafe,    \* Number.MAX_SAFE_INTEGER
  HoldMs,     \* NONCE_HOLD_MS
  MaxClock,   \* bound: the clock's last reading
  Reports,    \* the nonce states the chain answers with, as [base, used]
  Nonces,     \* the nonces callers hold and give back
  NoAnswer    \* no state seen, and no `chain' argument

VARIABLES
  latest,  \* the newest state seen, [base, used] with `used' a word
  taken,   \* nonce -> when it was taken
  clock    \* Date.now()

vars == <<latest, taken, clock>>

NONCE_WINDOW == ByteBits * MapBytes

\* The number its digits write, the first the most significant.
Value(digits, radix) ==
  LET upTo[i \in 0 .. Len(digits)] == IF i = 0 THEN 0 ELSE upTo[i - 1] * radix + digits[i]
  IN  upTo[Len(digits)]

\* A number, and what is left of it without its last digit, its last two, ...
Quotients(x, radix, digits) ==
  LET left[i \in 0 .. digits] == IF i = 0 THEN x ELSE left[i - 1] \div radix
  IN  left

ASSUME WidthAssumption ==
  /\ {ByteBits, ByteSize, BaseBytes, MapBytes, HoldMs} \subseteq Nat \ {0}
  /\ ByteSize = 2 ^ ByteBits
  /\ {WordBits, MaxSafe, MaxClock} \subseteq Nat
  /\ WordBits > NONCE_WINDOW /\ MaxSafe >= NONCE_WINDOW

\* The chain's states: its base fits the bytes it is sent in.
ASSUME ReportsAssumption ==
  \A r \in Reports :
    /\ r \in [base : Nat, used : SUBSET Nat]
    /\ r.used \subseteq r.base + 1 .. r.base + NONCE_WINDOW
    /\ Quotients(r.base, ByteSize, BaseBytes)[BaseBytes] = 0

ASSUME NonceAssumption ==
  /\ Nonces \subseteq 1 .. MaxSafe
  /\ NoAnswer \notin [base : Nat, used : SUBSET Nat]

-----------------------------------------------------------------------------
(* The chain's encoding of a nonce state (external). *)

BaseAsBytes(base) ==
  [i \in 1 .. BaseBytes |-> Quotients(base, ByteSize, BaseBytes)[BaseBytes - i] % ByteSize]

\* Bit b of byte i marks the nonce base + 1 + ByteBits * (i - 1) + b.
UsedAsBytes(state) ==
  [i \in 1 .. MapBytes |->
     Value([j \in 1 .. ByteBits |->
              IF state.base + 1 + ByteBits * (i - 1) + ByteBits - j \in state.used
              THEN 1 ELSE 0], 2)]

\* A fresh account has no value; a base without used nonces may be sent alone.
Encodings(state) ==
  {BaseAsBytes(state.base) \o UsedAsBytes(state)}
    \cup (IF state.used = {} THEN {BaseAsBytes(state.base)} ELSE {})
    \cup (IF state.used = {} /\ state.base = 0 THEN {<<>>} ELSE {})

-----------------------------------------------------------------------------
(* Words: sets of bits, from 0, the least significant *)

\* The bits of a byte.
Bits(byte) == {b \in 0 .. ByteBits - 1 : Quotients(byte, 2, ByteBits)[b] % 2 = 1}

\* `x >>> count' and `x << count'.
ShiftRight(x, count) == {b \in 0 .. WordBits - 1 : b + (count % WordBits) \in x}

ShiftLeft(x, count) == {b \in 0 .. WordBits - 1 : b - (count % WordBits) \in x}

\* `(1 << NONCE_WINDOW) - 1'.
WindowMask == 0 .. NONCE_WINDOW - 1

-----------------------------------------------------------------------------
(* nonces.ts *)

BaseOf(bytes) == Value([i \in 1 .. BaseBytes |-> bytes[i]], ByteSize)

\* The first byte of the bitmap is its least significant.
UsedOf(bytes) ==
  UNION {ShiftLeft(Bits(bytes[BaseBytes + i]), ByteBits * (i - 1)) : i \in 1 .. MapBytes}

\* The answers parseAccountNonceState throws on: the read failed.
ParseFails(bytes) ==
  \/ Len(bytes) \notin {0, BaseBytes, BaseBytes + MapBytes}
  \/ bytes # <<>> /\ BaseOf(bytes) > MaxSafe - NONCE_WINDOW

\* parseAccountNonceState, of bytes it accepts.
Parse(bytes) ==
  IF bytes = <<>> THEN [base |-> 0, used |-> {}]
  ELSE [base |-> BaseOf(bytes),
        used |-> IF Len(bytes) = BaseBytes + MapBytes THEN UsedOf(bytes) ELSE {}]

\* (With the bug of leaving a shift past the window to `>>>'.)
UsedAboveUnguarded(state, base) == ShiftRight(state.used, base - state.base) \cap WindowMask

\* usedAbove.
UsedAbove(state, base) ==
  LET shift == base - state.base
  IN  IF shift >= NONCE_WINDOW THEN {}
      ELSE ShiftRight(state.used, shift) \cap WindowMask

MergeStates(a, b) ==
  LET base == IF a.base >= b.base THEN a.base ELSE b.base
  IN  [base |-> base, used |-> UsedAbove(a, base) \cup UsedAbove(b, base)]

IsUsed(state, n) ==
  \/ n <= state.base
  \/ LET offset == n - state.base - 1
     IN  offset < NONCE_WINDOW /\ state.used \cap ShiftLeft({0}, offset) # {}

\* refresh(): the state with `answer' merged in, and the holds still running.
Seen(answer) ==
  IF answer = NoAnswer THEN latest
  ELSE IF latest = NoAnswer THEN Parse(answer)
  ELSE MergeStates(latest, Parse(answer))

Kept(state) ==
  [m \in {n \in DOMAIN taken : ~IsUsed(state, n) /\ clock - taken[n] < HoldMs} |-> taken[m]]

WithHold(held, n) ==
  [m \in DOMAIN held \cup {n} |-> IF m = n THEN clock ELSE held[m]]

Init ==
  /\ latest = NoAnswer
  /\ taken = [n \in {} |-> 0]
  /\ clock = 0

\* take(): the window is searched from its lowest nonce.
Take(answer) ==
  /\ ~(answer # NoAnswer /\ ParseFails(answer))
  /\ Seen(answer) # NoAnswer
  /\ LET state == Seen(answer)
         kept == Kept(state)
         free == {n \in state.base + 1 .. state.base + NONCE_WINDOW :
                    ~IsUsed(state, n) /\ n \notin DOMAIN kept}
     IN  /\ latest' = state
         /\ taken' = IF free = {} THEN kept
                     ELSE WithHold(kept, CHOOSE n \in free : \A m \in free : n <= m)
  /\ UNCHANGED clock

Hold(n) == taken' = WithHold(taken, n) /\ UNCHANGED <<latest, clock>>

Release(n) ==
  /\ taken' = [m \in DOMAIN taken \ {n} |-> taken[m]]
  /\ UNCHANGED <<latest, clock>>

Tick == clock < MaxClock /\ clock' = clock + 1 /\ UNCHANGED <<latest, taken>>

Next ==
  \/ \E r \in Reports : \E bytes \in Encodings(r) : Take(bytes)
  \/ Take(NoAnswer)
  \/ \E n \in Nonces : Hold(n) \/ Release(n)
  \/ Tick

Spec == Init /\ [][Next]_vars

-----------------------------------------------------------------------------
(* Refinement *)

\* A word read as the set of nonces it marks.
Marked(state) == {state.base + 1 + b : b \in state.used}

AgeOf(at) == IF clock - at < HoldMs THEN clock - at ELSE HoldMs

Abstract ==
  INSTANCE AllocatorSpec WITH
    Window <- NONCE_WINDOW,
    HoldTime <- HoldMs,
    NoState <- NoAnswer,
    Nonces <- 1 .. MaxSafe,
    latest <- IF latest = NoAnswer THEN NoAnswer
              ELSE [base |-> latest.base, used |-> Marked(latest)],
    taken <- [n \in DOMAIN taken |-> AgeOf(taken[n])]

\* The bit arithmetic, the byte order and the clock comparison implement the
\* allocator over sets of nonces and ages: every take, hold and release here is
\* the one AllocatorSpec allows for the state the chain encoded, so no merge of
\* late or base-only answers drops, invents or shifts a used bit.
ImplementsAllocator == Abstract!Spec

\* The word never has a bit outside the window, which the next merge would read
\* as another nonce's, and every hold began by now.
TypeOK ==
  /\ latest # NoAnswer =>
       /\ latest \in [base : 0 .. MaxSafe - NONCE_WINDOW, used : SUBSET WindowMask]
  /\ taken \in [DOMAIN taken -> 0 .. clock] /\ DOMAIN taken \subseteq 1 .. MaxSafe
  /\ clock \in 0 .. MaxClock
=============================================================================
