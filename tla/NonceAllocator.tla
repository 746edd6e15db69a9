--------------------------- MODULE NonceAllocator ---------------------------
(***************************************************************************)
(* The allocator of one DID's transaction nonces (consensus/nonces.ts).    *)
(*                                                                         *)
(* `latest' is the newest nonce state the chain has reported, as far as    *)
(* this process has seen it; `taken' holds every nonce handed out and not  *)
(* seen to land.  The code stores when a nonce was taken and compares      *)
(* `now - at' with the hold; only that difference matters, so `taken[n]'   *)
(* is the AGE of the hold, which Elapse advances for every hold at once    *)
(* and which stops counting at HoldTime (an expired hold stays expired).   *)
(*                                                                         *)
(* A nonce state is [base, used]: every nonce up to base is used, and      *)
(* `used' is the set of used nonces above it.  NonceBits models the 24-bit *)
(* mask the code keeps and is proved to implement this module.             *)
(*                                                                         *)
(* The operations are actions over <<latest, taken>> only; a component     *)
(* that calls the allocator conjoins them with its own step.               *)
(***************************************************************************)
EXTENDS Naturals

CONSTANTS
  Window,    \* NONCE_WINDOW: nonces above the base the chain accepts (24)
  HoldTime,  \* NONCE_HOLD_MS in ticks of the model's clock
  NoState    \* latest = null, and the `chain' argument take() was not given

VARIABLES
  latest,    \* the newest nonce state seen, or NoState
  taken      \* nonce -> age of its hold, for each nonce handed out

allocatorVars == <<latest, taken>>

NonceStates ==
  {s \in [base : Nat, used : SUBSET Nat] :
     s.used \subseteq (s.base + 1) .. (s.base + Window)}

ASSUME AllocatorAssumption ==
  /\ Window \in Nat \ {0}
  /\ HoldTime \in Nat \ {0}
  /\ NoState \notin NonceStates

-----------------------------------------------------------------------------
(* Nonce states *)

IsUsed(state, n) == n <= state.base \/ n \in state.used

\* (With the bug of not moving the bits when the base moves.)
UsedAboveUnshifted(state, base) == {n + (base - state.base) : n \in state.used}

\* The used nonces of `state' read against a base at or above its own.
UsedAbove(state, base) == {n \in state.used : n > base}

\* Two reports as one: the higher base, and what either marks used above it.
MergeStates(a, b) ==
  LET base == IF a.base >= b.base THEN a.base ELSE b.base
  IN  [base |-> base, used |-> UsedAbove(a, base) \cup UsedAbove(b, base)]

-----------------------------------------------------------------------------
(* Holds *)

\* The hold map with nonce n held from now.
WithHold(held, n) ==
  [m \in DOMAIN held \cup {n} |-> IF m = n THEN 0 ELSE held[m]]

WithoutHold(held, n) == [m \in DOMAIN held \ {n} |-> held[m]]

\* (With the bug of replacing the newest state by the last answer.)
SeenLast(report) == IF report = NoState THEN latest ELSE report

\* refresh, first half: the newest state once `report' is merged in.
Seen(report) ==
  IF report = NoState THEN latest
  ELSE IF latest = NoState THEN report
  ELSE MergeStates(latest, report)

\* (With the bug of never letting a hold run out.)
KeptForever(state, held) ==
  [m \in {n \in DOMAIN held : ~IsUsed(state, n)} |-> held[m]]

\* refresh, second half: the holds that have neither landed nor run out.
Kept(state, held) ==
  [m \in {n \in DOMAIN held : ~IsUsed(state, n) /\ held[n] < HoldTime} |-> held[m]]

\* (With the bug of overlooking the nonces handed out.)
FreeOfUsed(state, held) ==
  {n \in (state.base + 1) .. (state.base + Window) : ~IsUsed(state, n)}

\* (With the bug of a window one nonce too wide.)
FreePastWindow(state, held) ==
  {n \in (state.base + 1) .. (state.base + Window + 1) :
     ~IsUsed(state, n) /\ n \notin DOMAIN held}

\* The nonces take() may hand out.
Free(state, held) ==
  {n \in (state.base + 1) .. (state.base + Window) :
     ~IsUsed(state, n) /\ n \notin DOMAIN held}

-----------------------------------------------------------------------------
(* The operations *)

AllocatorInit ==
  /\ latest = NoState
  /\ taken = [n \in {} |-> 0]

\* take(): refresh, then hand out the lowest free nonce of the window.
Take(report, n) ==
  LET state == Seen(report)
      kept == Kept(state, taken)
      free == Free(state, kept)
  IN  /\ state # NoState
      /\ n \in free
      /\ \A m \in free : n <= m
      /\ latest' = state
      /\ taken' = WithHold(kept, n)

\* take() with every nonce of the window used or held: NONCE_WINDOW_FULL is
\* thrown, after the refresh.
TakeFromFullWindow(report) ==
  LET state == Seen(report)
      kept == Kept(state, taken)
  IN  /\ state # NoState
      /\ Free(state, kept) = {}
      /\ latest' = state
      /\ taken' = kept

\* take() before any state was read throws NONCE_STATE_UNKNOWN.
TakeUnknown == latest = NoState /\ UNCHANGED allocatorVars

Release(n) ==
  /\ taken' = WithoutHold(taken, n)
  /\ UNCHANGED latest

Hold(n) ==
  /\ taken' = WithHold(taken, n)
  /\ UNCHANGED latest

\* settle(): accepted, pending, or a refusal saying the nonce is held, used or
\* spent (`keeps') holds it; any other refusal gives it back.
Settle(n, keeps) ==
  \/ keeps /\ Hold(n)
  \/ ~keeps /\ Release(n)

\* Time passes: every hold ages by one tick.
Elapse ==
  /\ taken' = [n \in DOMAIN taken |->
                 IF taken[n] < HoldTime THEN taken[n] + 1 ELSE taken[n]]
  /\ UNCHANGED latest

\* Every nonce the allocator could hand out now is used or held.
WindowFull ==
  /\ latest # NoState
  /\ Free(latest, Kept(latest, taken)) = {}

AllocatorTypeOK ==
  /\ latest \in NonceStates \cup {NoState}
  /\ taken \in [DOMAIN taken -> 0 .. HoldTime]
  /\ DOMAIN taken \subseteq Nat
=============================================================================
