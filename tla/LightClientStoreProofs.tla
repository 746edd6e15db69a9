----------------------- MODULE LightClientStoreProofs -----------------------
(***************************************************************************)
(* Proofs about LightClientStore, for any endpoints, calls, validators,    *)
(* drift, threshold and way of exporting.                                  *)
(***************************************************************************)
EXTENDS LightClientStore, WellFoundedInduction, SequenceTheorems, TLAPS

-----------------------------------------------------------------------------
(* The ends of a set of heights *)

LEMMA LowestIsIn ==
  ASSUME NEW S, S \subseteq Nat, S # {}
  PROVE  Lowest(S) \in S /\ \A g \in S : Lowest(S) <= g
<1> DEFINE R == {ss \in Nat \X Nat : ss[1] < ss[2]}
<1>1. IsWellFoundedOn(R, Nat)
  BY NatLessThanWellFounded DEF OpToRel
<1>2. PICK h \in S : \A g \in S : ~(<<g, h>> \in R)
  <2> HIDE DEF R
  <2> QED BY <1>1, WFMin
<1>3. \A g \in S : h <= g
  <2> TAKE g \in S
  <2>1. <<g, h>> \in Nat \X Nat /\ ~(<<g, h>> \in R)
    BY <1>2
  <2>2. ~(g < h)
    BY <2>1
  <2> QED BY <2>2
<1> QED BY <1>3 DEF Lowest

LEMMA HighestIsIn ==
  ASSUME NEW N \in Nat, NEW S, S \subseteq 0 .. N, S # {}
  PROVE  Highest(S) \in S /\ \A g \in S : Highest(S) >= g
<1> DEFINE T == {N - h : h \in S}
<1>1. T \subseteq Nat /\ T # {}
  <2>1. \A h \in S : N - h \in Nat
    OBVIOUS
  <2>2. PICK h \in S : TRUE
    OBVIOUS
  <2>3. N - h \in T
    OBVIOUS
  <2> QED BY <2>1, <2>3
<1>2. PICK t \in T : \A u \in T : t <= u
  BY <1>1, LowestIsIn
<1>3. PICK h \in S : t = N - h
  OBVIOUS
<1>4. \A g \in S : h >= g
  <2> TAKE g \in S
  <2>1. N - h <= N - g
    BY <1>2, <1>3
  <2> QED BY <2>1
<1> QED BY <1>4 DEF Highest

LEMMA ListIsSeq ==
  ASSUME NEW S, NEW n \in Nat, NEW f \in [1 .. n -> S]
  PROVE  f \in Seq(S) /\ Len(f) = n
<1>1. [1 .. n -> S] \in {[1 .. m -> S] : m \in Nat}
  OBVIOUS
<1>2. f \in Seq(S)
  BY <1>1, SeqDef, Zenon
<1>3. Len(f) \in Nat /\ DOMAIN f = 1 .. Len(f)
  BY <1>2
<1>4. 1 .. n = 1 .. Len(f)
  BY <1>3
<1>5. Len(f) = n
  <2>1. \A i \in Nat : i >= 1 /\ i <= n <=> i >= 1 /\ i <= Len(f)
    BY <1>3, <1>4
  <2>2. CASE n > Len(f)
    BY <1>3, <2>1, <2>2
  <2>3. CASE Len(f) > n
    BY <1>3, <2>1, <2>3
  <2> QED BY <1>3, <2>2, <2>3
<1> QED BY <1>2, <1>5

-----------------------------------------------------------------------------
(* The inductive invariant *)

CallType == [at : {"idle", "fetching", "verified"}, next : Nat, target : Nat,
             result : {"none", "ok", "failed"}]

TypeInv ==
  /\ state \in Seq(Values) /\ Tip \in 1 .. MaxHeight
  /\ seen \in [Endpoints -> 1 .. Tip]
  /\ age \in [1 .. Tip -> 0 .. Old]
  /\ vals \in Seq(ValidatorSets) /\ Len(vals) = Tip + 1
  /\ held \in [Held -> 0 .. Old] /\ Held \subseteq 1 .. Tip
  /\ saved \in [DOMAIN saved -> 0 .. Old] /\ DOMAIN saved \subseteq 1 .. Tip
  /\ latest \in 0 .. Tip
  /\ roots \subseteq Held
  /\ call \in [Callers -> CallType]
  /\ \A c \in Callers : call[c].next <= Tip /\ call[c].target <= Tip
  /\ since \in 0 .. SyncEvery

\* The latest height is held once any is.
LatestIsHeld == IF Held = {} THEN latest = 0 ELSE latest \in Held

\* A call under way has nothing to say yet, and a header found to follow what was
\* held still does, whatever other calls have added meanwhile.
CallInv ==
  \A c \in Callers : call[c].at # "idle" =>
    /\ call[c].result = "none" /\ call[c].next <= call[c].target
    /\ call[c].at = "verified" => call[c].next - 1 \in Held /\ call[c].next >= 1

StoreInv == TypeInv /\ LatestIsHeld /\ ChainedToTrust /\ CallInv

\* What the endpoints agree on is a height one of them gave.
LEMMA AnswersAgreed ==
  ASSUME NEW T \in Nat, NEW answers \in [Endpoints -> 0 .. T]
  PROVE  ConsensusHeights(answers) \subseteq 1 .. T /\ LatestHeights(answers) \subseteq 1 .. T
<1>1. \A h \in ConsensusHeights(answers) : \E e \in Endpoints : answers[e] # 0 /\ h = answers[e]
  BY Zenon DEF ConsensusHeights, MostCommon
<1>2. \A h \in LatestHeights(answers) : \E e \in Endpoints : answers[e] # 0 /\ h = answers[e]
  BY Zenon DEF LatestHeights, MostCommon
<1>3. \A e \in Endpoints : answers[e] # 0 => answers[e] \in 1 .. T
  OBVIOUS
<1> QED BY <1>1, <1>2, <1>3

LEMMA InitStoreInv == Init => StoreInv
<1> SUFFICES ASSUME Init PROVE StoreInv
  OBVIOUS
<1> USE StoreAssumption, ChainAssumption DEF Init, ChainInit
<1>1. state \in Seq(Values) /\ Tip = 1
  BY ListIsSeq DEF Tip
<1>2. vals \in Seq(ValidatorSets) /\ Len(vals) = 2
  <2>1. PICK v \in ValidatorSets : vals = <<v, v>>
    OBVIOUS
  <2> QED BY <2>1
<1>3. Held = {} /\ DOMAIN saved = {}
  BY DEF Held
<1>4. TypeInv
  BY <1>1, <1>2, <1>3 DEF TypeInv, Held, Old, Idle, CallType
<1> QED BY <1>3, <1>4 DEF StoreInv, LatestIsHeld, ChainedToTrust, CallInv, Idle

-----------------------------------------------------------------------------
(* Initialisation keeps the invariant *)

LEMMA TrustedKeeps ==
  ASSUME StoreInv, NEW h \in 1 .. Tip, Trusted(h), UNCHANGED <<chainSideVars, call, saved, since>>
  PROVE  StoreInv'
<1> USE StoreAssumption DEF StoreInv, Trusted, chainSideVars, chainVars
<1>1. Tip' = Tip
  BY DEF Tip
<1>2. Held' = Held \cup {h}
  BY DEF Held
<1>3. TypeInv'
  <2>1. held' \in [Held' -> 0 .. Old] /\ Held' \subseteq 1 .. Tip'
    BY <1>1, <1>2 DEF TypeInv
  <2>2. latest' \in 0 .. Tip' /\ roots' \subseteq Held'
    BY <1>1, <1>2 DEF TypeInv
  <2> QED BY <1>1, <2>1, <2>2 DEF TypeInv
<1>4. LatestIsHeld'
  BY <1>2 DEF LatestIsHeld
<1>5. ChainedToTrust'
  BY <1>2 DEF ChainedToTrust
<1>6. CallInv'
  BY <1>2 DEF CallInv
<1> QED BY <1>3, <1>4, <1>5, <1>6

LEMMA TrustOnFirstUseKeeps == StoreInv /\ TrustOnFirstUse => StoreInv'
<1> SUFFICES ASSUME StoreInv, TrustOnFirstUse PROVE StoreInv'
  OBVIOUS
<1>1. PICK answers \in [Endpoints -> 0 .. Tip] :
        \E h \in ConsensusHeights(answers) : Trusted(h)
  BY DEF TrustOnFirstUse
<1>2. PICK h \in ConsensusHeights(answers) : Trusted(h)
  BY <1>1
<1>3. h \in 1 .. Tip
  <2>1. Tip \in Nat
    BY DEF StoreInv, TypeInv
  <2> QED BY <2>1, AnswersAgreed
<1> QED BY <1>2, <1>3, TrustedKeeps DEF TrustOnFirstUse

LEMMA TrustHeaderKeeps ==
  ASSUME StoreInv, NEW h \in 1 .. Tip, TrustHeader(h)
  PROVE  StoreInv'
BY TrustedKeeps DEF TrustHeader

-----------------------------------------------------------------------------
(* Calls keep the invariant *)

\* What a step of a call has to show when the headers stay as they are.
CallMoves(c) ==
  /\ call' \in [Callers -> CallType]
  /\ \A d \in Callers : d # c => call'[d] = call[d]
  /\ call'[c].next <= Tip /\ call'[c].target <= Tip
  /\ call'[c].at # "idle" => call'[c].result = "none" /\ call'[c].next <= call'[c].target

Justified(c) == call'[c].at = "verified" => call'[c].next - 1 \in Held /\ call'[c].next >= 1

LEMMA CallStepKeeps ==
  ASSUME StoreInv, NEW c \in Callers, CallMoves(c), Justified(c),
         since' \in 0 .. SyncEvery,
         UNCHANGED <<chainSideVars, headerVars, saved>>
  PROVE  StoreInv'
<1> USE DEF StoreInv, chainSideVars, chainVars, headerVars
<1>1. Tip' = Tip /\ Held' = Held
  BY DEF Tip, Held
<1>2. TypeInv'
  BY <1>1 DEF TypeInv, CallMoves
<1>3. CallInv'
  BY <1>1 DEF CallInv, CallMoves, Justified
<1>4. LatestIsHeld' /\ ChainedToTrust'
  BY <1>1 DEF LatestIsHeld, ChainedToTrust
<1> QED BY <1>2, <1>3, <1>4

LEMMA CallSet ==
  ASSUME call \in [Callers -> CallType], NEW c \in Callers, NEW to \in CallType,
         call' = [call EXCEPT ![c] = to]
  PROVE  /\ call' \in [Callers -> CallType] /\ call'[c] = to
         /\ \A d \in Callers : d # c => call'[d] = call[d]
OBVIOUS

LEMMA ReturnedCall ==
  ASSUME NEW r \in {"failed", "ok"}, NEW h \in Nat
  PROVE  /\ Returned(r, h) \in CallType
         /\ Returned(r, h).at = "idle" /\ Returned(r, h).next = 0
         /\ Returned(r, h).target = h /\ Returned(r, h).result = r
BY DEF Returned, Idle, CallType

\* A call that returns.
LEMMA CallReturns ==
  ASSUME StoreInv, NEW c \in Callers, NEW r \in {"failed", "ok"}, NEW h \in 0 .. Tip,
         call' = [call EXCEPT ![c] = Returned(r, h)]
  PROVE  /\ CallMoves(c) /\ Justified(c)
         /\ call'[c].result = r /\ call'[c].target = h
<1>1. Tip \in Nat /\ call \in [Callers -> CallType]
  BY DEF StoreInv, TypeInv
<1>2. PICK to : to = Returned(r, h)
  OBVIOUS
<1>3. /\ to \in CallType /\ to.at = "idle" /\ to.next = 0
      /\ to.target = h /\ to.result = r
  BY <1>1, <1>2, ReturnedCall
<1>4. /\ call' \in [Callers -> CallType] /\ call'[c] = to
      /\ \A d \in Callers : d # c => call'[d] = call[d]
  BY <1>1, <1>2, <1>3, CallSet
<1> QED BY <1>1, <1>3, <1>4 DEF CallMoves, Justified

\* A call that starts to fetch.
LEMMA CallStarts ==
  ASSUME StoreInv, NEW c \in Callers, NEW h \in Nat, NEW t \in Nat, h <= t, t <= Tip,
         call' = [call EXCEPT ![c] =
                    [Idle EXCEPT !.at = "fetching", !.next = h, !.target = t]]
  PROVE  CallMoves(c) /\ Justified(c) /\ call'[c].result = "none"
<1>1. Tip \in Nat /\ call \in [Callers -> CallType]
  BY DEF StoreInv, TypeInv
<1>2. PICK to : to = [Idle EXCEPT !.at = "fetching", !.next = h, !.target = t]
  OBVIOUS
<1>3. /\ to \in CallType /\ to.at = "fetching" /\ to.next = h
      /\ to.target = t /\ to.result = "none"
  BY <1>2 DEF Idle, CallType
<1>4. /\ call' \in [Callers -> CallType] /\ call'[c] = to
      /\ \A d \in Callers : d # c => call'[d] = call[d]
  BY <1>1, <1>2, <1>3, CallSet
<1>5. h <= Tip
  BY <1>1
<1>6. CallMoves(c)
  BY <1>3, <1>4, <1>5 DEF CallMoves
<1>7. Justified(c)
  BY <1>3, <1>4 DEF Justified
<1> QED BY <1>3, <1>4, <1>6, <1>7

\* A call that is under way goes to another header, or to another point.
LEMMA CallGoesOn ==
  ASSUME StoreInv, NEW c \in Callers, call[c].at # "idle",
         NEW at \in {"fetching", "verified"}, NEW h \in Nat, h <= call[c].target,
         call' = [call EXCEPT ![c] = [call[c] EXCEPT !.at = at, !.next = h]],
         at = "verified" => h - 1 \in Held /\ h >= 1
  PROVE  CallMoves(c) /\ Justified(c) /\ call'[c].result = "none"
<1>1. /\ Tip \in Nat /\ call \in [Callers -> CallType] /\ call[c] \in CallType
      /\ call[c].target \in Nat /\ call[c].target <= Tip /\ call[c].result = "none"
  BY DEF StoreInv, TypeInv, CallInv, CallType
<1>2. PICK to : to = [call[c] EXCEPT !.at = at, !.next = h]
  OBVIOUS
<1>3. /\ to \in CallType /\ to.at = at /\ to.next = h
      /\ to.target = call[c].target /\ to.result = "none"
  BY <1>1, <1>2 DEF CallType
<1>4. /\ call' \in [Callers -> CallType] /\ call'[c] = to
      /\ \A d \in Callers : d # c => call'[d] = call[d]
  BY <1>1, <1>2, <1>3, CallSet
<1>5. h <= Tip
  BY <1>1
<1>6. CallMoves(c)
  BY <1>1, <1>3, <1>4, <1>5 DEF CallMoves
<1>7. Justified(c)
  BY <1>3, <1>4 DEF Justified
<1> QED BY <1>3, <1>4, <1>6, <1>7

-----------------------------------------------------------------------------
(* What each call does to itself: if it returns success, to what *)

LEMMA SyncCall ==
  ASSUME StoreInv, NEW c \in Callers, SyncToLatest(c)
  PROVE  /\ CallMoves(c) /\ Justified(c)
         /\ call'[c].result = "ok" /\ Held # {} => call'[c].target \in Held
<1>1. PICK answers \in [Endpoints -> 0 .. Tip] :
        call' = [call EXCEPT ![c] =
            LET target == IF LatestHeights(answers) = {} THEN 0
                          ELSE CHOOSE h \in LatestHeights(answers) : TRUE
                first == (IF latest = 0 THEN 1 ELSE latest) + 1
            IN  IF target = 0 THEN Returned("failed", 0)
                ELSE IF target <= latest THEN Returned("ok", latest)
                ELSE IF first > target THEN Returned("ok", target)
                ELSE [Idle EXCEPT !.at = "fetching", !.next = first, !.target = target]]
  BY DEF SyncToLatest
<1> DEFINE target == IF LatestHeights(answers) = {} THEN 0
                     ELSE CHOOSE h \in LatestHeights(answers) : TRUE
           first == (IF latest = 0 THEN 1 ELSE latest) + 1
<1>2. Tip \in Nat /\ latest \in 0 .. Tip /\ Held \subseteq 1 .. Tip
  BY DEF StoreInv, TypeInv
<1>3. Held # {} => latest \in Held
  BY DEF StoreInv, LatestIsHeld
<1>4. target \in 0 .. Tip
  <2>1. LatestHeights(answers) \subseteq 1 .. Tip
    BY <1>2, AnswersAgreed
  <2> QED BY <1>2, <2>1
<1>5. first \in Nat
  BY <1>2
<1>6. CASE target = 0
  <2>1. call' = [call EXCEPT ![c] = Returned("failed", 0)]
    BY <1>1, <1>6
  <2>2. 0 \in 0 .. Tip
    BY <1>2
  <2>3. CallMoves(c) /\ Justified(c) /\ call'[c].result = "failed"
    BY <2>1, <2>2, CallReturns, Zenon
  <2> QED BY <2>3
<1>7. CASE target # 0 /\ target <= latest
  <2>1. call' = [call EXCEPT ![c] = Returned("ok", latest)]
    BY <1>1, <1>7
  <2> QED BY <1>2, <1>3, <2>1, CallReturns
<1>8. CASE target # 0 /\ ~(target <= latest) /\ first > target
  <2>1. call' = [call EXCEPT ![c] = Returned("ok", target)]
    BY <1>1, <1>8
  <2>2. Held = {}
    BY <1>2, <1>3, <1>4, <1>8
  <2> HIDE DEF target
  <2> QED BY <1>4, <2>1, <2>2, CallReturns
<1>9. CASE target # 0 /\ ~(target <= latest) /\ ~(first > target)
  <2>1. call' = [call EXCEPT ![c] =
                   [Idle EXCEPT !.at = "fetching", !.next = first, !.target = target]]
    BY <1>1, <1>9
  <2> HIDE DEF target, first
  <2>2. first <= target /\ target \in Nat /\ target <= Tip
    BY <1>2, <1>4, <1>5, <1>9
  <2>3. CallMoves(c) /\ Justified(c) /\ call'[c].result = "none"
    BY <1>5, <2>1, <2>2, CallStarts
  <2> QED BY <2>3
<1> QED BY <1>6, <1>7, <1>8, <1>9

LEMMA GetHeaderCall ==
  ASSUME StoreInv, NEW c \in Callers, NEW h \in 1 .. Tip, GetHeaderByHeight(c, h)
  PROVE  /\ CallMoves(c) /\ Justified(c)
         /\ call'[c].result = "ok" => call'[c].target \in Held
<1>1. Tip \in Nat
  BY DEF StoreInv, TypeInv
<1>2. CASE h \in Held
  <2>1. call' = [call EXCEPT ![c] = Returned("ok", h)]
    BY <1>2 DEF GetHeaderByHeight
  <2>2. h \in 0 .. Tip
    BY <1>1
  <2>3. CallMoves(c) /\ Justified(c) /\ call'[c].target = h
    BY <2>1, <2>2, CallReturns, Zenon
  <2> QED BY <1>2, <2>3
<1>3. CASE h \notin Held
  <2>1. call' = [call EXCEPT ![c] =
                   [Idle EXCEPT !.at = "fetching", !.next = h, !.target = h]]
    BY <1>3 DEF GetHeaderByHeight
  <2>2. h \in Nat /\ h <= h /\ h <= Tip
    BY <1>1
  <2>3. CallMoves(c) /\ Justified(c) /\ call'[c].result = "none"
    BY <2>1, <2>2, CallStarts, Zenon
  <2> QED BY <2>3
<1> QED BY <1>2, <1>3

\* A header is accepted only next to one that is held.
LEMMA VerifiedFollows ==
  ASSUME StoreInv, NEW h \in Nat, Verifies(h)
  PROVE  h - 1 \in Held /\ h >= 1
<1>1. Held \subseteq Nat
  BY DEF StoreInv, TypeInv
<1>2. PICK g \in Best(h) : h = g + 1
  BY DEF Verifies, Sequential
<1>3. g \in Held
  BY <1>2 DEF Best
<1> QED BY <1>1, <1>2, <1>3

LEMMA FetchHeaderCall ==
  ASSUME StoreInv, NEW c \in Callers, FetchHeader(c)
  PROVE  CallMoves(c) /\ Justified(c) /\ call'[c].result # "ok"
<1> DEFINE h == call[c].next
<1>1. Tip \in Nat /\ h \in 0 .. Tip
  BY DEF StoreInv, TypeInv, CallType
<1>2. call[c].at = "fetching" /\ h <= call[c].target
  BY DEF FetchHeader, StoreInv, CallInv
<1>3. \/ call' = [call EXCEPT ![c] = Returned("failed", h)]
      \/ Verifies(h) /\ call' = [call EXCEPT ![c] = [call[c] EXCEPT !.at = "verified"]]
  BY DEF FetchHeader, NotVerified
<1>4. CASE call' = [call EXCEPT ![c] = Returned("failed", h)]
  BY <1>1, <1>4, CallReturns
<1>5. CASE Verifies(h) /\ call' = [call EXCEPT ![c] = [call[c] EXCEPT !.at = "verified"]]
  <2>1. h - 1 \in Held /\ h >= 1
    BY <1>1, <1>5, VerifiedFollows
  <2>2. [call[c] EXCEPT !.at = "verified"] = [call[c] EXCEPT !.at = "verified", !.next = h]
    BY DEF StoreInv, TypeInv, CallType
  <2>3. call' = [call EXCEPT ![c] = [call[c] EXCEPT !.at = "verified", !.next = h]]
    BY <1>5, <2>2
  <2>4. h \in Nat /\ call[c].at # "idle" /\ "verified" \in {"fetching", "verified"}
    BY <1>1, <1>2
  <2>5. CallMoves(c) /\ Justified(c) /\ call'[c].result = "none"
    BY <1>2, <2>1, <2>3, <2>4, CallGoesOn, Zenon
  <2> QED BY <2>5
<1> QED BY <1>3, <1>4, <1>5

\* The call after a header is added goes on, or names that header.
LEMMA AddTrustedCall ==
  ASSUME StoreInv, NEW c \in Callers, AddTrustedHeader(c)
  PROVE  /\ CallMoves(c) /\ call'[c].at # "verified"
         /\ call'[c].result = "ok" => call'[c].target = call[c].next
<1> DEFINE h == call[c].next
           t == call[c].target
<1>1. Tip \in Nat /\ h \in 0 .. Tip /\ t \in 0 .. Tip
  BY DEF StoreInv, TypeInv, CallType
<1>2. call[c].at = "verified" /\ h <= t
  BY DEF AddTrustedHeader, StoreInv, CallInv
<1>3. CASE h < t
  <2>1. call' = [call EXCEPT ![c] = [call[c] EXCEPT !.at = "fetching", !.next = h + 1]]
    BY <1>3 DEF AddTrustedHeader, NextHeader
  <2>2. /\ h + 1 \in Nat /\ h + 1 <= t /\ call[c].at # "idle"
        /\ "fetching" \in {"fetching", "verified"} /\ "fetching" # "verified"
    BY <1>1, <1>2, <1>3
  <2>3. CallMoves(c) /\ call'[c].result = "none"
    BY <2>1, <2>2, CallGoesOn, Zenon
  <2>4. call'[c].at = "fetching"
    BY <2>1 DEF StoreInv, TypeInv, CallType
  <2> QED BY <2>3, <2>4
<1>4. CASE ~(h < t)
  <2>1. call' = [call EXCEPT ![c] = Returned("ok", t)]
    BY <1>4 DEF AddTrustedHeader, NextHeader
  <2>2. t = h
    BY <1>1, <1>2, <1>4
  <2>3. CallMoves(c) /\ call'[c].target = t
    BY <1>1, <2>1, CallReturns
  <2>4. call'[c].at = "idle"
    BY <1>1, <2>1, ReturnedCall DEF StoreInv, TypeInv
  <2> QED BY <2>2, <2>3, <2>4
<1> QED BY <1>3, <1>4

-----------------------------------------------------------------------------
(* The other steps *)

LEMMA AddTrustedHeaderKeeps ==
  ASSUME StoreInv, NEW c \in Callers, AddTrustedHeader(c)
  PROVE  StoreInv'
<1> DEFINE h == call[c].next
<1> USE DEF StoreInv
<1>1. CallMoves(c) /\ call'[c].at # "verified"
  BY AddTrustedCall
<1>2. Tip' = Tip /\ Tip \in Nat /\ h \in 1 .. Tip /\ h - 1 \in Held
  BY DEF AddTrustedHeader, TypeInv, CallInv, CallType, chainSideVars, chainVars, Tip
<1>3. /\ held' = [g \in Held \cup {h} |-> IF g = h THEN age[h] ELSE held[g]]
      /\ latest' = IF h > latest THEN h ELSE latest
      /\ UNCHANGED <<chainSideVars, roots, saved, since>>
  BY DEF AddTrustedHeader, WithHeader
<1>4. Held' = Held \cup {h}
  BY <1>3 DEF Held
<1> HIDE DEF h
<1>5. TypeInv'
  <2>1. held' \in [Held' -> 0 .. Old] /\ Held' \subseteq 1 .. Tip'
    BY <1>2, <1>3, <1>4 DEF TypeInv
  <2>2. latest' \in 0 .. Tip' /\ roots' \subseteq Held'
    BY <1>2, <1>3, <1>4 DEF TypeInv
  <2>3. \A d \in Callers : call'[d].next <= Tip' /\ call'[d].target <= Tip'
    BY <1>1, <1>2 DEF CallMoves, TypeInv
  <2>4. call' \in [Callers -> CallType]
    BY <1>1 DEF CallMoves
  <2> QED BY <1>2, <1>3, <2>1, <2>2, <2>3, <2>4 DEF TypeInv, chainSideVars, chainVars
<1>6. LatestIsHeld'
  BY <1>2, <1>3, <1>4 DEF LatestIsHeld, TypeInv
<1>7. ChainedToTrust'
  BY <1>2, <1>3, <1>4 DEF ChainedToTrust
<1>8. CallInv'
  BY <1>1, <1>4 DEF CallInv, CallMoves
<1> QED BY <1>5, <1>6, <1>7, <1>8

LEMMA ExportKeeps == StoreInv /\ ExportTrustedState => StoreInv'
<1> SUFFICES ASSUME StoreInv, ExportTrustedState PROVE StoreInv'
  OBVIOUS
<1> USE StoreAssumption DEF StoreInv, ExportTrustedState, chainSideVars, chainVars, headerVars
<1>1. Tip' = Tip /\ Held' = Held
  BY DEF Tip, Held
<1>2. DOMAIN saved' = Held /\ saved' \in [DOMAIN saved' -> 0 .. Old]
  BY SMTT(30) DEF ExportedAge, TypeInv, Old
<1>3. TypeInv'
  BY <1>1, <1>2 DEF TypeInv
<1> QED BY <1>1, <1>3 DEF LatestIsHeld, ChainedToTrust, CallInv

LEMMA CrashKeeps == StoreInv /\ Crash => StoreInv'
<1> SUFFICES ASSUME StoreInv, Crash PROVE StoreInv'
  OBVIOUS
<1> USE DEF StoreInv, Crash, chainSideVars, chainVars
<1>1. Tip' = Tip /\ Held' = {}
  BY DEF Tip, Held
<1>2. Idle \in CallType /\ Idle.next = 0 /\ Idle.target = 0 /\ Idle.at = "idle"
  BY DEF Idle, CallType
<1>3. \A c \in Callers : call'[c] = Idle
  OBVIOUS
<1>4. call' \in [Callers -> CallType]
  BY <1>2
<1>5. held' \in [Held' -> 0 .. Old]
  BY <1>1 DEF Held
<1>6. TypeInv'
  BY <1>1, <1>2, <1>3, <1>4, <1>5 DEF TypeInv
<1> QED BY <1>1, <1>2, <1>3, <1>6 DEF LatestIsHeld, ChainedToTrust, CallInv

LEMMA ImportKeeps == StoreInv /\ ImportTrustedState => StoreInv'
<1> SUFFICES ASSUME StoreInv, ImportTrustedState PROVE StoreInv'
  OBVIOUS
<1> USE DEF StoreInv
<1> DEFINE S == {latest} \cup DOMAIN saved
<1>1. /\ held' = [h \in Held \cup DOMAIN saved |-> IF h \in DOMAIN saved THEN saved[h] ELSE held[h]]
      /\ latest' = Highest(S) /\ roots' = roots \cup DOMAIN saved
      /\ UNCHANGED <<chainSideVars, call, saved, since>>
  BY DEF ImportTrustedState
<1>2. Tip' = Tip /\ Tip \in Nat /\ S \subseteq 0 .. Tip /\ S # {}
  BY <1>1 DEF Tip, TypeInv, chainSideVars, chainVars
<1>3. Held' = Held \cup DOMAIN saved
  BY <1>1 DEF Held
<1>4. latest' \in S /\ \A g \in S : latest' >= g
  BY <1>1, <1>2, HighestIsIn
<1>5. TypeInv'
  <2>1. held' \in [Held' -> 0 .. Old] /\ Held' \subseteq 1 .. Tip'
    BY <1>1, <1>2, <1>3 DEF TypeInv
  <2>2. latest' \in 0 .. Tip' /\ roots' \subseteq Held'
    BY <1>1, <1>2, <1>3, <1>4 DEF TypeInv
  <2> QED BY <1>1, <1>2, <2>1, <2>2 DEF TypeInv, chainSideVars, chainVars
<1>6. LatestIsHeld'
  <2>1. CASE DOMAIN saved = {}
    BY <1>3, <1>4, <2>1 DEF LatestIsHeld
  <2>2. CASE DOMAIN saved # {}
    BY <1>2, <1>3, <1>4, <2>2 DEF LatestIsHeld, TypeInv
  <2> QED BY <2>1, <2>2
<1>7. ChainedToTrust'
  BY <1>1, <1>3 DEF ChainedToTrust
<1>8. CallInv'
  BY <1>1, <1>3 DEF CallInv
<1> QED BY <1>5, <1>6, <1>7, <1>8

LEMMA ProduceBlockKeeps == StoreInv /\ ProduceBlock => StoreInv'
<1> SUFFICES ASSUME StoreInv, ProduceBlock PROVE StoreInv'
  OBVIOUS
<1> USE DEF StoreInv, ProduceBlock, headerVars
<1>1. PICK v \in Values : state' = Append(state, v) /\ seen' = seen
  BY DEF Produce
<1>2. Tip \in Nat /\ state' \in Seq(Values) /\ Tip' = Tip + 1 /\ Tip' \in 1 .. MaxHeight
  BY <1>1, ChainAssumption DEF Tip, TypeInv, Produce
<1>3. Held' = Held
  BY DEF Held
<1>4. age' \in [1 .. Tip' -> 0 .. Old]
  <2>1. Old \in Nat
    BY StoreAssumption DEF Old
  <2>2. age \in Seq(0 .. Old) /\ Len(age) = Tip
    BY <1>2, ListIsSeq DEF TypeInv
  <2>3. Append(age, 0) \in Seq(0 .. Old) /\ Len(Append(age, 0)) = Tip + 1
    BY <2>1, <2>2, AppendProperties
  <2>4. age' \in Seq(0 .. Old) /\ Len(age') = Tip'
    BY <1>2, <2>3
  <2> QED BY <2>4, LenProperties
<1>5. vals' \in Seq(ValidatorSets) /\ Len(vals') = Tip' + 1
  BY <1>2 DEF TypeInv
<1>6. seen' \in [Endpoints -> 1 .. Tip']
  BY <1>1, <1>2 DEF TypeInv
<1>7. /\ Held' \subseteq 1 .. Tip' /\ DOMAIN saved' \subseteq 1 .. Tip' /\ latest' \in 0 .. Tip'
      /\ \A c \in Callers : call'[c].next <= Tip' /\ call'[c].target <= Tip'
  BY <1>2, <1>3 DEF TypeInv, CallType
<1>8. TypeInv'
  BY <1>2, <1>3, <1>4, <1>5, <1>6, <1>7 DEF TypeInv
<1> QED BY <1>3, <1>8 DEF LatestIsHeld, ChainedToTrust, CallInv

LEMMA FollowChainKeeps == StoreInv /\ FollowChain => StoreInv'
<1> SUFFICES ASSUME StoreInv, FollowChain PROVE StoreInv'
  OBVIOUS
<1> USE DEF StoreInv, FollowChain, headerVars
<1>1. PICK e \in Endpoints : seen[e] < Tip /\ seen' = [seen EXCEPT ![e] = @ + 1] /\ state' = state
  BY DEF Follow
<1>2. Tip' = Tip /\ Held' = Held
  BY <1>1 DEF Tip, Held
<1>3. seen' \in [Endpoints -> 1 .. Tip']
  BY <1>1, <1>2 DEF TypeInv
<1>4. TypeInv'
  BY <1>1, <1>2, <1>3 DEF TypeInv
<1> QED BY <1>2, <1>4 DEF LatestIsHeld, ChainedToTrust, CallInv

LEMMA TickKeeps == StoreInv /\ Tick => StoreInv'
<1> SUFFICES ASSUME StoreInv, Tick PROVE StoreInv'
  OBVIOUS
<1> USE StoreAssumption DEF StoreInv, Tick, chainVars
<1>1. Tip' = Tip /\ Held' = Held /\ DOMAIN saved' = DOMAIN saved
  BY DEF Tip, Held
<1>2. \A t \in 0 .. Old : Older(t) \in 0 .. Old
  BY DEF Older, Old
<1>3. age' \in [1 .. Tip' -> 0 .. Old]
  BY <1>1, <1>2 DEF TypeInv
<1>4. held' \in [Held' -> 0 .. Old] /\ saved' \in [DOMAIN saved' -> 0 .. Old]
  BY <1>1, <1>2 DEF TypeInv
<1>5. since' \in 0 .. SyncEvery
  BY DEF TypeInv
<1>6. TypeInv'
  BY <1>1, <1>3, <1>4, <1>5 DEF TypeInv
<1> QED BY <1>1, <1>6 DEF LatestIsHeld, ChainedToTrust, CallInv

LEMMA StoreInvStep == StoreInv /\ [Next]_vars => StoreInv'
<1> SUFFICES ASSUME StoreInv, [Next]_vars PROVE StoreInv'
  OBVIOUS
<1>1. CASE TrustOnFirstUse
  BY <1>1, TrustOnFirstUseKeeps
<1>2. ASSUME NEW h \in 1 .. Tip, TrustHeader(h) PROVE StoreInv'
  BY <1>2, TrustHeaderKeeps
<1>3. ASSUME NEW c \in Callers, SyncToLatest(c) PROVE StoreInv'
  <2>1. since' \in 0 .. SyncEvery /\ UNCHANGED <<chainSideVars, headerVars, saved>>
    BY <1>3, StoreAssumption DEF SyncToLatest, StoreInv, TypeInv
  <2> QED BY <1>3, <2>1, SyncCall, CallStepKeeps
<1>4. ASSUME NEW c \in Callers, FetchHeader(c) PROVE StoreInv'
  <2>1. since' \in 0 .. SyncEvery /\ UNCHANGED <<chainSideVars, headerVars, saved>>
    BY <1>4 DEF FetchHeader, StoreInv, TypeInv
  <2> QED BY <1>4, <2>1, FetchHeaderCall, CallStepKeeps
<1>5. ASSUME NEW c \in Callers, AddTrustedHeader(c) PROVE StoreInv'
  BY <1>5, AddTrustedHeaderKeeps
<1>6. ASSUME NEW c \in Callers, NEW h \in 1 .. Tip, GetHeaderByHeight(c, h) PROVE StoreInv'
  <2>1. since' \in 0 .. SyncEvery /\ UNCHANGED <<chainSideVars, headerVars, saved>>
    BY <1>6 DEF GetHeaderByHeight, StoreInv, TypeInv
  <2> QED BY <1>6, <2>1, GetHeaderCall, CallStepKeeps
<1>7. CASE ExportTrustedState \/ Crash \/ ImportTrustedState
  BY <1>7, ExportKeeps, CrashKeeps, ImportKeeps
<1>8. CASE ProduceBlock \/ FollowChain \/ Tick
  BY <1>8, ProduceBlockKeeps, FollowChainKeeps, TickKeeps
<1>9. CASE UNCHANGED vars
  <2>1. Tip' = Tip /\ Held' = Held
    BY <1>9 DEF vars, chainSideVars, chainVars, headerVars, Tip, Held
  <2>2. TypeInv' /\ LatestIsHeld' /\ ChainedToTrust' /\ CallInv'
    BY <1>9, <2>1 DEF vars, chainSideVars, chainVars, headerVars, StoreInv, TypeInv,
                      LatestIsHeld, ChainedToTrust, CallInv
  <2> QED BY <2>2 DEF StoreInv
<1> QED BY <1>1, <1>2, <1>3, <1>4, <1>5, <1>6, <1>7, <1>8, <1>9 DEF Next

LEMMA StoreInvariant == Spec => []StoreInv
BY InitStoreInv, StoreInvStep, PTL DEF Spec

-----------------------------------------------------------------------------
(* Theorems *)

\* Type correctness.
THEOREM StoreTypes == Spec => []StoreTypeOK
<1>1. ASSUME StoreInv PROVE StoreTypeOK
  <2> USE <1>1 DEF StoreInv, TypeInv
  <2>1. ChainTypeOK
    BY DEF ChainTypeOK
  <2>2. \A c \in Callers : call[c] \in [at : {"idle", "fetching", "verified"}, next : 0 .. Tip,
                                      target : 0 .. Tip, result : {"none", "ok", "failed"}]
    BY DEF CallType
  <2>3. \A h \in Held : held[h] \in 0 .. Old
    OBVIOUS
  <2> QED BY <2>1, <2>2, <2>3 DEF StoreTypeOK
<1> QED BY <1>1, StoreInvariant, PTL

\* Trust is never conjured up: however many calls, initialisations and imports
\* overlap, every header held goes back, header by header, to one the caller
\* trusted or imported (client.ts: syncToLatest, importTrustedState).
THEOREM HeadersAreChained == Spec => []ChainedToTrust
<1>1. StoreInv => ChainedToTrust
  BY DEF StoreInv
<1> QED BY <1>1, StoreInvariant, PTL

\* A call that returns success has the header it names, whatever the calls beside
\* it did (client.ts: syncToLatest, getHeaderByHeight).
THEOREM SuccessIsHeld == Spec => SyncedIsHeld
<1> DEFINE Step == \A c \in Callers :
             call'[c] # call[c] /\ call'[c].result = "ok" /\ Held # {} => call'[c].target \in Held'
<1>1. ASSUME StoreInv, [Next]_vars PROVE [Step]_vars
  <2>1. CASE TrustOnFirstUse \/ \E h \in 1 .. Tip : TrustHeader(h)
    BY <2>1 DEF TrustOnFirstUse, TrustHeader
  <2>2. ASSUME NEW c \in Callers, SyncToLatest(c) PROVE Step
    <3>1. /\ CallMoves(c)
          /\ call'[c].result = "ok" /\ Held # {} => call'[c].target \in Held
      BY <1>1, <2>2, SyncCall
    <3>2. Held' = Held
      BY <2>2 DEF SyncToLatest, headerVars, Held
    <3> QED BY <3>1, <3>2 DEF CallMoves
  <2>3. ASSUME NEW c \in Callers, FetchHeader(c) PROVE Step
    BY <1>1, <2>3, FetchHeaderCall DEF CallMoves
  <2>4. ASSUME NEW c \in Callers, AddTrustedHeader(c) PROVE Step
    <3>1. CallMoves(c) /\ (call'[c].result = "ok" => call'[c].target = call[c].next)
      BY <1>1, <2>4, AddTrustedCall
    <3>2. call[c].next \in Held'
      BY <2>4 DEF AddTrustedHeader, WithHeader, Held
    <3> QED BY <3>1, <3>2 DEF CallMoves
  <2>5. ASSUME NEW c \in Callers, NEW h \in 1 .. Tip, GetHeaderByHeight(c, h) PROVE Step
    <3>1. CallMoves(c) /\ (call'[c].result = "ok" => call'[c].target \in Held)
      BY <1>1, <2>5, GetHeaderCall
    <3>2. Held' = Held
      BY <2>5 DEF GetHeaderByHeight, headerVars, Held
    <3> QED BY <3>1, <3>2 DEF CallMoves
  <2>6. CASE Crash
    BY <2>6 DEF Crash, Idle
  <2>7. CASE ExportTrustedState \/ ImportTrustedState \/ ProduceBlock \/ FollowChain \/ Tick
    BY <2>7 DEF ExportTrustedState, ImportTrustedState, ProduceBlock, FollowChain, Tick
  <2> QED BY <1>1, <2>1, <2>2, <2>3, <2>4, <2>5, <2>6, <2>7 DEF Next
<1> QED BY <1>1, StoreInvariant, PTL DEF Spec, SyncedIsHeld

\* What is exported is held again after an import, and is within the height and
\* the range the client then says it has verified (client.ts:
\* exportTrustedState, importTrustedState).
THEOREM ImportsRestore == Spec => ImportRestores
<1> DEFINE Step == ImportTrustedState =>
             /\ DOMAIN saved \subseteq Held'
             /\ \A h \in DOMAIN saved : h <= latest'
             /\ \A h \in Held' : range'[1] <= h /\ h <= range'[2]
<1>1. ASSUME StoreInv, ImportTrustedState PROVE Step
  <2> DEFINE S == {latest} \cup DOMAIN saved
             K == Held \cup DOMAIN saved
  <2>1. Tip \in Nat /\ S \subseteq 0 .. Tip /\ S # {} /\ K \subseteq 0 .. Tip
    BY <1>1 DEF StoreInv, TypeInv
  <2>2. Held' = K /\ latest' = Highest(S) /\ range' = <<Lowest(K), Highest(K)>>
    BY <1>1 DEF ImportTrustedState, RangeOf, Held
  <2>3. \A g \in S : latest' >= g
    BY <2>1, <2>2, HighestIsIn
  <2>4. CASE K = {}
    BY <2>2, <2>3, <2>4
  <2>5. CASE K # {}
    <3>1. Lowest(K) \in K /\ \A g \in K : Lowest(K) <= g
      BY <2>1, <2>5, LowestIsIn
    <3>2. Highest(K) \in K /\ \A g \in K : Highest(K) >= g
      BY <2>1, <2>5, HighestIsIn
    <3>3. \A h \in DOMAIN saved : h <= latest'
      BY <2>1, <2>3
    <3> QED BY <2>1, <2>2, <3>1, <3>2, <3>3
  <2> QED BY <2>4, <2>5
<1> QED BY <1>1, StoreInvariant, PTL DEF Spec, ImportRestores

\* A header found good is of a block that is still recent when it is added: no
\* tick passes while a call is under way.
RecentCalls ==
  \A c \in Callers : call[c].at = "verified" => call[c].next \in 1 .. Tip /\ Recent(call[c].next)

LEMMA RecentCallsStep == StoreInv /\ RecentCalls /\ [Next]_vars => RecentCalls'
<1> SUFFICES ASSUME StoreInv, RecentCalls, [Next]_vars PROVE RecentCalls'
  OBVIOUS
<1>1. Tip \in Nat /\ Tip >= 1 /\ call \in [Callers -> CallType]
  BY DEF StoreInv, TypeInv
<1>2. ASSUME UNCHANGED <<state, age>>,
             \A c \in Callers : call'[c].at = "verified" =>
               call'[c] = call[c] \/ (call'[c].next \in 1 .. Tip /\ Recent(call'[c].next))
      PROVE  RecentCalls'
  <2>1. Tip' = Tip /\ \A h : Recent(h)' <=> age[h] <= Drift
    BY <1>2 DEF Tip, Recent
  <2> QED BY <1>2, <2>1 DEF RecentCalls, Recent
<1>3. CASE TrustOnFirstUse \/ \E h \in 1 .. Tip : TrustHeader(h)
  BY <1>2, <1>3 DEF TrustOnFirstUse, TrustHeader, chainSideVars, chainVars
<1>4. ASSUME NEW c \in Callers, SyncToLatest(c) \/ AddTrustedHeader(c)
                                  \/ \E h \in 1 .. Tip : GetHeaderByHeight(c, h)
      PROVE  RecentCalls'
  <2>1. CallMoves(c) /\ call'[c].at # "verified"
    <3>1. CASE AddTrustedHeader(c)
      BY <3>1, AddTrustedCall
    <3>2. CASE SyncToLatest(c)
      <4>1. CallMoves(c)
        BY <3>2, SyncCall
      <4>2. PICK r, n : call' = [call EXCEPT ![c] = Returned(r, n)]
                        \/ call' = [call EXCEPT ![c] = [Idle EXCEPT !.at = "fetching", !.next = r, !.target = n]]
        BY <3>2, Zenon DEF SyncToLatest
      <4> QED BY <1>1, <4>1, <4>2 DEF Returned, Idle
    <3>3. CASE \E h \in 1 .. Tip : GetHeaderByHeight(c, h)
      <4>1. PICK h \in 1 .. Tip : GetHeaderByHeight(c, h)
        BY <3>3
      <4>2. CallMoves(c)
        BY <4>1, GetHeaderCall
      <4> QED BY <1>1, <4>1, <4>2 DEF GetHeaderByHeight, Returned, Idle
    <3> QED BY <1>4, <3>1, <3>2, <3>3
  <2>2. UNCHANGED <<state, age>>
    BY <1>4 DEF SyncToLatest, AddTrustedHeader, GetHeaderByHeight, chainSideVars, chainVars
  <2> QED BY <1>2, <2>1, <2>2 DEF CallMoves
<1>5. ASSUME NEW c \in Callers, FetchHeader(c) PROVE RecentCalls'
  <2> DEFINE h == call[c].next
  <2>1. CallMoves(c) /\ Justified(c)
    BY <1>5, FetchHeaderCall
  <2>2. call[c].at = "fetching" /\ h \in 0 .. Tip
    BY <1>5 DEF FetchHeader, StoreInv, TypeInv, CallType
  <2>3. \/ call' = [call EXCEPT ![c] = Returned("failed", h)]
        \/ Verifies(h) /\ call' = [call EXCEPT ![c] = [call[c] EXCEPT !.at = "verified"]]
    BY <1>5 DEF FetchHeader, NotVerified
  <2>4. call'[c].at = "verified" => call'[c].next = h /\ Recent(h)
    <3>1. CASE call' = [call EXCEPT ![c] = Returned("failed", h)]
      BY <1>1, <3>1 DEF Returned, Idle
    <3>2. CASE Verifies(h) /\ call' = [call EXCEPT ![c] = [call[c] EXCEPT !.at = "verified"]]
      BY <1>1, <3>2 DEF Verifies, CallType
    <3> QED BY <2>3, <3>1, <3>2
  <2>5. call'[c].at = "verified" => call'[c].next \in 1 .. Tip
    BY <1>1, <2>1, <2>2, <2>4 DEF Justified
  <2>6. UNCHANGED <<state, age>>
    BY <1>5 DEF FetchHeader, chainSideVars, chainVars
  <2> QED BY <1>2, <2>1, <2>4, <2>5, <2>6 DEF CallMoves
<1>6. CASE ExportTrustedState \/ ImportTrustedState
  BY <1>2, <1>6 DEF ExportTrustedState, ImportTrustedState, chainSideVars, chainVars
<1>7. CASE Crash \/ Tick
  <2>1. \A c \in Callers : call'[c].at = "idle"
    BY <1>7 DEF Crash, Tick, Idle
  <2> QED BY <2>1 DEF RecentCalls
<1>8. CASE ProduceBlock
  <2>1. call' = call /\ age' = Append(age, 0)
    BY <1>8 DEF ProduceBlock
  <2>2. Tip' = Tip + 1
    <3>1. PICK v \in Values : state' = Append(state, v)
      BY <1>8 DEF ProduceBlock, Produce
    <3> QED BY <3>1 DEF Tip, StoreInv, TypeInv
  <2>3. \A h \in 1 .. Tip : age'[h] = age[h]
    <3>1. age \in Seq(0 .. Old) /\ Len(age) = Tip
      BY <1>1, ListIsSeq DEF StoreInv, TypeInv
    <3> QED BY <2>1, <3>1, AppendProperties
  <2> SUFFICES ASSUME NEW c \in Callers, call[c].at = "verified"
               PROVE  call[c].next \in 1 .. Tip' /\ age'[call[c].next] <= Drift
    BY <2>1, Zenon DEF RecentCalls, Recent
  <2>4. call[c].next \in 1 .. Tip /\ age[call[c].next] <= Drift
    BY DEF RecentCalls, Recent
  <2> QED BY <1>1, <2>2, <2>3, <2>4
<1>9. CASE FollowChain
  <2>1. UNCHANGED <<state, age, call>>
    BY <1>9, Zenon DEF FollowChain, Follow
  <2> QED BY <1>2, <2>1
<1>10. CASE UNCHANGED vars
  BY <1>2, <1>10 DEF vars, chainSideVars, chainVars
<1> QED BY <1>3, <1>4, <1>5, <1>6, <1>7, <1>8, <1>9, <1>10 DEF Next

\* A client that missed a block's time gets no later header until it is given
\* trust anew, whatever calls overlap (verifier.ts: validateBasicHeader,
\* verifySequential).
THEOREM LeftBehindForGood == Spec => LeftBehind
<1> DEFINE Step == Held # {} /\ Highest(Held) < Tip /\ ~Recent(Highest(Held) + 1)
                       /\ roots' \subseteq roots
                     => \A h \in Held' : h <= Highest(Held)
<1>1. Init => RecentCalls
  BY DEF Init, Idle, RecentCalls
<1>2. ASSUME StoreInv, RecentCalls, [Next]_vars PROVE [Step]_vars
  <2> SUFFICES ASSUME Next, Held # {}, ~Recent(Highest(Held) + 1), roots' \subseteq roots
               PROVE  \A h \in Held' : h <= Highest(Held)
    BY <1>2
  <2>1. /\ Tip \in Nat /\ Held \subseteq 0 .. Tip /\ roots \subseteq Held
        /\ Highest(Held) \in Held /\ \A g \in Held : g <= Highest(Held)
    <3>1. Tip \in Nat /\ Held \subseteq 0 .. Tip /\ roots \subseteq Held
      BY <1>2 DEF StoreInv, TypeInv
    <3> QED BY <3>1, HighestIsIn
  <2>2. ASSUME NEW c \in Callers, AddTrustedHeader(c)
        PROVE  \A h \in Held' : h <= Highest(Held)
    <3>1. Held' = Held \cup {call[c].next}
      BY <2>2 DEF AddTrustedHeader, WithHeader, Held
    <3>2. /\ call[c].next - 1 \in Held /\ call[c].next \in 1 .. Tip
          /\ Recent(call[c].next)
      BY <1>2, <2>2 DEF AddTrustedHeader, StoreInv, CallInv, RecentCalls
    <3>3. call[c].next # Highest(Held) + 1
      BY <3>2
    <3>4. PICK m \in 0 .. Tip : m = Highest(Held)
      BY <2>1, Zenon
    <3>5. \A g \in Held : g <= m
      BY <2>1, <3>4, Zenon
    <3>6. call[c].next <= m
      BY <2>1, <3>2, <3>3, <3>4, <3>5
    <3>7. \A h \in Held' : h <= m
      BY <3>1, <3>5, <3>6, Zenon
    <3> QED BY <3>4, <3>7, Zenon
  <2>3. ASSUME Held' = Held \/ Held' = {} PROVE \A h \in Held' : h <= Highest(Held)
    BY <2>1, <2>3
  <2>4. ASSUME NEW h, Trusted(h) PROVE Held' = Held
    <3>1. h \in Held
      BY <2>1, <2>4 DEF Trusted
    <3> QED BY <2>4, <3>1 DEF Trusted, Held
  <2>5. CASE TrustOnFirstUse \/ \E h \in 1 .. Tip : TrustHeader(h)
    BY <2>3, <2>4, <2>5 DEF TrustOnFirstUse, TrustHeader
  <2>6. CASE ImportTrustedState
    <3>1. DOMAIN saved \subseteq Held
      BY <2>1, <2>6 DEF ImportTrustedState
    <3>2. Held' = Held
      BY <2>6, <3>1 DEF ImportTrustedState, Held
    <3> QED BY <2>3, <3>2
  <2>7. ASSUME NEW c \in Callers, SyncToLatest(c) \/ FetchHeader(c)
                                    \/ \E h \in 1 .. Tip : GetHeaderByHeight(c, h)
        PROVE  Held' = Held
    BY <2>7 DEF SyncToLatest, FetchHeader, GetHeaderByHeight, headerVars, Held
  <2>8. CASE ExportTrustedState \/ Crash \/ ProduceBlock \/ FollowChain \/ Tick
    BY <2>3, <2>8 DEF ExportTrustedState, Crash, ProduceBlock, FollowChain, Tick, headerVars, Held
  <2> QED BY <2>2, <2>3, <2>7, <2>8, <2>5, <2>6 DEF Next
<1>3. RecentCalls /\ StoreInv /\ [Next]_vars => RecentCalls'
  BY RecentCallsStep
<1> QED BY <1>1, <1>2, <1>3, StoreInvariant, PTL DEF Spec, LeftBehind
=============================================================================
