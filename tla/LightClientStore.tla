------------------------- MODULE LightClientStore ---------------------------
(***************************************************************************)
(* The light client's store of trusted headers (light-client/client.ts):   *)
(* how it is initialised, how overlapping calls of syncToLatest and        *)
(* getHeaderByHeight add to it what HeaderVerifier accepts (light-         *)
(* client/verifier.ts), and how it is exported, lost and imported.         *)
(*                                                                         *)
(* Time is counted in ticks and kept as ages, up to one tick more than the *)
(* clock drift allowed: older than that is all the same to the code.  The  *)
(* endpoints of one request are asked one after the other; as none goes    *)
(* back, asking them at once has the same answers, one that has moved on   *)
(* since being one that is behind.                                         *)
(***************************************************************************)
EXTENDS ConsensusHeader

CONSTANTS
  Callers,       \* calls that may be under way at once: the interval's and the application's
  ValidatorSets, \* the sequences of validators a block may have
  Drift,         \* maxClockDriftSecs
  SyncEvery,     \* syncIntervalSecs
  TrustNum, TrustDen,  \* trustThreshold
  SignBytesMatch,      \* whether validators sign the bytes createVoteSignBytes builds
  Through,       \* how an exported state comes back: "objects" or "storage"
  MaxTrusts,     \* bound: initialisations
  MaxFaults,     \* bound: requests that fail
  MaxCrashes,    \* bound: times the client is started anew
  MaxChanges     \* bound: changes of the validators

ASSUME StoreAssumption ==
  /\ Drift \in Nat /\ SyncEvery \in Nat \ {0}
  /\ TrustNum \in Nat /\ TrustDen \in Nat \ {0} /\ TrustNum <= TrustDen
  /\ Through \in {"objects", "storage"} /\ SignBytesMatch \in BOOLEAN
  /\ {MaxTrusts, MaxFaults, MaxCrashes, MaxChanges} \subseteq Nat

VARIABLES
  age,      \* the age of each block
  vals,     \* the validators of each block, and of the next
  held,     \* trustedHeaders: the height of each, and the age its time gives it
  latest,   \* latestHeight, or 0
  range,    \* verifiedHeightRange, or <<>>
  call,     \* each call: idle, or where it is
  saved,    \* the state last exported
  since,    \* ticks since the interval last fired
  roots,    \* heights trusted without a header below them (for the properties)
  trusts, faults, crashes, changes

headerVars == <<held, latest, range, roots>>
chainSideVars == <<chainVars, age, vals, changes>>
vars == <<chainSideVars, headerVars, call, saved, since, trusts, faults, crashes>>

Idle == [at |-> "idle", next |-> 0, target |-> 0, result |-> "none"]

\* A call that has returned keeps its result until its next start.
Returned(result, height) == [Idle EXCEPT !.result = result, !.target = height]

Init ==
  /\ ChainInit
  /\ age = <<0>>
  /\ vals \in {<<v, v>> : v \in ValidatorSets}
  /\ held = <<>> /\ latest = 0 /\ range = <<>> /\ roots = {}
  /\ call = [c \in Callers |-> Idle]
  /\ saved = <<>>
  /\ since = 0
  /\ trusts = 0 /\ faults = 0 /\ crashes = 0 /\ changes = 0

Old == Drift + 1

Older(t) == IF t < Old THEN t + 1 ELSE Old

Lowest(S) == CHOOSE h \in S : \A g \in S : h <= g
Highest(S) == CHOOSE h \in S : \A g \in S : h >= g

Held == DOMAIN held

-----------------------------------------------------------------------------
(* Verification of the header of block h *)

\* The last commit of a block is of the block before it, and is counted against
\* the validators asked for at the block's own height, signature by signature.
Signers(h) == IF h = 1 THEN <<>> ELSE vals[h - 1]

\* verifyCommitSignatures and the trust threshold. (CometBFT's validators do not
\* sign the bytes the code builds, as its comments say: until they match, every
\* header is refused.)
EnoughPower(h) ==
  LET validators == vals[h]
      signed == {i \in DOMAIN validators : SignBytesMatch /\ Signers(h)[i] = validators[i]}
  IN  /\ Len(Signers(h)) = Len(validators)
      /\ Cardinality(signed) * TrustDen >= Len(validators) * TrustNum

\* validateBasicHeader.
Recent(h) == age[h] <= Drift

\* findBestTrustedHeader: the highest below h, or else the lowest.
Best(h) ==
  LET below == {g \in Held : g < h}
  IN  IF below # {} THEN {g \in below : \A f \in below : f <= g} ELSE {g \in Held : \A f \in Held : g <= f}

\* (With the bug of checking that heights ascend, not by one.)
SequentialAscending(h) == \E g \in Best(h) : h > g /\ age[h] < held[g]

\* verifySequential: the next height, at a later time. A chain's own headers
\* always pass verifyValidatorSetTransition then.
Sequential(h) == \E g \in Best(h) : h = g + 1 /\ age[h] < held[g]

Verifies(h) == Recent(h) /\ Sequential(h) /\ EnoughPower(h)

\* addTrustedHeader.
WithHeader(h) ==
  /\ held' = [g \in Held \cup {h} |-> IF g = h THEN age[h] ELSE held[g]]
  /\ latest' = IF h > latest THEN h ELSE latest
  /\ range' = IF range = <<>> THEN <<h, h>>
              ELSE <<IF h < range[1] THEN h ELSE range[1], IF h > range[2] THEN h ELSE range[2]>>
  /\ UNCHANGED roots

-----------------------------------------------------------------------------
(* Initialisation *)

Fail(n) == faults + n <= MaxFaults /\ faults' = faults + n

\* A request of an endpoint's latest block: its height, or 0 for a failure.
AskLatest(answers) ==
  /\ \A e \in Endpoints : answers[e] \in {seen[e], 0}
  /\ Fail(Cardinality({e \in Endpoints : answers[e] = 0}))

\* The header of block h is trusted, whatever is held.
Trusted(h) ==
  /\ held' = [g \in Held \cup {h} |-> IF g = h THEN age[h] ELSE held[g]]
  /\ latest' = h
  /\ range' = <<h, h>>
  /\ roots' = roots \cup {h}
  /\ trusts < MaxTrusts /\ trusts' = trusts + 1

TrustOnFirstUse ==
  /\ \E answers \in [Endpoints -> 0 .. Tip] :
       AskLatest(answers) /\ \E h \in ConsensusHeights(answers) : Trusted(h)
  /\ UNCHANGED <<chainSideVars, call, saved, since, crashes>>

\* initializeWithTrustedHeader, of a header the caller got from elsewhere.
TrustHeader(h) ==
  /\ Recent(h) /\ EnoughPower(h)
  /\ Trusted(h)
  /\ UNCHANGED <<chainSideVars, call, saved, since, faults, crashes>>

-----------------------------------------------------------------------------
(* syncToLatest and getHeaderByHeight *)

\* The call goes on to the header after h, or returns.
NextHeader(c, h) ==
  IF h < call[c].target THEN [call[c] EXCEPT !.at = "fetching", !.next = h + 1]
  ELSE Returned("ok", call[c].target)

SyncToLatest(c) ==
  /\ call[c].at = "idle"
  /\ since' = IF since = SyncEvery THEN 0 ELSE since
  /\ \E answers \in [Endpoints -> 0 .. Tip] :
       /\ AskLatest(answers)
       /\ call' = [call EXCEPT ![c] =
            LET target == IF LatestHeights(answers) = {} THEN 0
                          ELSE CHOOSE h \in LatestHeights(answers) : TRUE
                first == (IF latest = 0 THEN 1 ELSE latest) + 1
            IN  IF target = 0 THEN Returned("failed", 0)
                ELSE IF target <= latest THEN Returned("ok", latest)
                ELSE IF first > target THEN Returned("ok", target)
                ELSE [Idle EXCEPT !.at = "fetching", !.next = first, !.target = target]]
  /\ UNCHANGED <<chainSideVars, headerVars, saved, trusts, crashes>>

GetHeaderByHeight(c, h) ==
  /\ call[c].at = "idle"
  /\ call' = [call EXCEPT ![c] =
       IF h \in Held THEN Returned("ok", h)
       ELSE [Idle EXCEPT !.at = "fetching", !.next = h, !.target = h]]
  /\ UNCHANGED <<chainSideVars, headerVars, saved, since, trusts, faults, crashes>>

\* (With the bug of going on past a header that is not verified.)
NotVerifiedSkipped(c) == NextHeader(c, call[c].next)

NotVerified(c) == Returned("failed", call[c].next)

\* The endpoints that have block `next' give its header, unless they fail; with
\* too few, the call fails. A header is accepted or refused as it arrives; the
\* validators it is checked with may not (then it is refused).
FetchHeader(c) ==
  /\ call[c].at = "fetching"
  /\ LET h == call[c].next
         having == {e \in Endpoints : seen[e] >= h}
     IN  \E failing \in SUBSET having, validators \in BOOLEAN :
           /\ Fail(Cardinality(failing) + IF validators THEN 0 ELSE 1)
           /\ call' = [call EXCEPT ![c] =
                IF Cardinality(having \ failing) < MinValidators THEN Returned("failed", h)
                ELSE IF validators /\ Verifies(h) THEN [@ EXCEPT !.at = "verified"]
                ELSE NotVerified(c)]
  /\ UNCHANGED <<chainSideVars, headerVars, saved, since, trusts, crashes>>

\* The signatures are checked, and the header is added to what is held by then.
AddTrustedHeader(c) ==
  /\ call[c].at = "verified"
  /\ WithHeader(call[c].next)
  /\ call' = [call EXCEPT ![c] = NextHeader(c, call[c].next)]
  /\ UNCHANGED <<chainSideVars, saved, since, trusts, faults, crashes>>

-----------------------------------------------------------------------------
(* Export, restart, import *)

\* The age a header has once it is imported: serializeTrustedHeader leaves its
\* time out, and deserializeTrustedHeader gives it the time of the export.
ExportedAge(h) == IF Through = "objects" THEN held[h] ELSE 0

ExportTrustedState ==
  /\ saved' = [h \in Held |-> ExportedAge(h)]
  /\ UNCHANGED <<chainSideVars, headerVars, call, since, trusts, faults, crashes>>

\* The client is lost with all it held, and its calls.
Crash ==
  /\ crashes < MaxCrashes /\ crashes' = crashes + 1
  /\ held' = <<>> /\ latest' = 0 /\ range' = <<>> /\ roots' = {}
  /\ call' = [c \in Callers |-> Idle]
  /\ UNCHANGED <<chainSideVars, saved, since, trusts, faults>>

\* (With the bug of keeping the range of what was held before.)
RangeOfKept(S) == IF range = <<>> THEN <<Lowest(S), Highest(S)>> ELSE range

RangeOf(S) == <<Lowest(S), Highest(S)>>

ImportTrustedState ==
  /\ saved # <<>>
  /\ held' = [h \in Held \cup DOMAIN saved |-> IF h \in DOMAIN saved THEN saved[h] ELSE held[h]]
  /\ latest' = Highest({latest} \cup DOMAIN saved)
  /\ range' = RangeOf(Held \cup DOMAIN saved)
  /\ roots' = roots \cup DOMAIN saved
  /\ UNCHANGED <<chainSideVars, call, saved, since, trusts, faults, crashes>>

-----------------------------------------------------------------------------
(* The chain and time *)

\* A block later than the last, its validators known since the last.
ProduceBlock ==
  /\ Produce
  /\ age[Tip] > 0 /\ age' = Append(age, 0)
  /\ \E v \in ValidatorSets :
       /\ vals' = Append(vals, v)
       /\ changes' = changes + IF v = vals[Len(vals)] THEN 0 ELSE 1
       /\ changes' <= MaxChanges
  /\ UNCHANGED <<headerVars, call, saved, since, trusts, faults, crashes>>

FollowChain ==
  /\ \E e \in Endpoints : Follow(e)
  /\ UNCHANGED <<age, vals, changes, headerVars, call, saved, since, trusts, faults, crashes>>

\* A tick is long against a request: endpoints have caught up and calls have
\* ended before it, and the interval has fired when it is due.
Tick ==
  /\ since < SyncEvery
  /\ \A c \in Callers : call[c].at = "idle"
  /\ \A e \in Endpoints : seen[e] = Tip
  /\ since' = since + 1
  /\ age' = [h \in DOMAIN age |-> Older(age[h])]
  /\ held' = [h \in Held |-> Older(held[h])]
  /\ saved' = [h \in DOMAIN saved |-> Older(saved[h])]
  /\ UNCHANGED <<chainVars, vals, changes, latest, range, roots, call, trusts, faults, crashes>>

-----------------------------------------------------------------------------
Next ==
  \/ TrustOnFirstUse \/ \E h \in 1 .. Tip : TrustHeader(h)
  \/ \E c \in Callers :
       \/ SyncToLatest(c) \/ FetchHeader(c) \/ AddTrustedHeader(c)
       \/ \E h \in 1 .. Tip : GetHeaderByHeight(c, h)
  \/ ExportTrustedState \/ Crash \/ ImportTrustedState
  \/ ProduceBlock \/ FollowChain \/ Tick

Spec == Init /\ [][Next]_vars

-----------------------------------------------------------------------------
(* Properties *)

\* Type correctness.
StoreTypeOK ==
  /\ ChainTypeOK
  /\ age \in [1 .. Tip -> 0 .. Old] /\ Len(vals) = Tip + 1
  /\ Held \subseteq 1 .. Tip /\ \A h \in Held : held[h] \in 0 .. Old
  /\ latest \in 0 .. Tip /\ roots \subseteq Held
  /\ call \in [Callers -> [at : {"idle", "fetching", "verified"}, next : 0 .. Tip,
                           target : 0 .. Tip, result : {"none", "ok", "failed"}]]
  /\ since \in 0 .. SyncEvery

\* Trust is never conjured up: however calls, initialisations and imports
\* overlap, a header held is one the caller trusted or imported, or its
\* predecessor is held too (verifyHeader, findBestTrustedHeader).
ChainedToTrust == \A h \in Held : h \in roots \/ h - 1 \in Held

\* A call that returns success has the header it names: its height is held,
\* whatever other calls did meanwhile (syncToLatest, getHeaderByHeight). Only a
\* client that holds nothing says otherwise (client.ts:227: at height 1).
SyncedIsHeld ==
  [][\A c \in Callers :
       call'[c] # call[c] /\ call'[c].result = "ok" /\ Held # {} => call'[c].target \in Held'
    ]_vars

\* An import brings back all that was exported: what was held before is held
\* again, and the range covers it (exportTrustedState, importTrustedState).
ImportRestores ==
  [][ImportTrustedState =>
       /\ DOMAIN saved \subseteq Held'
       /\ \A h \in DOMAIN saved : h <= latest'
       /\ \A h \in Held' : range'[1] <= h /\ h <= range'[2]]_vars

\* A client that misses a block is left behind for good: once the block after its
\* highest header is older than the drift, no call, and no two calls that overlap,
\* get it a later header, however recent; only trust given anew, or an import,
\* does (validateBasicHeader takes no header older than maxClockDriftSecs, and
\* verifySequential skips none).
LeftBehind ==
  [][Held # {} /\ Highest(Held) < Tip /\ ~Recent(Highest(Held) + 1) /\ roots' \subseteq roots
     => \A h \in Held' : h <= Highest(Held)]_vars
=============================================================================
