---------------------------- MODULE TxSubmission ----------------------------
(***************************************************************************)
(* Writes of one DID from nonce to block: ConsensusClient.submitWithNonce, *)
(* registerDid and resubmit, FileOperations.submitSigned and               *)
(* PrivacyOperations.submitWithNonce, all posting through submitTxToApi    *)
(* and sharing one NonceAllocator, against the API server, CometBFT and    *)
(* the chain.                                                              *)
(*                                                                         *)
(* A write is one signed transaction.  Its posts are copies of the same    *)
(* bytes, made by the call that signed it and by resubmit() calls, of      *)
(* which the caller may have several running at once.  A call awaits one   *)
(* copy; one it gave up on may still arrive (`stray').  The API, CometBFT  *)
(* (its cache and mempool) and the chain are external: they are modelled   *)
(* from the answers the code distinguishes and what its comments and       *)
(* README say of them.                                                     *)
(***************************************************************************)
EXTENDS NonceAllocator

CONSTANTS
  ClientWrites,   \* ConsensusClient writes: retried after transport failures
  FileWrites,     \* file writes: one attempt
  PrivacyWrites,  \* privacy writes: one attempt, and a nonce read of the base only
  CallerWrites,   \* file writes given signing.nonce, taken by the caller before
  Registrations,  \* registerDid: always nonce 1, nothing taken
  MaxRetries,     \* config.maxRetries of the consensus client (3)
  Resubmissions,  \* bound: calls of resubmit(), for whichever writes
  MaxForeign,     \* bound: nonces of the DID spent by other processes
  Patience        \* ticks from a hold to the end of its attempt and the wait
                  \* before the next (request timeout + retry delay)

\* The writes that take their own nonce as part of the call.
Managed == ClientWrites \cup FileWrites \cup PrivacyWrites

Writes == Managed \cup CallerWrites \cup Registrations

\* The calls that post: one that signs each write, and the resubmissions.
Calls == Writes \cup Resubmissions

ASSUME SubmissionAssumption ==
  /\ MaxRetries \in Nat /\ MaxForeign \in Nat /\ Patience \in Nat
  /\ Resubmissions \cap Writes = {}

VARIABLES
  pc,        \* where each call is
  report,    \* the nonce state its read returned, until the nonce is taken
  nonce,     \* the nonce its transaction is signed under (0: none yet)
  attempt,   \* the broadcast loop's attempt
  repeat,    \* broadcastTransaction's `earlier': an earlier post may have arrived
  of,        \* the write whose transaction a call posts
  waited,    \* ticks since it last held its nonce (it stops at HoldTime)
  answer,    \* the API's answer to its awaited copy, or "none"
  outcome,   \* what the call returned or threw
  chain,     \* the chain's nonce state of the DID
  landed,    \* writes included in a block
  pool,      \* writes in the mempool
  cache,     \* writes CometBFT's transaction cache holds
  stray,     \* number of given-up copies of each write still on their way
  foreign    \* nonces spent so far by other processes

clientVars == <<pc, report, nonce, attempt, repeat, of, waited, outcome>>
serverVars == <<chain, landed, pool, cache, stray, foreign>>
vars == <<allocatorVars, clientVars, answer, serverVars>>

\* "parked": a nonce from nextNonce the caller keeps for a file write.
\* "handled": the API answered the awaited copy, the answer is on its way back.
Control == {"idle", "read", "parked", "signed", "posted", "handled", "sleeping", "done"}

Outcomes ==
  {"none", "noNonce", "windowFull", "unsent", "failed",
   "accepted", "pending", "refused", "refusedNonce"}

\* What submitTxToApi tells apart: a CheckTx code of 0, a non-zero code whose
\* log says the nonce is held, used or spent, any other non-zero code, the
\* mempool's "tx already exists in cache", a 4xx the body causes, any other
\* 4xx, and a 2xx failure envelope with an error text. settle() looks for a
\* refused nonce in the text of a badBody or an envelope too: the API is taken
\* to put CheckTx's log beside its code only, so settle() finds none there.
Answers ==
  {"none", "accepted", "nonceTaken", "checkRefused", "inCache",
   "badBody", "badRequest", "envelope"}

\* The call is between taking (or being given) its nonce and returning.
InFlight(c) == pc[c] \in {"signed", "posted", "handled", "sleeping"}

\* broadcastTransaction's maxRetries; submitTxToApi called directly has none. A
\* resubmission of any write goes through the consensus client.
Retries(c) ==
  IF c \in ClientWrites \cup Registrations \cup Resubmissions THEN MaxRetries ELSE 0

Init ==
  /\ AllocatorInit
  /\ pc = [c \in Calls |-> "idle"]
  /\ report = [c \in Calls |-> NoState]
  /\ nonce = [c \in Calls |-> 0]
  /\ attempt = [c \in Calls |-> 0]
  /\ repeat = [c \in Calls |-> c \in Resubmissions]
  /\ of = [c \in Calls |-> c]
  /\ waited = [c \in Calls |-> 0]
  /\ answer = [c \in Calls |-> "none"]
  /\ outcome = [c \in Calls |-> "none"]
  /\ chain = [base |-> 0, used |-> {}]
  /\ landed = {} /\ pool = {} /\ cache = {}
  /\ stray = [w \in Writes |-> 0]
  /\ foreign = 0

-----------------------------------------------------------------------------
(* The call up to its first post *)

\* readNonceState: the chain's state as it is when the node answers. The
\* answer is used later, when the client resumes (TakeNonce); by then it may be
\* older than what another write has read. Without an RPC URL, when the RPC
\* fails, and for PrivacyOperations it is the base alone.
ReadNonceState(c) ==
  /\ pc[c] = "idle" /\ c \in Managed \cup CallerWrites
  /\ \E used \in {chain.used, {}} :
       /\ c \in PrivacyWrites => used = {}
       /\ report' = [report EXCEPT ![c] = [base |-> chain.base, used |-> used]]
  /\ pc' = [pc EXCEPT ![c] = "read"]
  /\ UNCHANGED <<allocatorVars, nonce, attempt, repeat, of, waited,
                 answer, outcome, serverVars>>

\* nonces.take(did, r) and what follows it synchronously.
TakeWith(c, r) ==
  /\ \/ /\ \E n \in Free(Seen(r), Kept(Seen(r), taken)) :
             /\ Take(r, n)
             /\ nonce' = [nonce EXCEPT ![c] = n]
        /\ pc' = [pc EXCEPT ![c] = IF c \in CallerWrites THEN "parked" ELSE "signed"]
        /\ UNCHANGED outcome
     \/ /\ TakeFromFullWindow(r)
        /\ pc' = [pc EXCEPT ![c] = "done"]
        /\ outcome' = [outcome EXCEPT ![c] = "windowFull"]
        /\ UNCHANGED nonce
  /\ report' = [report EXCEPT ![c] = NoState]
  /\ UNCHANGED <<attempt, repeat, of, waited, answer, serverVars>>

TakeNonce(c) == pc[c] = "read" /\ TakeWith(c, report[c])

\* The read failed: the newest state seen is used, or, when there is none and
\* for PrivacyOperations always, the call throws.
TakeUnread(c) ==
  /\ pc[c] = "idle" /\ c \in Managed \cup CallerWrites
  /\ \/ c \notin PrivacyWrites /\ latest # NoState /\ TakeWith(c, NoState)
     \/ /\ c \in PrivacyWrites \/ TakeUnknown
        /\ pc' = [pc EXCEPT ![c] = "done"]
        /\ outcome' = [outcome EXCEPT ![c] = "noNonce"]
        /\ UNCHANGED <<allocatorVars, report, nonce, attempt, repeat, of,
                       waited, answer, serverVars>>

\* registerDid: the registration is signed at nonce 1, which is not taken.
Register(c) ==
  /\ pc[c] = "idle" /\ c \in Registrations
  /\ nonce' = [nonce EXCEPT ![c] = 1]
  /\ pc' = [pc EXCEPT ![c] = "signed"]
  /\ UNCHANGED <<allocatorVars, report, attempt, repeat, of, waited,
                 answer, outcome, serverVars>>

\* The caller signs and sends a file write under the nonce it kept.
UseParked(c) ==
  /\ pc[c] = "parked"
  /\ pc' = [pc EXCEPT ![c] = "signed"]
  /\ UNCHANGED <<allocatorVars, report, nonce, attempt, repeat, of, waited,
                 answer, outcome, serverVars>>

\* Building, signing or sending failed before anything was sent: a nonce the
\* call took itself is given back.
FailUnsent(c) ==
  /\ pc[c] = "signed"
  /\ IF c \in Managed THEN Release(nonce[c]) ELSE UNCHANGED allocatorVars
  /\ pc' = [pc EXCEPT ![c] = "done"]
  /\ outcome' = [outcome EXCEPT ![c] = "unsent"]
  /\ UNCHANGED <<report, nonce, attempt, repeat, of, waited, answer, serverVars>>

-----------------------------------------------------------------------------
(* Posting, retrying and settling *)

\* Each attempt renews the hold, then posts.
Post(c) ==
  /\ pc[c] \in {"signed", "sleeping"}
  /\ Hold(nonce[c])
  /\ waited' = [waited EXCEPT ![c] = 0]
  /\ pc' = [pc EXCEPT ![c] = "posted"]
  /\ UNCHANGED <<report, nonce, attempt, repeat, of, answer, outcome, serverVars>>

\* (With the bug of treating a retry as a first post.)
RetryAsFirst(c) ==
  /\ attempt' = [attempt EXCEPT ![c] = @ + 1]
  /\ pc' = [pc EXCEPT ![c] = "sleeping"]
  /\ UNCHANGED <<outcome, repeat>>

\* (With the bug of not counting attempts that timed out.)
RetryUncounted(c) ==
  /\ repeat' = [repeat EXCEPT ![c] = TRUE]
  /\ pc' = [pc EXCEPT ![c] = "sleeping"]
  /\ UNCHANGED <<outcome, attempt>>

\* Another attempt is left: broadcastTransaction sleeps before it, and its post
\* will be a repeat.
RetryLater(c) ==
  /\ attempt' = [attempt EXCEPT ![c] = @ + 1]
  /\ repeat' = [repeat EXCEPT ![c] = TRUE]
  /\ pc' = [pc EXCEPT ![c] = "sleeping"]
  /\ UNCHANGED outcome

\* The last attempt failed: the submission is thrown and the nonce stays held.
GiveUp(c) ==
  /\ pc' = [pc EXCEPT ![c] = "done"]
  /\ outcome' = [outcome EXCEPT ![c] = "failed"]
  /\ UNCHANGED <<attempt, repeat>>

\* The fetch failed or timed out, or the answer was not the handler's (a 5xx, a
\* proxy's page). The copy may have been handled, be lost, or arrive later.
AttemptFails(c) ==
  /\ pc[c] \in {"posted", "handled"}
  /\ answer' = [answer EXCEPT ![c] = "none"]
  /\ \/ UNCHANGED stray
     \/ pc[c] = "posted" /\ stray' = [stray EXCEPT ![of[c]] = @ + 1]
  /\ IF attempt[c] < Retries(c) THEN RetryLater(c) ELSE GiveUp(c)
  /\ UNCHANGED <<allocatorVars, report, nonce, of, waited,
                 chain, landed, pool, cache, foreign>>

\* (With the bug of reading a repeat's answer like a first post's.)
ResultOfFirst(a, again) ==
  CASE a = "accepted"                  -> "accepted"
    [] a \in {"inCache", "badRequest"} -> "pending"
    [] a = "nonceTaken"                -> "refusedNonce"
    [] OTHER                           -> "refused"

\* submitTxToApi: the result an answer gives, on a first post or a repeat.
ResultOf(a, again) ==
  CASE a = "accepted"                    -> "accepted"
    [] a \in {"inCache", "badRequest"}   -> "pending"
    [] a = "badBody"                     -> IF again THEN "pending" ELSE "refused"
    [] a = "nonceTaken"                  -> IF again THEN "pending" ELSE "refusedNonce"
    [] OTHER                             -> "refused"

\* (With the bug of giving back the nonce of a write whose outcome is unknown.)
KeepsNonceIfKnown(result) == result \in {"accepted", "refusedNonce"}

\* The results after which settle() holds the nonce.
KeepsNonce(result) == result \in {"accepted", "pending", "refusedNonce"}

\* The answer reaches the client: sendSigned, submitSigned and privacy's
\* submitWithNonce settle the nonce; registerDid only holds it.
ReceiveAnswer(c) ==
  LET result == ResultOf(answer[c], repeat[c])
      settles == c \notin Registrations
      holds == IF settles THEN KeepsNonce(result) ELSE result \in {"accepted", "pending"}
  IN  /\ pc[c] = "handled"
      /\ IF settles \/ holds THEN Settle(nonce[c], holds) ELSE UNCHANGED allocatorVars
      /\ waited' = [waited EXCEPT ![c] = IF holds THEN 0 ELSE @]
      /\ pc' = [pc EXCEPT ![c] = "done"]
      /\ outcome' = [outcome EXCEPT ![c] = result]
      /\ answer' = [answer EXCEPT ![c] = "none"]
      /\ UNCHANGED <<report, nonce, attempt, repeat, of, serverVars>>

\* resubmit(): the submission a failed, pending or refused call carried is
\* posted again, as a repeat from its first attempt. The caller may do so while
\* another resubmission of the same write is unanswered.
Resubmit(c) ==
  /\ c \in Resubmissions /\ pc[c] = "idle"
  /\ \E d \in Calls :
       /\ pc[d] = "done" /\ outcome[d] \in {"failed", "pending", "refused", "refusedNonce"}
       /\ of' = [of EXCEPT ![c] = of[d]]
       /\ nonce' = [nonce EXCEPT ![c] = nonce[d]]
       /\ Hold(nonce[d])
  /\ pc' = [pc EXCEPT ![c] = "posted"]
  /\ UNCHANGED <<report, attempt, repeat, waited, answer, outcome, serverVars>>

-----------------------------------------------------------------------------
(* The API server, CometBFT and the chain *)

\* A used nonce, or one a pending transaction holds (w's own earlier copy too).
NonceTaken(w) ==
  IsUsed(chain, nonce[w]) \/ \E v \in pool : nonce[v] = nonce[w]

\* A copy of w reaches CometBFT, which answers a. Its cache is consulted before
\* CheckTx; CheckTx may refuse for the nonce or for any other reason.
Broadcast(w, a) ==
  \/ w \in cache /\ a = "inCache" /\ UNCHANGED <<pool, cache>>
  \/ /\ w \notin cache /\ a = "accepted"
     /\ ~NonceTaken(w) /\ nonce[w] <= chain.base + Window
     /\ pool' = pool \cup {w} /\ cache' = cache \cup {w}
  \/ w \notin cache /\ a = "nonceTaken" /\ NonceTaken(w) /\ UNCHANGED <<pool, cache>>
  \/ w \notin cache /\ a = "checkRefused" /\ UNCHANGED <<pool, cache>>

\* The awaited copy arrives: the API refuses it itself or relays CometBFT.
HandlePost(c) ==
  /\ pc[c] = "posted"
  /\ \E a \in Answers \ {"none"} :
       /\ \/ a \in {"badBody", "badRequest", "envelope"} /\ UNCHANGED <<pool, cache>>
          \/ Broadcast(of[c], a)
       /\ answer' = [answer EXCEPT ![c] = a]
  /\ pc' = [pc EXCEPT ![c] = "handled"]
  /\ UNCHANGED <<allocatorVars, report, nonce, attempt, repeat, of, waited,
                 outcome, chain, landed, stray, foreign>>

\* A copy the client gave up on arrives; nobody reads the answer.
HandleStray(w) ==
  /\ stray[w] > 0
  /\ stray' = [stray EXCEPT ![w] = @ - 1]
  /\ \/ UNCHANGED <<pool, cache>>
     \/ \E a \in Answers : Broadcast(w, a)
  /\ UNCHANGED <<allocatorVars, clientVars, answer, chain, landed, foreign>>

\* Nonce n is spent in a block: the base advances over used nonces with no gap.
Spend(n) ==
  /\ ~IsUsed(chain, n) /\ n <= chain.base + Window
  /\ \E b \in chain.base .. (chain.base + Window) :
       LET used == chain.used \cup {n}
       IN  /\ (chain.base + 1) .. b \subseteq used
           /\ b + 1 \notin used
           /\ chain' = [base |-> b, used |-> {m \in used : m > b}]

\* A block includes w. The other transactions under its nonce fail the recheck
\* and leave the mempool and its cache.
Include(w) ==
  /\ w \in pool
  /\ Spend(nonce[w])
  /\ landed' = landed \cup {w}
  /\ LET rivals == {v \in pool : nonce[v] = nonce[w]}
     IN  pool' = pool \ rivals /\ cache' = cache \ (rivals \ {w})
  /\ UNCHANGED <<allocatorVars, clientVars, answer, stray, foreign>>

\* Another process writing as the same DID lands a transaction.
ForeignSpend(n) ==
  /\ foreign < MaxForeign
  /\ foreign' = foreign + 1
  /\ Spend(n)
  /\ LET rivals == {v \in pool : nonce[v] = n}
     IN  pool' = pool \ rivals /\ cache' = cache \ rivals
  /\ UNCHANGED <<allocatorVars, clientVars, answer, landed, stray>>

\* The mempool drops a transaction (it expired, or failed a recheck).
DropFromPool(w) ==
  /\ w \in pool
  /\ pool' = pool \ {w} /\ cache' = cache \ {w}
  /\ UNCHANGED <<allocatorVars, clientVars, answer, chain, landed, stray, foreign>>

\* CometBFT forgets it has seen w: a restart, or the cache's limit.
LoseCache(w) ==
  /\ w \in cache
  /\ cache' = cache \ {w}
  /\ UNCHANGED <<allocatorVars, clientVars, answer, chain, landed, pool, stray, foreign>>

\* A tick. An attempt and the wait after it are over within Patience.
Tick ==
  /\ \A c \in Calls : InFlight(c) => waited[c] < Patience
  /\ Elapse
  /\ waited' = [c \in Calls |->
                  IF nonce[c] > 0 /\ waited[c] < HoldTime THEN waited[c] + 1 ELSE waited[c]]
  /\ UNCHANGED <<pc, report, nonce, attempt, repeat, of, answer, outcome, serverVars>>

-----------------------------------------------------------------------------
Call(c) ==
  \/ ReadNonceState(c) \/ TakeNonce(c) \/ TakeUnread(c) \/ Register(c)
  \/ UseParked(c) \/ FailUnsent(c) \/ Post(c) \/ AttemptFails(c)
  \/ ReceiveAnswer(c) \/ Resubmit(c)

Server(w) == HandleStray(w) \/ Include(w) \/ DropFromPool(w) \/ LoseCache(w)

Next ==
  \/ \E c \in Calls : Call(c) \/ HandlePost(c)
  \/ \E w \in Writes : Server(w)
  \/ \E n \in (chain.base + 1) .. (chain.base + Window) : ForeignSpend(n)
  \/ Tick

Spec == Init /\ [][Next]_vars

\* A call that has started goes on: its timers fire and its continuations run.
\* Nothing is assumed of the caller, the API, CometBFT or the chain.
Fairness ==
  /\ WF_vars(Tick)
  /\ \A c \in Calls :
       WF_vars(TakeNonce(c) \/ Post(c) \/ AttemptFails(c) \/ ReceiveAnswer(c))

FairSpec == Spec /\ Fairness

-----------------------------------------------------------------------------
(* Properties *)

\* Type correctness of every variable.
TypeOK ==
  /\ AllocatorTypeOK
  /\ pc \in [Calls -> Control]
  /\ report \in [Calls -> NonceStates \cup {NoState}]
  /\ \A c \in Calls : pc[c] = "read" => report[c] # NoState
  /\ nonce \in [Calls -> Nat]
  /\ attempt \in [Calls -> 0 .. MaxRetries]
  /\ repeat \in [Calls -> BOOLEAN]
  /\ of \in [Calls -> Calls]
  /\ \A w \in Writes : of[w] = w
  /\ \A c \in Calls : IF pc[c] = "idle" THEN of[c] = c ELSE of[c] \in Writes
  /\ waited \in [Calls -> 0 .. HoldTime]
  /\ answer \in [Calls -> Answers]
  /\ outcome \in [Calls -> Outcomes]
  /\ chain \in NonceStates
  /\ landed \subseteq Writes /\ pool \subseteq Writes /\ cache \subseteq Writes
  /\ stray \in [Writes -> Nat]
  /\ foreign \in 0 .. MaxForeign

\* No two writes in flight share a nonce (nonces.ts: "Hands out one account's
\* transaction nonces so that no two writes in flight share one"), however
\* their reads, posts, retries and refusals interleave and whatever else lands.
NoSharedNonce ==
  \A v, w \in Managed :
    v # w /\ InFlight(v) /\ InFlight(w) => nonce[v] # nonce[w]

\* README.md of a write's attempts: each "renews the nonce's hold, so no other
\* write takes it while the write is in flight". Two resubmissions of one write
\* may be out at once: the refusal of one gives the nonce back, and another
\* write takes it while the other resubmission is in flight under it.
NoOtherWriteTakesIt ==
  [][\A v \in Managed, c \in Managed \cup Resubmissions :
       of[c] # v /\ InFlight(c) /\ nonce'[v] # nonce[v] => nonce'[v] # nonce[c]
    ]_vars

\* The nonce n is held since at most `age' ticks, or has been seen used: for as
\* long as age < HoldTime, take() will not hand it out.
Guarded(held, state, n, age) ==
  \/ n \in DOMAIN held /\ held[n] <= age
  \/ state # NoState /\ IsUsed(state, n)

HoldsItsNonce(w) == Guarded(taken, latest, nonce[w], waited[w])

\* A write in flight holds its nonce, no longer ago than its last attempt, and
\* that attempt is over before the hold is: however long its retries run, the
\* hold does not run out under it.
HeldInFlight == \A w \in Managed : InFlight(w) => HoldsItsNonce(w) /\ waited[w] <= Patience

\* What the SDK believes used is used: merging answers that arrive late, out of
\* order, or without the bitmap never marks a nonce the chain has not used
\* (mergeStates; a wrong bit would make take() skip a nonce forever).
SoundState(s, c) ==
  s # NoState => s.base <= c.base /\ \A n \in s.used : IsUsed(c, n)

SeenIsUsed == SoundState(latest, chain) /\ \A c \in Calls : SoundState(report[c], chain)

\* A nonce in flight is never above the window of the chain as it is now, so a
\* write is never refused for a nonce too high (take(): "it never takes one
\* above base + 24"), even when it was taken against a stale state.
NonceInWindow == \A c \in Calls : nonce[c] > 0 => nonce[c] <= chain.base + Window

\* A nonce seen used stays seen used: an older or base-only answer neither
\* lowers the base nor clears a bit (refresh(), mergeStates).
SeenUsedStaysSeen ==
  [][latest # NoState =>
       /\ latest' # NoState
       /\ \A n \in 1 .. (latest.base + Window) : IsUsed(latest, n) => IsUsed(latest', n)
    ]_vars

Refused(w) == outcome[w] \in {"refused", "refusedNonce"}

\* The caller has resubmitted the write.
SentAgain(w) == \E r \in Resubmissions : of[r] = w

\* A write refused on its first post has left no copy that could still land, so
\* its nonce can be given back and its contents signed again (submitTxToApi:
\* "this transaction never reached CheckTx and never will").
RefusedFirstPostIsGone ==
  \A w \in Writes :
    Refused(w) /\ ~repeat[w] /\ ~SentAgain(w) => w \notin landed \cup pool /\ stray[w] = 0

\* A call whose transaction landed is never told its nonce was refused: the
\* repeat that finds its own nonce used comes back pending
\* (repeatFoundItsNonceTaken), or its author would sign it again and run it
\* twice. (A write refused over its nonce may land when it is resubmitted.)
NonceRefusalNeverHidesLanding ==
  \A c \in Calls :
    outcome[c] = "refusedNonce" /\ (c \in Writes => ~SentAgain(c)) => of[c] \notin landed

\* A write that may still land keeps its nonce for the whole hold: only a
\* refusal gives it up (settle(), sendSigned: "a transport failure keeps the
\* hold").
MayStillLand(w) ==
  \/ w \in pool \/ stray[w] > 0
  \/ \E c \in Calls : of[c] = w /\ pc[c] \in {"posted", "handled"}

UnsettledKeepsNonce ==
  \A w \in Managed :
    MayStillLand(w) /\ outcome[w] # "refused" /\ waited[w] < HoldTime => HoldsItsNonce(w)

\* Every call returns or throws: timeouts and the bounded retries end it,
\* whatever the API does.
CallsReturn == \A c \in Calls : InFlight(c) ~> pc[c] = "done"

\* A full window opens again: holds of writes that never landed run out, so a
\* nonce taken and never used does not block the account for good.
WindowReopens == WindowFull ~> ~WindowFull

-----------------------------------------------------------------------------
(* The inductive invariant behind NoSharedNonce, HeldInFlight and          *)
(* UnsettledKeepsNonce, where no write is resubmitted, none is given its   *)
(* nonce by its caller, and an attempt ends before the hold does.          *)

\* The write's nonce was neither given back nor left unrenewed for a whole hold.
Live(w) == nonce[w] > 0 /\ outcome[w] \notin {"refused", "unsent"} /\ waited[w] < HoldTime

\* Live writes hold their nonces, and no two of them the same one.
LiveHolds ==
  \A w \in Managed :
    Live(w) =>
      /\ HoldsItsNonce(w)
      /\ \A v \in Managed : v # w /\ Live(v) => nonce[v] # nonce[w]

\* What each point of a call says of its nonce, its outcome and its copies.
Progress ==
  /\ \A w \in Registrations : pc[w] \notin {"read", "parked"}
  /\ \A w \in Managed :
       /\ pc[w] # "parked"
       /\ pc[w] \in {"idle", "read"} => nonce[w] = 0 /\ outcome[w] = "none"
       /\ InFlight(w) => nonce[w] > 0 /\ outcome[w] = "none" /\ waited[w] <= Patience
       /\ nonce[w] = 0 => waited[w] = 0
       /\ nonce[w] = 0 \/ pc[w] = "signed" \/ outcome[w] = "unsent" =>
            w \notin pool /\ stray[w] = 0

\* Implies NoSharedNonce, HeldInFlight and UnsettledKeepsNonce, and is preserved
\* by every step: a nonce is handed out only when no live write has it, and
\* given back only by the one live write that has it.
HoldInvariant == LiveHolds /\ Progress
=============================================================================
